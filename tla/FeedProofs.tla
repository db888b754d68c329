----------------------------- MODULE FeedProofs -----------------------------
(***************************************************************************)
(* Theorems about a channel feed, for any number of publish handlers, any  *)
(* page size, tail and margin, and any number of events, crashes and       *)
(* boots.                                                                  *)
(*                                                                         *)
(* Event ids are totally ordered, so a nonempty page has a last event      *)
(* (LastEvent) and a poll that finds its page empty has read the whole     *)
(* feed (ListAfter).  What a poll listed stays true of the feed until it   *)
(* is received but for events whose put lands meanwhile: those past the    *)
(* cursor still have their signal to come (Signalled), or their publisher  *)
(* was dropped while the poll was under way, and those before an           *)
(* event of the page were overtaken by it (NoGap).                         *)
(***************************************************************************)
EXTENDS Feed, FiniteSetTheorems, WellFoundedInduction, TLAPS

\* A sandbox that is not up polls nothing and has handed nothing on twice.
Down == box # "up" => poll = NoPoll /\ twice = {}

\* The cursor, the page and what was handed on are events of the feed.
FromFeed ==
  /\ cursor \in Stored \cup {Start} /\ (~ready => cursor = Start)
  /\ handed \subseteq Stored /\ poll.got \subseteq Stored

\* The cursor of a poller that has caught up is past what was handed on, and
\* the cursor of a poller that has not will be, by its first read.
PastHanded ==
  /\ ready => \A e \in handed : ~Lt(cursor, e)
  /\ ~ready /\ poll.step \in {"listed", "answer"} =>
       \A e \in handed : \E g \in poll.got : ~Lt(g, e)

\* A page begins after the cursor, and what it leaves out before its end was
\* overtaken.
NoGap ==
  ready => \A g \in poll.got :
    /\ Lt(cursor, g)
    /\ \A e \in After(cursor) \ poll.got : Lt(e, g) => Overtaken(e)

\* From an empty listing on, an event past the cursor has its signal to come,
\* or its publisher is gone.
Signalled ==
  /\ poll.step = "wait" => poll.got = {} /\ ready
  /\ poll.step \in {"listed", "wait"} /\ poll.got = {} /\ ready /\ ~notified =>
       \A e \in After(cursor) \ unsignalled :
         \E p \in Publishers : pub[p] = [step |-> "signal", id |-> e]

IInv ==
  /\ TypeOK /\ IsFiniteSet(Stored)
  /\ Down /\ FromFeed /\ PastHanded /\ NoGap /\ Signalled
  /\ MissedOnlyIfOvertaken /\ ColdBootAnswersOnce
-----------------------------------------------------------------------------
(* The order of event ids.                                                 *)

Keys == Ids \cup {Start}

LEMMA KeyFields ==
  ASSUME NEW k \in Keys
  PROVE  k.ts \in Nat /\ k.seq \in Nat /\ k = [ts |-> k.ts, seq |-> k.seq]
BY FeedAssumption DEF Keys, Ids, Start

LEMMA LtTotal ==
  ASSUME NEW a \in Keys, NEW b \in Keys
  PROVE  /\ ~Lt(a, a)
         /\ Lt(a, b) \/ a = b \/ Lt(b, a)
         /\ Lt(a, b) => ~Lt(b, a)
<1>1. /\ a.ts \in Nat /\ a.seq \in Nat /\ b.ts \in Nat /\ b.seq \in Nat
      /\ a.ts = b.ts /\ a.seq = b.seq => a = b
  BY KeyFields
<1> QED BY <1>1 DEF Lt

LEMMA LtTransitive ==
  ASSUME NEW a \in Keys, NEW b \in Keys, NEW c \in Keys
  PROVE  /\ Lt(a, b) /\ Lt(b, c) => Lt(a, c)
         /\ ~Lt(a, b) /\ ~Lt(b, c) => ~Lt(a, c)
<1>1. /\ a.ts \in Nat /\ a.seq \in Nat /\ b.ts \in Nat /\ b.seq \in Nat
      /\ c.ts \in Nat /\ c.seq \in Nat
  BY KeyFields
<1> QED BY <1>1 DEF Lt

LEMMA StartFirst == ASSUME NEW e \in Ids PROVE Lt(Start, e)
BY FeedAssumption DEF Ids, Start, Lt

\* A set of numbers has a least one.
LEMMA LeastNumber ==
  ASSUME NEW T, T \subseteq Nat, T # {}
  PROVE  \E x \in T : \A y \in T : x <= y
<1>1. PICK R : R = OpToRel(<, Nat)
  OBVIOUS
<1>2. IsWellFoundedOn(R, Nat)
  BY <1>1, NatLessThanWellFounded
<1>3. \A x, y \in Nat : x < y => <<x, y>> \in R
  BY <1>1 DEF OpToRel
<1>4. PICK x \in T : \A y \in T : ~(<<y, x>> \in R)
  BY <1>2, WFMin
<1>5. \A y \in T : ~(y < x)
  BY <1>3, <1>4
<1> QED BY <1>5

LEMMA FirstEvent ==
  ASSUME NEW S, S \subseteq Ids, S # {}
  PROVE  \E m \in S : \A e \in S : ~Lt(e, m)
<1>1. \A e \in S : e.ts \in Nat /\ e.seq \in Nat
  BY KeyFields DEF Keys
<1>2. PICK x \in {e.ts : e \in S} : \A y \in {e.ts : e \in S} : x <= y
  BY <1>1, LeastNumber
<1> DEFINE Q == {e \in S : e.ts = x}
<1>3. PICK z \in {e.seq : e \in Q} : \A y \in {e.seq : e \in Q} : z <= y
  <2>1. {e.seq : e \in Q} # {} /\ {e.seq : e \in Q} \subseteq Nat
    BY <1>1, <1>2
  <2> QED BY <2>1, LeastNumber
<1>4. PICK m \in S : m.ts = x /\ m.seq = z
  BY <1>3
<1>5. ASSUME NEW e \in S PROVE ~Lt(e, m)
  <2>1. x <= e.ts /\ (e.ts = x => z <= e.seq)
    BY <1>2, <1>3
  <2> QED BY <1>1, <1>4, <2>1 DEF Lt
<1> QED BY <1>5

LEMMA LastEvent ==
  ASSUME NEW S, S \subseteq Ids, S # {}
  PROVE  \E m \in S : \A e \in S : ~Lt(m, e)
<1>1. \A e \in S : e.ts \in Nat /\ e.seq \in Nat /\ e.ts <= MaxTime /\ e.seq <= MaxSeq
  BY DEF Ids
<1>2. MaxTime \in Nat /\ MaxSeq \in Nat
  BY FeedAssumption
<1> DEFINE T == {MaxTime - e.ts : e \in S}
<1>3. PICK x \in T : \A y \in T : x <= y
  <2>1. T # {} /\ T \subseteq Nat
    BY <1>1, <1>2
  <2> QED BY <2>1, LeastNumber
<1> DEFINE Q == {e \in S : MaxTime - e.ts = x}
           U == {MaxSeq - e.seq : e \in Q}
<1>4. PICK z \in U : \A y \in U : z <= y
  <2>1. U # {} /\ U \subseteq Nat
    BY <1>1, <1>2, <1>3
  <2> QED BY <2>1, LeastNumber
<1>5. PICK m \in S : MaxTime - m.ts = x /\ MaxSeq - m.seq = z
  BY <1>4
<1>6. ASSUME NEW e \in S PROVE ~Lt(m, e)
  <2>1. x <= MaxTime - e.ts /\ (MaxTime - e.ts = x => z <= MaxSeq - e.seq)
    BY <1>3, <1>4
  <2> QED BY <1>1, <1>2, <1>5, <2>1 DEF Lt
<1> QED BY <1>6
-----------------------------------------------------------------------------
(* What a listing and a cursor are.                                        *)

\* The cursor moves to the last event of a page.
LEMMA AdvanceLast ==
  ASSUME NEW S, S \subseteq Ids
  PROVE  /\ S = {} => Advance(S) = cursor
         /\ S # {} => Advance(S) \in S /\ \A e \in S : ~Lt(Advance(S), e)
BY LastEvent DEF Advance

\* A later event has no smaller rank.
LEMMA RankMonotone ==
  ASSUME NEW S, IsFiniteSet(S), S \subseteq Ids, NEW e \in S, NEW g \in S, Lt(e, g)
  PROVE  Rank(e, S) \in Nat /\ Rank(g, S) \in Nat /\ Rank(e, S) <= Rank(g, S)
<1> DEFINE E == {d \in S : Lt(d, e)}
           G == {d \in S : Lt(d, g)}
<1>1. E \subseteq G /\ G \subseteq S
  BY LtTransitive DEF Keys
<1>2. IsFiniteSet(G) /\ IsFiniteSet(E) /\ Cardinality(E) <= Cardinality(G)
  BY <1>1, FS_Subset
<1>3. Cardinality(E) \in Nat /\ Cardinality(G) \in Nat
  BY <1>2, FS_CardinalityType
<1> QED BY <1>2, <1>3 DEF Rank

\* A page of a poller that has caught up is a beginning of what is past its
\* cursor, and empty only when that is; a first read ends with its last event.
LEMMA ListAfter ==
  ASSUME IsFiniteSet(Stored), Stored \subseteq Ids
  PROVE  /\ channel_list_after \subseteq After(cursor)
         /\ ready => /\ channel_list_after = {} => After(cursor) = {}
                     /\ \A e \in After(cursor), g \in channel_list_after :
                          Lt(e, g) => e \in channel_list_after
         /\ ~ready => \A e \in After(cursor) :
                        \E g \in channel_list_after : ~Lt(g, e)
<1>0. PICK S : S = After(cursor)
  OBVIOUS
<1>1. S \subseteq Ids /\ IsFiniteSet(S)
  BY <1>0, FS_Subset DEF After
<1>2. /\ ready => channel_list_after = {e \in S : Rank(e, S) < PageSize}
      /\ ~ready => \E n \in Nat \ {0} :
           channel_list_after = {e \in S : Rank(e, S) >= Cardinality(S) - n}
  <2> DEFINE n == IF since # NoWake THEN WakeTail ELSE 1
  <2>1. n \in Nat \ {0}
    BY FeedAssumption
  <2>2. channel_list_after =
          IF ready THEN {e \in S : Rank(e, S) < PageSize}
                   ELSE {e \in S : Rank(e, S) >= Cardinality(S) - n}
    BY <1>0, Zenon DEF channel_list_after
  <2> HIDE DEF n
  <2> QED BY <2>1, <2>2, Zenon
<1>3. ASSUME ready, S # {} PROVE channel_list_after # {}
  <2>1. PICK m \in S : \A e \in S : ~Lt(e, m)
    BY <1>1, <1>3, FirstEvent
  <2>2. {d \in S : Lt(d, m)} = {}
    BY <2>1
  <2>3. Rank(m, S) = 0
    BY <2>2, FS_EmptySet DEF Rank
  <2> QED BY <1>2, <1>3, <2>3, FeedAssumption
<1>4. ASSUME ready, NEW e \in S, NEW g \in channel_list_after, Lt(e, g)
      PROVE  e \in channel_list_after
  <2>1. g \in S /\ Rank(g, S) < PageSize
    BY <1>2, <1>4
  <2>2. Rank(e, S) \in Nat /\ Rank(g, S) \in Nat /\ Rank(e, S) <= Rank(g, S)
    BY <1>1, <1>4, <2>1, RankMonotone
  <2> QED BY <1>2, <1>4, <2>1, <2>2, FeedAssumption
<1>5. ASSUME ~ready, NEW e \in S
      PROVE  \E g \in channel_list_after : ~Lt(g, e)
  <2>1. PICK m \in S : \A d \in S : ~Lt(m, d)
    BY <1>1, <1>5, LastEvent
  <2>2. \A d \in S : Lt(d, m) <=> d # m
    BY <1>1, <2>1, LtTotal DEF Keys
  <2>3. {d \in S : Lt(d, m)} = S \ {m}
    BY <2>2
  <2>4. Cardinality(S) \in Nat /\ Rank(m, S) = Cardinality(S) - 1
    BY <1>1, <2>1, <2>3, FS_RemoveElement, FS_CardinalityType DEF Rank
  <2>5. PICK n \in Nat \ {0} :
          channel_list_after = {d \in S : Rank(d, S) >= Cardinality(S) - n}
    BY <1>2, <1>5
  <2>6. m \in channel_list_after
    BY <2>4, <2>5
  <2> QED BY <2>1, <2>6
<1>6. channel_list_after \subseteq S
  BY <1>2
<1> QED BY <1>0, <1>3, <1>4, <1>5, <1>6
-----------------------------------------------------------------------------
(* The invariant, step by step.                                            *)

LEMMA NoPollFields == NoPoll.step = "idle" /\ NoPoll.got = {}
BY DEF NoPoll

LEMMA Facts ==
  ASSUME IInv
  PROVE  /\ TypeOK /\ IsFiniteSet(Stored) /\ Stored \subseteq Ids /\ cursor \in Keys
         /\ Down /\ FromFeed /\ PastHanded /\ NoGap /\ Signalled
         /\ MissedOnlyIfOvertaken /\ ColdBootAnswersOnce
<1>1. Stored \subseteq Ids
  BY DEF IInv, TypeOK, Stored
<1> QED BY <1>1 DEF IInv, TypeOK, Keys

LEMMA InitInv == Init => IInv
<1> SUFFICES ASSUME Init PROVE IInv
  OBVIOUS
<1>1. Stored = {}
  BY DEF Init, Stored
<1>2. TypeOK /\ IsFiniteSet(Stored)
  <2>1. Len(feed) = Cardinality(Stored) /\ IsFiniteSet(Stored) /\ feed \in Seq(Ids)
    BY <1>1, FS_EmptySet DEF Init
  <2>2. clock \in 1..MaxTime /\ seq \in 0..(MaxSeq + 1) /\ since \in NoWake..MaxTime
    BY FeedAssumption DEF Init, NoWake
  <2>3. /\ pub \in [Publishers -> [step : {"put", "signal"}, id : Ids] \cup {Quiet}]
        /\ poll \in [step : {"idle", "list", "listed", "wait", "relist", "answer"},
                     got : SUBSET Ids]
    BY DEF Init, NoPoll
  <2>4. crashes \in 0..MaxCrashes /\ boots \in 0..MaxBoots
    BY FeedAssumption DEF Init
  <2> QED BY <2>1, <2>2, <2>3, <2>4 DEF Init, TypeOK
<1>3. Down /\ FromFeed /\ PastHanded /\ NoGap /\ Signalled
  BY <1>1, NoPollFields
     DEF Init, Down, FromFeed, PastHanded, NoGap, Signalled
<1>4. MissedOnlyIfOvertaken /\ ColdBootAnswersOnce
  BY DEF Init, MissedOnlyIfOvertaken, ColdBootAnswersOnce
<1> QED BY <1>2, <1>3, <1>4 DEF IInv

\* Who has yet to signal still has.
Kept == \A p \in Publishers : pub[p].step = "signal" => pub'[p] = pub[p]

\* A step that leaves the feed and the poller alone.
LEMMA AsideInv ==
  ASSUME IInv, TypeOK', Kept,
         UNCHANGED <<feed, cursor, ready, poll, notified, unsignalled, history>>,
         box' # "up" => poll = NoPoll /\ twice = {},
         since' = NoWake => twice = {}
  PROVE  IInv'
<1>1. /\ IsFiniteSet(Stored) /\ Down /\ FromFeed /\ PastHanded /\ NoGap /\ Signalled
      /\ MissedOnlyIfOvertaken
  BY Facts
<1>2. UNCHANGED <<feed, cursor, ready, poll, notified, unsignalled, handed, twice, skipped>>
  BY DEF history
<1>3. IsFiniteSet(Stored)' /\ Down' /\ FromFeed' /\ PastHanded' /\ ColdBootAnswersOnce'
  BY <1>1, <1>2 DEF Stored, Down, FromFeed, PastHanded, ColdBootAnswersOnce
<1>4. NoGap' /\ MissedOnlyIfOvertaken'
  BY <1>1, <1>2 DEF NoGap, MissedOnlyIfOvertaken, After, Stored, Overtaken
<1>5. Signalled'
  <2> SUFFICES ASSUME poll.step \in {"listed", "wait"}, poll.got = {}, ready, ~notified,
                      NEW e \in After(cursor) \ unsignalled
               PROVE  \E p \in Publishers : pub'[p] = [step |-> "signal", id |-> e]
    BY <1>1, <1>2 DEF Signalled, After, Stored
  <2>1. PICK p \in Publishers : pub[p] = [step |-> "signal", id |-> e]
    BY <1>1 DEF Signalled
  <2> QED BY <2>1 DEF Kept
<1> QED BY <1>3, <1>4, <1>5 DEF IInv

\* The poll is given up, with its poller or without.
LEMMA DropInv ==
  ASSUME IInv, TypeOK', feed' = feed, poll' = NoPoll,
         \/ UNCHANGED <<cursor, ready, handed, skipped>>
         \/ /\ cursor' = Start /\ ready' = FALSE /\ handed' \subseteq handed,
         box' # "up" => twice' = {},
         since' = NoWake => twice' = {}
  PROVE  IInv'
<1>1. /\ IsFiniteSet(Stored) /\ FromFeed /\ PastHanded /\ MissedOnlyIfOvertaken
  BY Facts
<1>2. IsFiniteSet(Stored)' /\ Down' /\ FromFeed' /\ ColdBootAnswersOnce'
  BY <1>1, NoPollFields DEF Stored, Down, FromFeed, ColdBootAnswersOnce
<1>3. PastHanded' /\ NoGap' /\ Signalled'
  BY <1>1, NoPollFields DEF PastHanded, NoGap, Signalled
<1>4. MissedOnlyIfOvertaken'
  <2>1. CASE ready' = FALSE
    BY <2>1 DEF MissedOnlyIfOvertaken
  <2>2. CASE UNCHANGED <<cursor, ready, handed, skipped>>
    BY <1>1, <2>2 DEF MissedOnlyIfOvertaken, After, Stored, Overtaken
  <2> QED BY <2>1, <2>2
<1> QED BY <1>2, <1>3, <1>4 DEF IInv

LEMMA PublishInv ==
  ASSUME IInv, NEW p \in Publishers, channel_publish(p) \/ PutFails(p)
  PROVE  IInv'
<1>1. TypeOK /\ Down /\ ColdBootAnswersOnce
  BY Facts
<1>2. UNCHANGED <<feed, box, since, cursor, ready, poll, notified, unsignalled, history>>
  BY DEF channel_publish, PutFails, poller
<1>3. pub[p].step # "signal"
  BY DEF channel_publish, PutFails, Quiet
<1>4. pub' \in [Publishers -> [step : {"put", "signal"}, id : Ids] \cup {Quiet}]
  <2>1. CASE channel_publish(p)
    <3> DEFINE r == [step |-> "put", id |-> [ts |-> clock', seq |-> seq]]
    <3>1. clock' \in 1..MaxTime /\ seq \in 0..MaxSeq
      BY <1>1, <2>1, FeedAssumption DEF TypeOK, channel_publish
    <3>2. r \in [step : {"put", "signal"}, id : Ids]
      BY <3>1 DEF Ids
    <3>3. pub' = [pub EXCEPT ![p] = r]
      BY <2>1 DEF channel_publish
    <3> HIDE DEF r
    <3> QED BY <1>1, <3>2, <3>3 DEF TypeOK
  <2>2. CASE PutFails(p)
    BY <1>1, <2>2 DEF TypeOK, PutFails
  <2> QED BY <2>1, <2>2
<1>5. clock' \in 1..MaxTime /\ seq' \in 0..(MaxSeq + 1)
  BY <1>1, FeedAssumption DEF TypeOK, channel_publish, PutFails
<1>6. UNCHANGED <<wakes, crashes, boots, Stored>>
  BY DEF channel_publish, PutFails, Stored
<1>7. TypeOK'
  BY <1>1, <1>2, <1>4, <1>5, <1>6 DEF TypeOK, history
<1>8. Kept
  BY <1>1, <1>3 DEF Kept, TypeOK, channel_publish, PutFails
<1> QED BY <1>1, <1>2, <1>7, <1>8, AsideInv DEF Down, ColdBootAnswersOnce

LEMMA WakeInv ==
  ASSUME IInv, (\E id \in wakes : sandbox_wake(id) \/ WakeFails(id)) \/ CreateFails
  PROVE  IInv'
<1>1. TypeOK /\ Down /\ ColdBootAnswersOnce
  BY Facts
<1>2. UNCHANGED <<clock, seq, feed, pub, cursor, ready, poll, notified, unsignalled,
                  crashes, boots, history>>
  BY DEF sandbox_wake, WakeFails, CreateFails, poller, worker
<1>3. /\ wakes' \subseteq wakes /\ box' \in {"off", "creating", "up"}
      /\ since' \in NoWake..MaxTime
      /\ box' # "up" => box # "up"
      /\ since' = since \/ box # "up"
  <2>1. ASSUME NEW id \in Ids PROVE wake_replay_since(id) \in 0..MaxTime
    BY FeedAssumption DEF wake_replay_since, Ids
  <2> HIDE DEF wake_replay_since
  <2>2. CASE \E id \in wakes : sandbox_wake(id)
    BY <1>1, <2>1, <2>2 DEF TypeOK, sandbox_wake, NoWake
  <2>3. CASE \E id \in wakes : WakeFails(id)
    BY <1>1, <2>3 DEF TypeOK, WakeFails
  <2>4. CASE CreateFails
    BY <1>1, <2>4, FeedAssumption DEF TypeOK, CreateFails, NoWake, worker
  <2> QED BY <2>2, <2>3, <2>4
<1>4. TypeOK'
  BY <1>1, <1>2, <1>3 DEF TypeOK, history, Stored
<1>5. Kept
  BY <1>2 DEF Kept
<1> QED BY <1>1, <1>2, <1>3, <1>4, <1>5, AsideInv DEF Down, ColdBootAnswersOnce

\* A publisher leaves, with its signal given or without.
LEMMA SignalInv ==
  ASSUME IInv, NEW p \in Publishers, signal(p) \/ PublisherDropped(p)
  PROVE  IInv'
<1>1. /\ TypeOK /\ IsFiniteSet(Stored) /\ Down /\ FromFeed /\ PastHanded /\ NoGap
      /\ Signalled /\ MissedOnlyIfOvertaken /\ ColdBootAnswersOnce
  BY Facts
<1>2. /\ UNCHANGED <<clock, seq, feed, box, since, cursor, ready, poll, crashes, boots>>
      /\ UNCHANGED <<handed, twice, skipped>>
      /\ pub[p].step = "signal" /\ pub' = [pub EXCEPT ![p] = Quiet]
  BY DEF signal, PublisherDropped, history
<1>3. pub[p].id \in Ids
  BY <1>1, <1>2 DEF TypeOK, Quiet
<1>4. /\ pub' \in [Publishers -> [step : {"put", "signal"}, id : Ids] \cup {Quiet}]
      /\ wakes' \subseteq Ids
  BY <1>1, <1>2, <1>3 DEF TypeOK, signal, PublisherDropped
<1>5. notified' \in BOOLEAN /\ unsignalled' \subseteq Ids
  BY <1>1, <1>3 DEF TypeOK, signal, PublisherDropped
<1>6. TypeOK' /\ IsFiniteSet(Stored)'
  BY <1>1, <1>2, <1>4, <1>5 DEF TypeOK, Stored
<1>7. Down' /\ FromFeed' /\ PastHanded' /\ ColdBootAnswersOnce'
  BY <1>1, <1>2 DEF Stored, Down, FromFeed, PastHanded, ColdBootAnswersOnce
<1>8. NoGap' /\ MissedOnlyIfOvertaken'
  BY <1>1, <1>2 DEF NoGap, MissedOnlyIfOvertaken, After, Stored, Overtaken
<1>9. Signalled'
  <2>1. CASE signal(p)
    <3>1. notified' = (notified \/ poll.step \in {"list", "listed", "wait"})
      BY <2>1 DEF signal, Waiting
    <3> QED BY <1>1, <1>2, <3>1 DEF Signalled
  <2>2. CASE PublisherDropped(p)
    <3> SUFFICES ASSUME poll.step \in {"listed", "wait"}, poll.got = {}, ready,
                        ~notified, NEW e \in After(cursor) \ unsignalled'
                 PROVE  \E q \in Publishers : pub'[q] = [step |-> "signal", id |-> e]
      BY <1>1, <1>2, <2>2 DEF PublisherDropped, Signalled, After, Stored
    <3>1. unsignalled' = unsignalled \cup {pub[p].id}
      BY <2>2 DEF PublisherDropped, Waiting
    <3>2. PICK q \in Publishers : pub[q] = [step |-> "signal", id |-> e]
      BY <1>1, <3>1 DEF Signalled
    <3>3. q # p
      BY <3>1, <3>2
    <3> QED BY <1>1, <1>2, <3>2, <3>3 DEF TypeOK
  <2> QED BY <2>1, <2>2
<1> QED BY <1>6, <1>7, <1>8, <1>9 DEF IInv

\* An event whose put lands was overtaken by each later one already stored.
LEMMA AppendFeed ==
  ASSUME feed \in Seq(Ids), NEW id \in Ids, feed' = Append(feed, id)
  PROVE  /\ Stored' = Stored \cup {id}
         /\ \A e : Overtaken(e) => Overtaken(e)'
         /\ \A g \in Stored : Lt(id, g) => Overtaken(id)'
<1>1. /\ Len(feed) \in Nat /\ DOMAIN feed = 1..Len(feed)
      /\ feed' \in Seq(Ids) /\ Len(feed') = Len(feed) + 1
      /\ DOMAIN feed' = 1..(Len(feed) + 1)
      /\ \A k \in 1..Len(feed) : feed'[k] = feed[k]
      /\ feed'[Len(feed) + 1] = id
  OBVIOUS
<1>2. DOMAIN feed' = DOMAIN feed \cup {Len(feed) + 1} /\ Len(feed) + 1 \notin DOMAIN feed
  BY <1>1
<1>3. Stored' = Stored \cup {id}
  BY <1>1, <1>2 DEF Stored
<1>4. ASSUME NEW e, Overtaken(e) PROVE Overtaken(e)'
  <2>1. PICK i, j \in DOMAIN feed : i < j /\ feed[j] = e /\ Lt(e, feed[i])
    BY <1>4 DEF Overtaken
  <2>2. i \in DOMAIN feed' /\ j \in DOMAIN feed' /\ feed'[i] = feed[i] /\ feed'[j] = feed[j]
    BY <1>1, <1>2
  <2> QED BY <2>1, <2>2 DEF Overtaken
<1>5. ASSUME NEW g \in Stored, Lt(id, g) PROVE Overtaken(id)'
  <2>1. PICK i \in DOMAIN feed : feed[i] = g
    BY DEF Stored
  <2>2. /\ i \in DOMAIN feed' /\ feed'[i] = g /\ Len(feed) + 1 \in DOMAIN feed'
        /\ i < Len(feed) + 1
    BY <1>1, <1>2, <2>1
  <2> QED BY <1>1, <1>5, <2>2 DEF Overtaken
<1> QED BY <1>3, <1>4, <1>5

LEMMA PutInv ==
  ASSUME IInv, NEW p \in Publishers, Put(p)
  PROVE  IInv'
<1>1. /\ TypeOK /\ IsFiniteSet(Stored) /\ Stored \subseteq Ids /\ cursor \in Keys
      /\ Down /\ FromFeed /\ PastHanded /\ NoGap
      /\ Signalled /\ MissedOnlyIfOvertaken /\ ColdBootAnswersOnce
  BY Facts
<1>2. /\ UNCHANGED <<clock, seq, wakes, box, since, cursor, ready, poll, notified>>
      /\ UNCHANGED <<unsignalled, crashes, boots, handed, twice, skipped>>
  BY DEF Put, poller, history
<1>3. PICK id \in Ids : id = pub[p].id
  BY <1>1 DEF TypeOK, Put, Quiet
<1>4. /\ pub[p].step = "put" /\ id \notin Stored /\ feed' = Append(feed, id)
      /\ pub[p] \in [step : {"put", "signal"}, id : Ids]
  BY <1>1, <1>3 DEF Put, Puttable, TypeOK, Quiet
<1>5. /\ Stored' = Stored \cup {id}
      /\ \A e : Overtaken(e) => Overtaken(e)'
      /\ \A g \in Stored : Lt(id, g) => Overtaken(id)'
  BY <1>1, <1>3, <1>4, AppendFeed DEF TypeOK
<1>6. /\ pub' \in [Publishers -> [step : {"put", "signal"}, id : Ids] \cup {Quiet}]
      /\ pub'[p] = [step |-> "signal", id |-> id]
      /\ \A q \in Publishers : q # p => pub'[q] = pub[q]
  <2>1. [pub[p] EXCEPT !.step = "signal"] = [step |-> "signal", id |-> id]
    BY <1>3, <1>4
  <2>2. pub' = [pub EXCEPT ![p] = [step |-> "signal", id |-> id]]
    BY <2>1 DEF Put
  <2> QED BY <1>1, <1>3, <2>2 DEF TypeOK
<1>7. /\ feed' \in Seq(Ids) /\ IsFiniteSet(Stored')
      /\ Len(feed') = Cardinality(Stored')
  <2>1. /\ IsFiniteSet(Stored \cup {id})
        /\ Cardinality(Stored \cup {id}) = Cardinality(Stored) + 1
    BY <1>1, <1>4, FS_AddElement
  <2>2. feed' \in Seq(Ids) /\ Len(feed') = Len(feed) + 1
    BY <1>1, <1>4 DEF TypeOK
  <2> QED BY <1>1, <1>5, <2>1, <2>2 DEF TypeOK
<1>8. TypeOK' /\ IsFiniteSet(Stored)'
  BY <1>1, <1>2, <1>6, <1>7 DEF TypeOK
<1>9. Down' /\ FromFeed' /\ PastHanded' /\ ColdBootAnswersOnce'
  BY <1>1, <1>2, <1>5 DEF Down, FromFeed, PastHanded, ColdBootAnswersOnce
<1>10. After(cursor)' = After(cursor) \cup (IF Lt(cursor, id) THEN {id} ELSE {})
  BY <1>2, <1>5 DEF After
<1>11. NoGap'
  <2> SUFFICES ASSUME ready, NEW g \in poll.got
               PROVE  /\ Lt(cursor, g)
                      /\ \A e \in After(cursor)' \ poll.got : Lt(e, g) => Overtaken(e)'
    BY <1>2 DEF NoGap
  <2>1. Lt(cursor, g) /\ g \in Stored
    BY <1>1 DEF NoGap, FromFeed
  <2>2. ASSUME NEW e \in After(cursor)' \ poll.got, Lt(e, g)
        PROVE  Overtaken(e)'
    <3>1. CASE e = id
      BY <1>5, <2>1, <2>2, <3>1
    <3>2. CASE e # id
      BY <1>1, <1>5, <1>10, <2>2, <3>2 DEF NoGap
    <3> QED BY <3>1, <3>2
  <2> QED BY <2>1, <2>2
<1>12. Signalled'
  <2> SUFFICES ASSUME poll.step \in {"listed", "wait"}, poll.got = {}, ready, ~notified,
                      NEW e \in After(cursor)' \ unsignalled
               PROVE  \E q \in Publishers : pub'[q] = [step |-> "signal", id |-> e]
    BY <1>1, <1>2 DEF Signalled
  <2>1. CASE e = id
    BY <1>6, <2>1
  <2>2. CASE e # id
    <3>1. PICK q \in Publishers : pub[q] = [step |-> "signal", id |-> e]
      BY <1>1, <1>10, <2>2 DEF Signalled
    <3>2. q # p
      BY <1>4, <3>1
    <3> QED BY <1>6, <3>1, <3>2
  <2> QED BY <2>1, <2>2
<1>13. MissedOnlyIfOvertaken'
  <2> SUFFICES ASSUME ready,
                      NEW e \in Stored' \ (After(cursor)' \cup handed \cup skipped)
               PROVE  Overtaken(e)'
    BY <1>2 DEF MissedOnlyIfOvertaken
  <2>1. CASE e = id
    <3>1. ~Lt(cursor, id) /\ cursor # Start /\ cursor \in Stored
      BY <1>1, <1>10, <2>1, StartFirst DEF FromFeed
    <3>2. Lt(id, cursor)
      BY <1>1, <1>4, <3>1, LtTotal DEF Keys
    <3> QED BY <1>5, <2>1, <3>1, <3>2
  <2>2. CASE e # id
    BY <1>1, <1>5, <1>10, <2>2 DEF MissedOnlyIfOvertaken
  <2> QED BY <2>1, <2>2
<1> QED BY <1>8, <1>9, <1>11, <1>12, <1>13 DEF IInv

LEMMA RestartInv ==
  ASSUME IInv,
         PollFails \/ WorkerCrash \/ Created \/ ensure_for_delegate \/ Stop
         \/ reconcile_pollers
  PROVE  IInv'
<1>1. TypeOK /\ Down /\ ColdBootAnswersOnce
  BY Facts
<1>2. NoPoll \in [step : {"idle", "list", "listed", "wait", "relist", "answer"},
                  got : SUBSET Ids]
  BY DEF NoPoll
<1>3. /\ UNCHANGED <<clock, feed, wakes>> /\ poll' = NoPoll /\ notified' = FALSE
      /\ unsignalled' = {} /\ seq' \in {seq, 0} /\ (pub' = pub \/ pub' = [p \in Publishers |-> Quiet])
  BY DEF PollFails, WorkerCrash, Created, ensure_for_delegate, Boot, Stop,
         reconcile_pollers, Forget, NoMorePoll, worker
<1>4. \/ UNCHANGED <<cursor, ready, handed, skipped>>
      \/ cursor' = Start /\ ready' = FALSE /\ handed' \subseteq handed
  BY DEF PollFails, WorkerCrash, Created, ensure_for_delegate, Boot, Stop,
         reconcile_pollers, Forget, NoMorePoll, history
<1>5. /\ twice' \subseteq twice /\ skipped' \subseteq skipped
      /\ box' # "up" => box # "up" \/ twice' = {}
      /\ since' = NoWake => since = NoWake \/ twice' = {} \/ box # "up"
      /\ box' \in {"off", "creating", "up"} /\ since' \in {NoWake, since}
  BY <1>1 DEF TypeOK, PollFails, WorkerCrash, Created, ensure_for_delegate, Boot, Stop,
         reconcile_pollers, history
<1>6. crashes' \in 0..MaxCrashes /\ boots' \in 0..MaxBoots
  BY <1>1, FeedAssumption DEF TypeOK, PollFails, WorkerCrash, Created,
     ensure_for_delegate, Boot, Stop, reconcile_pollers
<1>7. pub' \in [Publishers -> [step : {"put", "signal"}, id : Ids] \cup {Quiet}]
  <2>1. pub \in [Publishers -> [step : {"put", "signal"}, id : Ids] \cup {Quiet}]
    BY <1>1 DEF TypeOK
  <2> QED BY <1>3, <2>1
<1>8. seq' \in 0..(MaxSeq + 1) /\ since' \in NoWake..MaxTime
  BY <1>1, <1>3, <1>5, FeedAssumption DEF TypeOK, NoWake
<1>9. /\ cursor' \in Ids \cup {Start} /\ ready' \in BOOLEAN
      /\ handed' \subseteq Ids /\ twice' \subseteq Ids /\ skipped' \subseteq Ids
  BY <1>1, <1>4, <1>5 DEF TypeOK
<1>10. feed' \in Seq(Ids) /\ Len(feed') = Cardinality(Stored')
  BY <1>1, <1>3 DEF TypeOK, Stored
<1>11. TypeOK'
  BY <1>1, <1>2, <1>3, <1>5, <1>6, <1>7, <1>8, <1>9, <1>10 DEF TypeOK
<1>12. (box' # "up" => twice' = {}) /\ (since' = NoWake => twice' = {})
  BY <1>1, <1>5 DEF Down, ColdBootAnswersOnce
<1> QED BY <1>3, <1>4, <1>11, <1>12, DropInv

Polls == [step : {"idle", "list", "listed", "wait", "relist", "answer"}, got : SUBSET Ids]

\* A step of a poll that leaves the poller's cursor where it is.
LEMMA ReadInv ==
  ASSUME IInv, box = "up", poll' \in Polls, notified' \in BOOLEAN, unsignalled' \subseteq Ids,
         UNCHANGED <<clock, worker, box, since, cursor, ready, crashes, boots, history>>,
         poll'.got \subseteq Stored, PastHanded', NoGap', Signalled'
  PROVE  IInv'
<1>1. /\ TypeOK /\ IsFiniteSet(Stored) /\ FromFeed /\ MissedOnlyIfOvertaken
      /\ ColdBootAnswersOnce
  BY Facts
<1>2. UNCHANGED <<seq, feed, pub, wakes, handed, twice, skipped, cursor, ready>>
  BY DEF worker, history
<1>3. TypeOK' /\ IsFiniteSet(Stored)'
  BY <1>1, <1>2 DEF TypeOK, Stored, Polls
<1>4. Down' /\ FromFeed' /\ ColdBootAnswersOnce'
  BY <1>1, <1>2 DEF Down, FromFeed, ColdBootAnswersOnce, Stored
<1>5. MissedOnlyIfOvertaken'
  BY <1>1, <1>2 DEF MissedOnlyIfOvertaken, After, Stored, Overtaken
<1> QED BY <1>3, <1>4, <1>5 DEF IInv

LEMMA PollingIsUp == ASSUME IInv, poll.step # "idle" PROVE box = "up"
BY NoPollFields DEF IInv, Down

LEMMA ListInv == ASSUME IInv, List \/ Relist PROVE IInv'
<1>1. /\ TypeOK /\ IsFiniteSet(Stored) /\ Stored \subseteq Ids
      /\ FromFeed /\ PastHanded
  BY Facts
<1>2. box = "up"
  BY PollingIsUp DEF List, Relist
<1>3. PICK L : L = channel_list_after
  OBVIOUS
<1>4. /\ poll' \in {[step |-> "listed", got |-> L], [step |-> "answer", got |-> L]}
      /\ UNCHANGED <<clock, worker, box, since, cursor, ready, notified,
                     unsignalled, crashes, boots, history>>
  BY <1>3 DEF List, Relist, Answer
<1>5. /\ L \subseteq After(cursor)
      /\ ready => /\ L = {} => After(cursor) = {}
                  /\ \A e \in After(cursor), g \in L : Lt(e, g) => e \in L
      /\ ~ready => \A e \in After(cursor) : \E g \in L : ~Lt(g, e)
  BY <1>1, <1>3, ListAfter
<1>6. poll'.got = L /\ poll'.step \in {"listed", "answer"}
  BY <1>4
<1>7. UNCHANGED <<feed, pub, handed, cursor, ready, notified>>
  BY <1>4 DEF worker, history
<1>8. /\ poll' \in Polls /\ poll'.got \subseteq Stored /\ notified' \in BOOLEAN
      /\ unsignalled' \subseteq Ids
  BY <1>1, <1>4, <1>5 DEF Polls, After, TypeOK
<1>9. PastHanded'
  <2>1. ASSUME ~ready, NEW e \in handed PROVE \E g \in L : ~Lt(g, e)
    <3>1. e \in After(cursor)
      BY <1>1, <2>1, StartFirst DEF FromFeed, After
    <3> QED BY <1>5, <2>1, <3>1
  <2> QED BY <1>1, <1>6, <1>7, <2>1 DEF PastHanded
<1>10. After(cursor)' = After(cursor)
  BY <1>7 DEF After, Stored
<1>11. NoGap'
  <2>1. ASSUME ready, NEW g \in L
        PROVE  /\ Lt(cursor, g)
               /\ \A e \in After(cursor) \ L : ~Lt(e, g)
    BY <1>5, <2>1 DEF After
  <2> QED BY <1>6, <1>7, <1>10, <2>1 DEF NoGap
<1>12. Signalled'
  BY <1>5, <1>6, <1>7, <1>10 DEF Signalled
<1> QED BY <1>2, <1>4, <1>8, <1>9, <1>11, <1>12, ReadInv

LEMMA WaitInv == ASSUME IInv, channel_poll \/ WaitEnds \/ poll_feed PROVE IInv'
<1>1. TypeOK /\ FromFeed /\ PastHanded /\ NoGap /\ Signalled /\ poll \in Polls
  BY Facts DEF TypeOK, Polls
<1>2. box = "up"
  BY PollingIsUp DEF channel_poll, WaitEnds, poll_feed
<1>3. UNCHANGED <<clock, worker, box, since, cursor, ready, crashes, boots, history>>
  BY DEF channel_poll, WaitEnds, poll_feed
<1>4. /\ poll' \in Polls /\ notified' \in BOOLEAN /\ unsignalled' \subseteq Ids
      /\ poll'.got \subseteq poll.got
      /\ \/ poll'.step \in {"list", "relist"}
         \/ /\ poll.step = "listed" /\ poll'.step = "answer" /\ poll'.got = poll.got
         \/ /\ poll.step = "listed" /\ poll'.step = "wait" /\ poll.got = {} /\ ready
            /\ notified' = notified /\ unsignalled' = unsignalled
  <2>1. CASE channel_poll /\ poll.got = {} /\ ready
    BY <1>1, <2>1 DEF channel_poll, Register, Polls, TypeOK
  <2>2. CASE channel_poll /\ ~(poll.got = {} /\ ready)
    BY <1>1, <2>2 DEF channel_poll, Answer, Polls, TypeOK
  <2>3. CASE WaitEnds
    BY <1>1, <2>3 DEF WaitEnds, Polls, TypeOK
  <2>4. CASE poll_feed
    BY <2>4 DEF poll_feed, Polls
  <2> QED BY <2>1, <2>2, <2>3, <2>4
<1>5. UNCHANGED <<feed, pub, handed, cursor, ready>>
  BY <1>3 DEF worker, history
<1>6. PastHanded'
  BY <1>1, <1>4, <1>5 DEF PastHanded
<1>7. After(cursor)' = After(cursor) /\ \A e : Overtaken(e)' = Overtaken(e)
  BY <1>5 DEF After, Stored, Overtaken
<1>8. NoGap'
  <2>1. \/ poll'.got = poll.got
        \/ poll'.got = {}
    BY <1>1 DEF channel_poll, Register, Answer, WaitEnds, poll_feed, Polls
  <2> QED BY <1>1, <1>5, <1>7, <2>1 DEF NoGap
<1>9. Signalled'
  BY <1>1, <1>4, <1>5, <1>7 DEF Signalled
<1>10. poll'.got \subseteq Stored
  BY <1>1, <1>4 DEF FromFeed
<1> QED BY <1>2, <1>3, <1>4, <1>6, <1>8, <1>9, <1>10, ReadInv

LEMMA ReceiveInv == ASSUME IInv, Receive PROVE IInv'
<1>1. /\ TypeOK /\ IsFiniteSet(Stored) /\ Stored \subseteq Ids /\ cursor \in Keys
      /\ FromFeed /\ PastHanded /\ NoGap /\ MissedOnlyIfOvertaken /\ ColdBootAnswersOnce
  BY Facts
<1>2. box = "up"
  BY PollingIsUp DEF Receive
<1>3. PICK S : S = poll.got
  OBVIOUS
<1>4. PICK T : T = IF ready THEN S ELSE wake_replay(S)
  OBVIOUS
<1>5. /\ poll.step = "answer" /\ cursor' = Advance(S) /\ ready' = TRUE
      /\ handed' = handed \cup T /\ twice' = twice \cup (T \cap handed)
      /\ skipped' = IF ready THEN skipped
                    ELSE skipped \cup {e \in Stored : ~Lt(cursor', e)}
      /\ poll' = NoPoll /\ notified' = FALSE /\ unsignalled' = {}
      /\ UNCHANGED <<clock, seq, feed, pub, wakes, box, since, crashes, boots>>
  BY <1>3, <1>4 DEF Receive, NoMorePoll, worker
<1>6. S \subseteq Stored /\ S \subseteq Ids /\ T \subseteq S
  BY <1>1, <1>3, <1>4 DEF FromFeed, wake_replay
<1>7. /\ S = {} => cursor' = cursor
      /\ S # {} => cursor' \in S /\ \A e \in S : ~Lt(cursor', e)
  BY <1>5, <1>6, AdvanceLast
<1>8. cursor' \in Stored \cup {Start} /\ cursor' \in Keys
  BY <1>1, <1>6, <1>7 DEF FromFeed, Keys
<1>9. ready /\ S # {} => Lt(cursor, cursor')
  BY <1>1, <1>3, <1>7 DEF NoGap
<1>10. Stored' = Stored /\ \A e : Overtaken(e)' = Overtaken(e)
  BY <1>5 DEF Stored, Overtaken
<1>11. TypeOK' /\ IsFiniteSet(Stored)'
  <2>1. handed' \subseteq Ids /\ twice' \subseteq Ids /\ skipped' \subseteq Ids
    BY <1>1, <1>5, <1>6 DEF TypeOK
  <2>2. poll' \in [step : {"idle", "list", "listed", "wait", "relist", "answer"},
                   got : SUBSET Ids]
    BY <1>5 DEF NoPoll
  <2>3. feed' \in Seq(Ids) /\ Len(feed') = Cardinality(Stored')
    BY <1>1, <1>5, <1>10 DEF TypeOK
  <2> QED BY <1>1, <1>5, <1>8, <1>10, <2>1, <2>2, <2>3 DEF TypeOK, Keys
<1>12. Down' /\ FromFeed'
  BY <1>1, <1>2, <1>5, <1>6, <1>8, <1>10, NoPollFields DEF Down, FromFeed
<1>13. ASSUME NEW e \in handed \cup T PROVE ~Lt(cursor', e)
  <2>0. e \in Keys
    BY <1>1, <1>6 DEF FromFeed, Keys
  <2>1. CASE e \in T
    BY <1>6, <1>7, <2>1
  <2>2. CASE e \in handed /\ S = {}
    BY <1>1, <1>3, <1>5, <1>7, <2>2 DEF PastHanded
  <2>3. CASE e \in handed /\ S # {} /\ ready
    BY <1>1, <1>8, <1>9, <2>0, <2>3, LtTransitive DEF PastHanded
  <2>4. CASE e \in handed /\ S # {} /\ ~ready
    <3>1. PICK g \in S : ~Lt(g, e)
      BY <1>1, <1>3, <1>5, <2>4 DEF PastHanded
    <3>2. g \in Keys /\ ~Lt(cursor', g)
      BY <1>6, <1>7, <2>4 DEF Keys
    <3> QED BY <1>8, <2>0, <3>1, <3>2, LtTransitive
  <2> QED BY <2>1, <2>2, <2>3, <2>4
<1>14. PastHanded' /\ NoGap' /\ Signalled'
  BY <1>5, <1>13, NoPollFields DEF PastHanded, NoGap, Signalled
<1>15. ColdBootAnswersOnce'
  <2> SUFFICES ASSUME since = NoWake PROVE twice' = {}
    BY <1>5 DEF ColdBootAnswersOnce
  <2>1. twice = {}
    BY <1>1 DEF ColdBootAnswersOnce
  <2>2. CASE ready
    <3>1. ASSUME NEW e \in T, e \in handed PROVE FALSE
      BY <1>1, <1>3, <1>4, <2>2, <3>1 DEF NoGap, PastHanded
    <3> QED BY <1>5, <2>1, <3>1
  <2>3. CASE ~ready
    BY <1>4, <1>5, <2>1, <2>3 DEF wake_replay
  <2> QED BY <2>2, <2>3
<1>16. MissedOnlyIfOvertaken'
  <2> SUFFICES ASSUME NEW e \in Stored, ~Lt(cursor', e), e \notin handed',
                      e \notin skipped'
               PROVE  Overtaken(e)
    BY <1>10 DEF MissedOnlyIfOvertaken, After
  <2>1. ready /\ e \notin handed /\ e \notin skipped /\ e \notin S
    BY <1>4, <1>5
  <2>2. CASE ~Lt(cursor, e)
    BY <1>1, <2>1, <2>2 DEF MissedOnlyIfOvertaken, After
  <2>3. CASE Lt(cursor, e)
    <3>1. S # {} /\ cursor' \in S
      BY <1>7, <2>3
    <3>2. Lt(e, cursor')
      BY <1>1, <1>8, <2>1, <3>1, LtTotal DEF Keys
    <3>3. e \in After(cursor) \ S
      BY <2>1, <2>3 DEF After
    <3> QED BY <1>1, <1>3, <2>1, <3>1, <3>2, <3>3 DEF NoGap
  <2> QED BY <2>2, <2>3
<1> QED BY <1>11, <1>12, <1>14, <1>15, <1>16 DEF IInv

LEMMA StutterInv == ASSUME IInv, UNCHANGED vars PROVE IInv'
<1>1. TypeOK /\ Down /\ ColdBootAnswersOnce
  BY Facts
<1>2. /\ UNCHANGED <<clock, seq, feed, pub, wakes, box, since, cursor, ready, poll>>
      /\ UNCHANGED <<notified, unsignalled, crashes, boots, handed, twice, skipped, history>>
  BY DEF vars, worker, poller, history
<1>3. TypeOK'
  BY <1>1, <1>2 DEF TypeOK, Stored
<1> QED BY <1>1, <1>2, <1>3, AsideInv DEF Kept, Down, ColdBootAnswersOnce

LEMMA NextInv == IInv /\ [Next]_vars => IInv'
<1> SUFFICES ASSUME IInv, [Next]_vars PROVE IInv'
  OBVIOUS
<1>1. ASSUME NEW p \in Publishers, Publish(p) PROVE IInv'
  BY <1>1, PublishInv, PutInv, SignalInv DEF Publish
<1>2. ASSUME Polling PROVE IInv'
  BY <1>2, ListInv, WaitInv, ReceiveInv DEF Polling
<1> QED BY <1>1, <1>2, WakeInv, RestartInv, StutterInv DEF Next

LEMMA Inductive == Spec => []IInv
BY InitInv, NextInv, PTL DEF Spec
-----------------------------------------------------------------------------
(* Theorems.                                                               *)

\* No key is stored twice, however often the worker numbers its events anew,
\* and a sandbox that no wake created answers no turn twice, however often
\* its poller is restarted: a first read ends past everything handed on
\* (handlers.rs:186, chat_loop.rs:1034).
THEOREM AnswersOnce == Spec => []FeedInv
<1>1. IInv => FeedInv
  BY DEF IInv, FeedInv
<1> QED BY <1>1, Inductive, PTL

\* A poll that waits without having been notified sleeps over no event that
\* was signalled: what lies past its cursor has its signal still to come, or
\* its publisher was dropped during this very poll, between the put and the
\* signal (handlers.rs:102).  The waiter is enabled before the listing, so no
\* order of put, listing, wait and signal loses a wakeup (wakeup.rs:40).
THEOREM WakeupsAreKept == Spec => []NoLostWakeup
<1>1. IInv => NoLostWakeup
  BY DEF IInv, Signalled, NoLostWakeup
<1> QED BY <1>1, Inductive, PTL

\* What a poller that has caught up will never read was overtaken: its put
\* landed after that of a later id.  Pages, failed polls and restarts of the
\* worker lose nothing else, for every page size (handlers.rs:181).
THEOREM OnlyTheOvertakenAreMissed == Spec => []MissedOnlyIfOvertaken
<1>1. IInv => MissedOnlyIfOvertaken
  BY DEF IInv
<1> QED BY <1>1, Inductive, PTL
=============================================================================
