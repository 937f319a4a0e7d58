------------------------------ MODULE SyncProofs ------------------------------
(***************************************************************************)
(* For every library, page size and interleaving: when no transaction      *)
(* outlives the overlap, a client that drains its pages and adopts the     *)
(* run's `now` misses nothing.  The inductive invariant is SyncConsistent: *)
(* what the mirror has wrong is in the next run, on a later page, or in    *)
(* the answer on its way.                                                  *)
(***************************************************************************)
EXTENDS Sync, TLAPS

USE SyncAssumption

-----------------------------------------------------------------------------
(* Types of the operators                                                  *)

LEMMA ShowType == \A r \in Rows : Show(r) \in Feeds
  BY DEF Rows, Show

LEMMA ChangedType ==
  ASSUME TypeOK
  PROVE  \A r \in Rows : /\ Changed(r) \in Nat
                         /\ Changed(r) >= row[r].own /\ Changed(r) >= row[r].state
                         /\ Changed(r) \in {row[r].own, row[r].state}
  BY DEF TypeOK, Changed

LEMMA ToldEarlier ==
  ASSUME TypeOK, NEW r \in Rows, NEW s \in Nat, NEW t \in Nat, s <= t, Told(r, t)
  PROVE  Told(r, s)
  BY ChangedType, ShowType DEF TypeOK, Told

LEMMA ExistingIsBeyondZero ==
  ASSUME TypeOK, Stamps, NEW r \in Rows, Exists(r)
  PROVE  Changed(r) > 0
  BY ChangedType DEF TypeOK, Stamps

LEMMA NoRequestType ==
  /\ NoCursor \in [stamp : Nat, id : Nat, now : Nat]
  /\ NoRequest.stage = "idle" /\ NoRequest.now = 0 /\ NoRequest.gone = {}
  /\ NoRequest.next = NoCursor /\ \A r \in Rows : NoRequest.got[r] = 0
  /\ NoRequest \in [stage : {"idle", "clock", "episodes", "feeds", "answer"}, now : Nat,
                    got : [Rows -> Nat], gone : SUBSET Feeds,
                    next : [stamp : Nat, id : Nat, now : Nat]]
  BY DEF NoRequest, NoCursor

-----------------------------------------------------------------------------
(* Writers                                                                 *)

\* A row a step touches is told to every run that has begun.
Fresh(r) == \A s \in 0..clock : Told(r, s)

\* A step of the server alone keeps the invariant if what it leaves alone keeps
\* its content and its stamp, and what it touches is fresh.
LEMMA ServerStep ==
  ASSUME SyncConsistent, TypeOK', Stamps', Buried',
         UNCHANGED <<client, mirror, request>>, clock' >= clock,
         \A f \in Feeds : tomb[f] # 0 => tomb'[f] # 0,
         \A r \in Rows : \/ row'[r] = row[r] /\ tomb'[Show(r)] = tomb[Show(r)]
                         \/ Fresh(r)'
  PROVE  SyncConsistent'
<1>1. TypeOK /\ RunsForward /\ NothingMissed /\ PagesReach /\ AnswerReaches
  BY DEF SyncConsistent
<1>2. RunsForward'
  BY <1>1 DEF RunsForward, Paging, TypeOK
<1>3. \A r \in Rows : \A s \in 0..clock :
        ~Fresh(r)' => /\ Stale(r)' <=> Stale(r)
                      /\ Told(r, s)' <=> Told(r, s)
                      /\ Exists(r)' <=> Exists(r)
                      /\ \A c : Beyond(r, c)' <=> Beyond(r, c)
  BY DEF Stale, Told, Exists, Changed, Beyond
<1>4. client.since \in 0..clock /\ request.now \in Nat /\ client.cursor.now \in Nat
  BY <1>1 DEF TypeOK, RunsForward
<1>5. NothingMissed'
  <2> SUFFICES ASSUME NEW r \in Rows, Stale(r)'  PROVE Told(r, client.since)'
    BY DEF NothingMissed
  <2>1. CASE Fresh(r)'
    BY <2>1, <1>4, <1>1 DEF Fresh, TypeOK
  <2>2. CASE ~Fresh(r)'
    BY <2>2, <1>1, <1>3, <1>4 DEF NothingMissed
  <2> QED BY <2>1, <2>2
<1>6. PagesReach'
  <2> SUFFICES ASSUME Paging', NEW r \in Rows, Stale(r)'
               PROVE  Told(r, client.cursor.now)' \/ Beyond(r, client.cursor)'
    BY DEF PagesReach
  <2>1. client.cursor.now \in 0..clock
    BY <1>1, <1>4 DEF RunsForward, Paging, TypeOK
  <2>2. CASE Fresh(r)'
    BY <2>1, <2>2, <1>1 DEF Fresh, TypeOK
  <2>3. CASE ~Fresh(r)'
    BY <2>1, <2>3, <1>1, <1>3 DEF PagesReach, Paging
  <2> QED BY <2>2, <2>3
<1>7. NothingRead'
  BY <1>1 DEF AnswerReaches, NothingRead
<1>8. request.now \in 0..clock \/ request.stage = "idle"
  BY <1>1, <1>4 DEF RunsForward, TypeOK
<1>9. \A r \in Rows : Fresh(r)' => Told(r, request.now)' \/ request.stage = "idle"
  BY <1>8, <1>1 DEF Fresh, TypeOK
<1>10. ReadIsCurrent'
  <2> SUFFICES ASSUME NEW r \in Rows
               PROVE  request.got[r] \in {0, row'[r].version} \/ Told(r, request.now)'
    BY DEF ReadIsCurrent
  <2>1. CASE request.stage = "idle"
    BY <2>1, <1>1, NoRequestType DEF AnswerReaches, NothingRead
  <2>2. CASE Fresh(r)' /\ request.stage # "idle"
    BY <2>2, <1>9
  <2>3. CASE ~Fresh(r)' /\ request.stage # "idle"
    BY <2>3, <1>1, <1>3, <1>8 DEF AnswerReaches, ReadIsCurrent
  <2> QED BY <2>1, <2>2, <2>3
<1>11. EpisodesReach'
  BY <1>1, <1>3, <1>8, <1>9 DEF AnswerReaches, EpisodesReach, Rows
<1>12. FeedsReach'
  BY <1>1, <1>3, <1>8, <1>9 DEF AnswerReaches, FeedsReach, Rows, Paging
<1>13. DeletedReach'
  BY <1>1, <1>3, <1>8, <1>9 DEF AnswerReaches, DeletedReach, Paging
<1> QED
  BY <1>2, <1>5, <1>6, <1>7, <1>10, <1>11, <1>12, <1>13
  DEF SyncConsistent, AnswerReaches

\* A commit touches rows that are there, or of a show that is there.
LEMMA CommitStep ==
  ASSUME SyncConsistent, LongestWrite <= Overlap, NEW stamp \in 1..clock,
         NEW owns \in SUBSET Rows, NEW states \in SUBSET Rows,
         Commit(stamp, owns, states),
         \A r \in owns \cup states :
           (Exists(Show(r)) \/ Show(r) \in owns) /\ tomb[Show(r)] = 0,
         \A r \in states \ owns : Exists(r)
  PROVE  SyncConsistent'
<1>1. TypeOK /\ Stamps /\ Buried
  BY DEF SyncConsistent
<1>2. TypeOK'
  BY <1>1 DEF TypeOK, Commit, Commits
<1>3. Stamps'
  <2>1. \A r \in Rows : Show(Show(r)) = Show(r) /\ Show(r) \in Rows
    BY DEF Show, Rows
  <2>2. \A r \in Rows : Exists(r)' <=> Exists(r) \/ r \in owns \cup states
    BY <1>1 DEF Commit, Exists, TypeOK
  <2>3. clock' > 0 /\ \A r \in Rows : row'[r].own <= clock' /\ row'[r].state <= clock'
    BY <1>1 DEF Commit, Stamps, TypeOK
  <2>4. \A r \in Rows : Exists(r)' => row'[r].own > 0
    BY <2>2, <1>1 DEF Commit, Stamps, TypeOK
  <2>5. \A r \in Rows : Exists(r)' => Exists(Show(r))' /\ tomb'[Show(r)] = 0
    BY <2>1, <2>2, <1>1 DEF Commit, Stamps
  <2> QED BY <2>3, <2>4, <2>5 DEF Stamps, Show
<1>4. Buried'
  BY <1>1 DEF Commit, Buried, Exists, Show, TypeOK
<1>5. \A r \in Rows : \/ row'[r] = row[r] /\ tomb'[Show(r)] = tomb[Show(r)]
                      \/ Fresh(r)'
  <2> SUFFICES ASSUME NEW r \in owns \cup states  PROVE Fresh(r)'
    BY DEF Commit
  <2>1. Exists(r)' /\ (row'[r].own = stamp \/ row'[r].state = stamp)
    BY <1>1 DEF Commit, Exists, TypeOK
  <2>2. Changed(r)' \in Nat /\ Changed(r)' >= stamp
    <3>1. r \in Rows /\ row'[r].own \in Nat /\ row'[r].state \in Nat
      BY <1>2 DEF TypeOK
    <3> QED BY <2>1, <3>1 DEF Changed
  <2>3. stamp + Overlap > clock /\ clock' = clock /\ clock \in Nat
    BY <1>1 DEF Commit, Commits, TypeOK
  <2> QED BY <2>1, <2>2, <2>3 DEF Fresh, Told, Exists
<1>6. UNCHANGED <<client, mirror, request>> /\ clock' >= clock
      /\ \A f \in Feeds : tomb[f] # 0 => tomb'[f] # 0
  BY <1>1 DEF Commit, TypeOK
<1> QED BY <1>2, <1>3, <1>4, <1>5, <1>6, ServerStep

LEMMA DeleteStep ==
  ASSUME SyncConsistent, LongestWrite <= Overlap, NEW stamp \in 1..clock,
         NEW f \in Feeds, DeleteFeed(stamp, f)
  PROVE  SyncConsistent'
<1>1. TypeOK /\ Stamps /\ Buried
  BY DEF SyncConsistent
<1>2. TypeOK'
  BY <1>1 DEF TypeOK, DeleteFeed, Commits, NoRow
<1>3. Stamps'
  BY <1>1, ShowType DEF DeleteFeed, Stamps, Exists, NoRow, TypeOK, Show, Rows
<1>4. Buried'
  BY <1>1, ShowType DEF DeleteFeed, Buried, Exists, NoRow, TypeOK, Show
<1>5. \A r \in Rows : \/ row'[r] = row[r] /\ tomb'[Show(r)] = tomb[Show(r)]
                      \/ Fresh(r)'
  <2> SUFFICES ASSUME NEW r \in Rows, Show(r) = f  PROVE Fresh(r)'
    BY <1>1, ShowType DEF DeleteFeed, TypeOK, Show
  <2>1. ~Exists(r)' /\ tomb'[f] = stamp /\ Show(r)' = f
    BY <1>1 DEF DeleteFeed, Exists, NoRow, TypeOK, Show
  <2>2. stamp + Overlap > clock /\ clock' = clock /\ clock \in Nat
    BY <1>1 DEF DeleteFeed, Commits, TypeOK
  <2> QED BY <2>1, <2>2 DEF Fresh, Told
<1>6. UNCHANGED <<client, mirror, request>> /\ clock' >= clock
      /\ \A g \in Feeds : tomb[g] # 0 => tomb'[g] # 0
  BY <1>1 DEF DeleteFeed, TypeOK
<1> QED BY <1>2, <1>3, <1>4, <1>5, <1>6, ServerStep

LEMMA WriteStep ==
  ASSUME SyncConsistent, LongestWrite <= Overlap, NEW stamp \in 1..clock, Write(stamp)
  PROVE  SyncConsistent'
<1>1. Stamps
  BY DEF SyncConsistent
<1>2. \A f \in Feeds : Show(f) = f /\ f \in Rows
  BY DEF Show, Rows
<1>3. \A e \in Episodes : e \in Rows
  BY DEF Rows
<1>4. \A r \in Rows : Exists(r) => Exists(Show(r)) /\ tomb[Show(r)] = 0
  BY <1>1 DEF Stamps
<1>5. ASSUME NEW f \in Feeds,
             NEW new \in SUBSET {e \in Episodes : FeedOf[e] = f}, Refresh(stamp, f, new)
      PROVE  SyncConsistent'
  <2>1. \A e \in new : Show(e) = f /\ e \in Rows
    BY DEF Show, Rows
  <2>2. Exists(f) /\ Commit(stamp, {f} \cup new, {})
    BY <1>5 DEF Refresh
  <2> QED BY <1>2, <1>4, <2>1, <2>2, CommitStep
<1>6. ASSUME NEW f \in Feeds,
             NEW some \in SUBSET Episodes, MarkAllPlayed(stamp, f, some)
      PROVE  SyncConsistent'
  <2>1. Commit(stamp, {}, {f} \cup some) /\ {f} \cup some \in SUBSET Rows
    BY <1>2, <1>3, <1>6 DEF MarkAllPlayed
  <2>2. \A r \in {f} \cup some : Exists(r)
    BY <1>6 DEF MarkAllPlayed
  <2> QED BY <1>4, <2>1, <2>2, CommitStep
<1>7. ASSUME NEW f \in Feeds, Subscribe(stamp, f)  PROVE SyncConsistent'
  BY <1>2, <1>7, CommitStep DEF Subscribe
<1>8. ASSUME NEW f \in Feeds, DeleteFeed(stamp, f)  PROVE SyncConsistent'
  BY <1>8, DeleteStep
<1>9. ASSUME NEW fs \in SUBSET Feeds, MarkSeen(stamp, fs)  PROVE SyncConsistent'
  <2>1. \A f \in fs : f \in Rows /\ Exists(f)
    BY <1>2, <1>9 DEF MarkSeen
  <2>2. Commit(stamp, {}, fs)
    BY <1>9 DEF MarkSeen
  <2> QED BY <1>4, <2>1, <2>2, CommitStep
<1>10. ASSUME NEW e \in Episodes, WriteAudio(stamp, e)  PROVE SyncConsistent'
  BY <1>3, <1>4, <1>10, CommitStep DEF WriteAudio
<1>11. ASSUME NEW e \in Episodes, WriteState(stamp, e)  PROVE SyncConsistent'
  BY <1>3, <1>4, <1>11, CommitStep DEF WriteState
<1> QED BY <1>5, <1>6, <1>7, <1>8, <1>9, <1>10, <1>11 DEF Write

-----------------------------------------------------------------------------
(* The request and the client                                              *)

LEMMA TickStep ==
  ASSUME SyncConsistent, Tick
  PROVE  SyncConsistent'
<1>1. TypeOK' /\ Stamps' /\ Buried'
  BY DEF SyncConsistent, TypeOK, Stamps, Buried, Tick, tables, Exists, Show
<1>2. clock' >= clock
  BY DEF SyncConsistent, TypeOK, Tick
<1> QED BY <1>1, <1>2, ServerStep DEF Tick, tables

\* What a step leaves out of date, where it lies and what is told of it.
LEMMA ReadOnly ==
  ASSUME UNCHANGED <<clock, tables>>
  PROVE  \A r : /\ Exists(r)' <=> Exists(r)
                /\ Changed(r)' = Changed(r)
                /\ \A s : Told(r, s)' <=> Told(r, s)
                /\ \A c : Beyond(r, c)' <=> Beyond(r, c)
                /\ mirror' = mirror => (Stale(r)' <=> Stale(r))
  BY DEF tables, Exists, Changed, Told, Beyond, Stale, Show

\* The parts of the invariant a request leaves alone.
LEMMA RequestOnly ==
  ASSUME SyncConsistent, UNCHANGED <<clock, tables, writes, client, mirror>>
  PROVE  Stamps' /\ NothingMissed' /\ PagesReach'
<1>1. Stamps'
  BY DEF SyncConsistent, Stamps, tables, Exists, Show
<1>2. NothingMissed'
  BY ReadOnly DEF SyncConsistent, NothingMissed
<1>3. PagesReach'
  BY ReadOnly DEF SyncConsistent, PagesReach, Paging
<1> QED BY <1>1, <1>2, <1>3

\* A request that has read nothing.
LEMMA Unread ==
  ASSUME TypeOK', request'.stage \in {"idle", "clock"}, request'.got = NoRequest.got,
         request'.gone = {}, request'.next = NoCursor
  PROVE  AnswerReaches'
<1>1. NothingRead' /\ ReadIsCurrent'
  BY NoRequestType DEF NothingRead, ReadIsCurrent
<1>2. EpisodesReach' /\ FeedsReach' /\ DeletedReach'
  BY DEF EpisodesReach, FeedsReach, DeletedReach
<1> QED BY <1>1, <1>2 DEF AnswerReaches

LEMMA ReadClockStep ==
  ASSUME SyncConsistent, ReadClock
  PROVE  SyncConsistent'
<1>1. TypeOK /\ Stamps /\ Buried /\ RunsForward
  BY DEF SyncConsistent
<1>2. UNCHANGED <<clock, tables, writes, client, mirror>>
  BY DEF ReadClock
<1>3. \E now \in Nat :
        /\ now = IF Paging THEN client.cursor.now ELSE clock
        /\ request' = [NoRequest EXCEPT !.stage = "clock", !.now = now]
  BY <1>1 DEF ReadClock, TypeOK
<1>4. /\ request'.stage = "clock" /\ request'.got = NoRequest.got
      /\ request'.gone = {} /\ request'.next = NoCursor
      /\ request'.now = IF Paging THEN client.cursor.now ELSE clock
  BY <1>3 DEF NoRequest
<1>5. TypeOK'
  BY <1>1, <1>2, <1>3, NoRequestType DEF TypeOK, tables, NoRequest
<1>6. Buried'
  BY <1>1, <1>2, <1>4, ReadOnly, NoRequestType DEF Buried, tables, Show
<1>7. RunsForward'
  BY <1>1, <1>2, <1>4 DEF RunsForward, Paging, Stamps, TypeOK
<1> QED BY <1>2, <1>4, <1>5, <1>6, <1>7, RequestOnly, Unread DEF SyncConsistent

LEMMA LoseStep ==
  ASSUME SyncConsistent, Lose
  PROVE  SyncConsistent'
<1>1. TypeOK /\ Stamps /\ Buried /\ RunsForward
  BY DEF SyncConsistent
<1>2. UNCHANGED <<clock, tables, writes, client, mirror>> /\ request' = NoRequest
  BY DEF Lose
<1>3. TypeOK'
  BY <1>1, <1>2, NoRequestType DEF TypeOK, tables
<1>4. Buried'
  BY <1>1, <1>2, ReadOnly, NoRequestType DEF Buried, tables, Show
<1>5. RunsForward'
  BY <1>1, <1>2, NoRequestType DEF RunsForward, Paging
<1>6. AnswerReaches'
  BY <1>2, <1>3, Unread, NoRequestType
<1> QED BY <1>2, <1>3, <1>4, <1>5, <1>6, RequestOnly DEF SyncConsistent

LEMMA ReopenStep ==
  ASSUME SyncConsistent, Reopen
  PROVE  SyncConsistent'
<1>1. TypeOK /\ Stamps /\ Buried /\ RunsForward /\ NothingMissed /\ AnswerReaches
  BY DEF SyncConsistent
<1>2. /\ UNCHANGED <<clock, tables, writes, mirror, request>> /\ request.stage = "idle"
      /\ client'.since = client.since /\ client'.cursor = NoCursor
  BY <1>1 DEF Reopen, TypeOK
<1>3. TypeOK'
  BY <1>1, <1>2, NoRequestType DEF TypeOK, tables, Reopen
<1>4. Stamps' /\ Buried'
  BY <1>1, <1>2 DEF Stamps, Buried, tables, Exists, Show
<1>5. RunsForward' /\ PagesReach'
  BY <1>1, <1>2 DEF RunsForward, PagesReach, Paging
<1>6. NothingMissed'
  BY <1>1, <1>2, ReadOnly DEF NothingMissed
<1>7. AnswerReaches'
  BY <1>1, <1>2, <1>3, Unread DEF AnswerReaches, NothingRead
<1> QED BY <1>3, <1>4, <1>5, <1>6, <1>7 DEF SyncConsistent

LEMMA ReadEpisodesStep ==
  ASSUME SyncConsistent, ReadEpisodes
  PROVE  SyncConsistent'
<1>1. /\ TypeOK /\ Stamps /\ Buried /\ RunsForward
      /\ NothingMissed /\ PagesReach /\ AnswerReaches
  BY DEF SyncConsistent
<1>2. UNCHANGED <<clock, tables, writes, client, mirror>> /\ request.stage = "clock"
  BY DEF ReadEpisodes
<1>3. PICK page \in SUBSET Delta : IsPage(page) /\ \E next \in NextCursors(page) :
        request' = [request EXCEPT
          !.stage = IF Paging THEN "answer" ELSE "episodes",
          !.got = [r \in Rows |-> IF r \in page THEN row[r].version ELSE 0],
          !.next = next]
  BY DEF ReadEpisodes
<1>4. PICK next \in NextCursors(page) :
        request' = [request EXCEPT
          !.stage = IF Paging THEN "answer" ELSE "episodes",
          !.got = [r \in Rows |-> IF r \in page THEN row[r].version ELSE 0],
          !.next = next]
  BY <1>3
<1>5. /\ request'.stage = IF Paging THEN "answer" ELSE "episodes"
      /\ request'.now = request.now /\ request'.gone = {} /\ request'.next = next
      /\ request'.got = [r \in Rows |-> IF r \in page THEN row[r].version ELSE 0]
  BY <1>1, <1>2, <1>4 DEF TypeOK, AnswerReaches, NothingRead
<1>6. page \subseteq Episodes /\ \A e \in page : Exists(e) /\ e \in Rows
  BY DEF Delta, Rows
<1>7. /\ request.now > 0 /\ request.now \in Nat
      /\ Paging => request.now = client.cursor.now
  BY <1>1, <1>2 DEF RunsForward, TypeOK
<1>8. \/ next = NoCursor /\ page = Delta
      \/ \E last \in page :
           /\ next = [stamp |-> Changed(last), id |-> last, now |-> request.now]
           /\ page # Delta
  BY DEF NextCursors
<1>9. next \in [stamp : Nat, id : Nat, now : Nat]
  <2>1. \A last \in page : Changed(last) \in Nat /\ last \in Nat
    BY <1>1, <1>6, ChangedType
  <2> QED BY <2>1, <1>7, <1>8, NoRequestType
<1>10. TypeOK'
  <2>1. request'.got \in [Rows -> Nat]
    BY <1>1, <1>5 DEF TypeOK
  <2>2. request' \in [stage : {"idle", "clock", "episodes", "feeds", "answer"}, now : Nat,
                     got : [Rows -> Nat], gone : SUBSET Feeds,
                     next : [stamp : Nat, id : Nat, now : Nat]]
    BY <1>1, <1>4, <1>5, <1>9, <2>1 DEF TypeOK
  <2> QED BY <1>1, <1>2, <2>2 DEF TypeOK, tables
<1>11. Buried'
  BY <1>1, <1>2, <1>5, <1>6, ReadOnly DEF Buried, tables, Show, Exists
<1>12. next # NoCursor => next.now = request.now
  BY <1>8
<1>13. RunsForward'
  BY <1>1, <1>2, <1>5, <1>7, <1>12 DEF RunsForward, Paging
<1>14. NothingRead' /\ FeedsReach' /\ DeletedReach'
  BY <1>2, <1>5 DEF NothingRead, FeedsReach, DeletedReach, Paging
<1>15. ReadIsCurrent'
  BY <1>2, <1>5 DEF ReadIsCurrent, tables
<1>16. EpisodesReach'
  <2>1. SUFFICES ASSUME NEW e \in Episodes, Stale(e), Exists(e), e \notin page
                 PROVE  \/ Told(e, request.now)
                        \/ next # NoCursor /\ Beyond(e, next)
    <3>1. \A e \in Episodes : e \in Rows /\ (Exists(e) => row[e].version # 0)
      BY DEF Rows, Exists
    <3> QED BY <1>2, <1>5, <3>1, ReadOnly DEF EpisodesReach
  <2>2. e \in Rows /\ Changed(e) \in Nat /\ Changed(e) > 0
    BY <1>1, ChangedType, ExistingIsBeyondZero, <2>1 DEF Rows
  <2>3. AfterSince(Changed(e))
    BY <1>1, <2>1, <2>2 DEF NothingMissed, Told, AfterSince
  <2>4. Told(e, request.now) \/ AfterCursor(e)
    <3>1. CASE Paging
      BY <3>1, <1>1, <1>7, <2>1, <2>2 DEF PagesReach, Beyond, AfterCursor
    <3>2. CASE ~Paging
      BY <3>2, <2>2 DEF Paging, NoCursor, AfterCursor
    <3> QED BY <3>1, <3>2
  <2>5. CASE AfterCursor(e)
    <3>1. e \in Delta \ page
      BY <2>1, <2>3, <2>5 DEF Delta
    <3>2. PICK last \in page :
            next = [stamp |-> Changed(last), id |-> last, now |-> request.now]
      BY <1>8, <3>1
    <3>3. Before(last, e)
      BY <1>3, <3>1 DEF IsPage
    <3>4. Beyond(e, next)
      BY <2>1, <2>2, <3>2, <3>3 DEF Before, Beyond
    <3>5. next # NoCursor
      BY <1>7, <3>2 DEF NoCursor
    <3> QED BY <3>4, <3>5
  <2> QED BY <2>4, <2>5
<1> QED
  BY <1>2, <1>10, <1>11, <1>13, <1>14, <1>15, <1>16, RequestOnly
  DEF SyncConsistent, AnswerReaches

LEMMA ReadFeedsStep ==
  ASSUME SyncConsistent, ReadFeeds
  PROVE  SyncConsistent'
<1>1. TypeOK /\ Stamps /\ Buried /\ RunsForward /\ NothingMissed /\ AnswerReaches
  BY DEF SyncConsistent
<1>2. UNCHANGED <<clock, tables, writes, client, mirror>> /\ request.stage = "episodes"
  BY DEF ReadFeeds
<1>3. /\ request'.stage = "feeds" /\ request'.now = request.now
      /\ request'.gone = request.gone /\ request'.next = request.next
      /\ request'.got = [r \in Rows |->
           IF r \in Feeds /\ Exists(r) /\ AfterSince(Changed(r))
           THEN row[r].version ELSE request.got[r]]
  BY <1>1 DEF ReadFeeds, TypeOK
<1>4. TypeOK'
  <2>1. request'.got \in [Rows -> Nat]
    BY <1>1, <1>3 DEF TypeOK
  <2>2. request' \in [stage : {"idle", "clock", "episodes", "feeds", "answer"}, now : Nat,
                     got : [Rows -> Nat], gone : SUBSET Feeds,
                     next : [stamp : Nat, id : Nat, now : Nat]]
    BY <1>1, <1>3, <2>1 DEF TypeOK, ReadFeeds
  <2> QED BY <1>1, <1>2, <2>2 DEF TypeOK, tables
<1>5. Buried'
  BY <1>1, <1>2, <1>3, ReadOnly DEF Buried, tables, Show
<1>6. RunsForward'
  BY <1>1, <1>2, <1>3 DEF RunsForward, Paging
<1>7. NothingRead' /\ DeletedReach'
  BY <1>3 DEF NothingRead, DeletedReach
<1>8. ReadIsCurrent'
  BY <1>1, <1>2, <1>3, ReadOnly DEF ReadIsCurrent, AnswerReaches, tables
<1>9. EpisodesReach'
  <2>1. \A e \in Episodes : e \in Rows /\ e \notin Feeds
    BY DEF Rows
  <2>2. \A e \in Episodes : request'.got[e] = request.got[e]
    BY <1>3, <2>1
  <2> QED BY <1>1, <1>2, <1>3, <2>2, ReadOnly DEF EpisodesReach, AnswerReaches
<1>10. FeedsReach'
  <2> SUFFICES ASSUME NEW f \in Feeds, Stale(f), Exists(f), request'.got[f] = 0
               PROVE  FALSE
    BY <1>2, ReadOnly DEF FeedsReach
  <2>1. f \in Rows /\ row[f].version # 0
    BY DEF Rows, Exists
  <2>2. AfterSince(Changed(f))
    BY <1>1, <2>1 DEF NothingMissed, Told, AfterSince
  <2> QED BY <1>3, <2>1, <2>2
<1> QED
  BY <1>2, <1>4, <1>5, <1>6, <1>7, <1>8, <1>9, <1>10, RequestOnly
  DEF SyncConsistent, AnswerReaches

LEMMA ReadDeletedStep ==
  ASSUME SyncConsistent, ReadDeleted
  PROVE  SyncConsistent'
<1>1. TypeOK /\ Stamps /\ Buried /\ RunsForward /\ NothingMissed /\ AnswerReaches
  BY DEF SyncConsistent
<1>2. UNCHANGED <<clock, tables, writes, client, mirror>> /\ request.stage = "feeds"
  BY DEF ReadDeleted
<1>3. /\ request'.stage = "answer" /\ request'.now = request.now
      /\ request'.gone = {f \in Feeds : tomb[f] # 0 /\ AfterSince(tomb[f])}
      /\ request'.got = request.got /\ request'.next = request.next
  BY <1>1 DEF ReadDeleted, TypeOK
<1>4. TypeOK'
  BY <1>1, <1>2, <1>3 DEF TypeOK, tables, ReadDeleted
<1>5. Buried'
  BY <1>1, <1>2, <1>3, ReadOnly DEF Buried, tables, Show
<1>6. RunsForward'
  BY <1>1, <1>2, <1>3 DEF RunsForward, Paging
<1>7. NothingRead' /\ ReadIsCurrent' /\ EpisodesReach' /\ FeedsReach'
  BY <1>1, <1>2, <1>3, ReadOnly
  DEF NothingRead, ReadIsCurrent, EpisodesReach, FeedsReach, AnswerReaches, tables, Paging
<1>8. DeletedReach'
  <2> SUFFICES ASSUME NEW r \in Rows, Stale(r), ~Exists(r)
               PROVE  Show(r) \in request'.gone
    BY <1>2, ReadOnly DEF DeletedReach, Show
  <2>1. mirror[r] # 0
    BY DEF Stale, Exists
  <2>2. tomb[Show(r)] # 0 /\ Show(r) \in Feeds
    BY <1>1, <2>1, ShowType DEF Buried
  <2>3. AfterSince(tomb[Show(r)])
    BY <1>1 DEF NothingMissed, Told, AfterSince
  <2> QED BY <1>3, <2>2, <2>3
<1> QED
  BY <1>2, <1>4, <1>5, <1>6, <1>7, <1>8, RequestOnly DEF SyncConsistent, AnswerReaches

LEMMA ReceiveStep ==
  ASSUME SyncConsistent, Receive
  PROVE  SyncConsistent'
<1>1. /\ TypeOK /\ Stamps /\ Buried /\ RunsForward
      /\ NothingMissed /\ PagesReach /\ AnswerReaches
  BY DEF SyncConsistent
<1>2. /\ UNCHANGED <<clock, tables, writes>> /\ request.stage = "answer"
      /\ mirror' = [r \in Rows |-> Applied(r)] /\ request' = NoRequest
      /\ client'.since = IF request.next = NoCursor THEN request.now ELSE client.since
      /\ client'.cursor = request.next
  BY DEF Receive
<1>3. \A r \in Rows : Applied(r) \in Nat
  BY <1>1 DEF Applied, TypeOK
<1>4. TypeOK'
  BY <1>1, <1>2, <1>3, NoRequestType DEF TypeOK, tables, Receive
<1>5. Stamps'
  BY <1>1, <1>2 DEF Stamps, tables, Exists, Show
<1>6. Buried'
  <2>1. \A r \in Rows : Applied(r) # 0 => mirror[r] # 0 \/ request.got[r] # 0
    BY DEF Applied
  <2>2. \A r \in Rows : mirror'[r] # 0 /\ ~Exists(r)' => tomb'[Show(r)] # 0
    BY <1>1, <1>2, <2>1, ReadOnly DEF Buried, tables
  <2> QED BY <1>2, <2>2, NoRequestType DEF Buried, Show
<1>7. RunsForward'
  BY <1>1, <1>2, NoRequestType DEF RunsForward, Paging
<1>8. /\ request.now \in Nat /\ client.since \in Nat /\ client.since <= request.now
      /\ Paging => request.now = client.cursor.now
  BY <1>1, <1>2 DEF RunsForward, TypeOK
\* A row the answer leaves out of date is told of next time, or comes later.
<1>9. ASSUME NEW r \in Rows, Applied(r) # row[r].version
      PROVE  \/ Told(r, request.now)
             \/ request.next # NoCursor /\ Beyond(r, request.next) /\ Stale(r)
  <2>1. CASE Show(r) \in request.gone
    BY <2>1, <1>1, <1>9 DEF Applied, Buried, Stamps, Exists
  <2>2. CASE Show(r) \notin request.gone /\ request.got[r] # 0
    BY <2>2, <1>1, <1>9 DEF Applied, AnswerReaches, ReadIsCurrent
  <2>3. CASE Show(r) \notin request.gone /\ request.got[r] = 0
    <3>1. Stale(r)
      BY <2>3, <1>9 DEF Applied, Stale
    <3>2. CASE r \in Episodes /\ Exists(r)
      BY <3>1, <3>2, <2>3, <1>1, <1>2 DEF AnswerReaches, EpisodesReach
    <3>3. CASE r \in Feeds /\ Exists(r)
      BY <3>1, <3>3, <2>3, <1>1, <1>2, <1>8
      DEF AnswerReaches, FeedsReach, PagesReach, Beyond
    <3>4. CASE ~Exists(r)
      BY <3>1, <3>4, <2>3, <1>1, <1>2, <1>8
      DEF AnswerReaches, DeletedReach, PagesReach, Beyond
    <3> QED BY <3>2, <3>3, <3>4 DEF Rows
  <2> QED BY <2>1, <2>2, <2>3
<1>10. \A r \in Rows : Stale(r)' <=> Applied(r) # row[r].version
  BY <1>2 DEF Stale, tables
<1>11. NothingMissed'
  <2> SUFFICES ASSUME NEW r \in Rows, Applied(r) # row[r].version
               PROVE  Told(r, client'.since)
    BY <1>2, <1>10, ReadOnly DEF NothingMissed
  <2>1. CASE request.next = NoCursor
    BY <2>1, <1>2, <1>9
  <2>2. CASE request.next # NoCursor
    <3>1. CASE Told(r, request.now)
      BY <2>2, <3>1, <1>1, <1>2, <1>8, ToldEarlier
    <3>2. CASE Stale(r)
      BY <2>2, <3>2, <1>1, <1>2 DEF NothingMissed
    <3> QED BY <3>1, <3>2, <1>9
  <2> QED BY <2>1, <2>2
<1>12. PagesReach'
  <2> SUFFICES ASSUME request.next # NoCursor, NEW r \in Rows, Applied(r) # row[r].version
               PROVE  Told(r, request.next.now) \/ Beyond(r, request.next)
    BY <1>2, <1>10, ReadOnly DEF PagesReach, Paging
  <2>1. request.next.now = request.now
    BY <1>1, <1>2 DEF RunsForward
  <2> QED BY <2>1, <1>9
<1>13. AnswerReaches'
  BY <1>2, <1>4, Unread, NoRequestType
<1> QED BY <1>4, <1>5, <1>6, <1>7, <1>11, <1>12, <1>13 DEF SyncConsistent

-----------------------------------------------------------------------------
(* The theorems                                                            *)

LEMMA Begins == Init => SyncConsistent
<1> SUFFICES ASSUME Init  PROVE SyncConsistent
  OBVIOUS
<1>1. TypeOK
  <2>1. row \in [Rows -> [version : Nat, own : Nat, state : Nat]]
    <3>1. /\ NoRow \in [version : Nat, own : Nat, state : Nat]
          /\ [NoRow EXCEPT !.version = 1, !.own = 1] \in [version : Nat, own : Nat, state : Nat]
      BY DEF NoRow
    <3>2. PICK old \in SUBSET Rows : row = [r \in Rows |->
            IF r \in old THEN [NoRow EXCEPT !.version = 1, !.own = 1] ELSE NoRow]
      BY DEF Init
    <3> QED BY <3>1, <3>2
  <2>2. client \in [since : Nat, cursor : [stamp : Nat, id : Nat, now : Nat]]
    BY NoRequestType DEF Init
  <2>3. tomb \in [Feeds -> Nat] /\ mirror \in [Rows -> Nat] /\ clock \in Nat /\ writes \in Nat
    BY DEF Init
  <2> QED BY <2>1, <2>2, <2>3, NoRequestType DEF Init, TypeOK
<1>2. Stamps
  BY DEF Init, Stamps, Exists, Show, NoRow, Rows
<1>3. ~Paging /\ client.since = 0 /\ clock = 1 /\ request = NoRequest
  BY DEF Init, Paging
<1>4. Buried
  BY NoRequestType DEF Init, Buried
<1>5. RunsForward /\ PagesReach
  BY <1>3, NoRequestType DEF RunsForward, PagesReach
<1>6. NothingMissed
  <2>1. \A r \in Rows : Stale(r) => Exists(r)
    BY DEF Init, Stale, Exists
  <2> QED BY <1>1, <1>2, <1>3, <2>1, ChangedType, ExistingIsBeyondZero DEF NothingMissed, Told
<1>7. AnswerReaches
  BY <1>3, NoRequestType
  DEF AnswerReaches, NothingRead, ReadIsCurrent, EpisodesReach, FeedsReach, DeletedReach
<1> QED BY <1>1, <1>2, <1>4, <1>5, <1>6, <1>7 DEF SyncConsistent

\* The inductive invariant of delta sync, for every library and page size and
\* every interleaving of writers, pages and lost answers, as long as no
\* transaction outlives the overlap (config.py:85-90).
THEOREM SyncAlwaysConsistent ==
  ASSUME LongestWrite <= Overlap
  PROVE  Spec => []SyncConsistent
<1>1. SyncConsistent /\ [Next]_vars => SyncConsistent'
  <2> SUFFICES ASSUME SyncConsistent, [Next]_vars  PROVE SyncConsistent'
    OBVIOUS
  <2>1. CASE Tick
    BY <2>1, TickStep
  <2>2. ASSUME NEW stamp \in 1..clock, Write(stamp)  PROVE SyncConsistent'
    BY <2>2, WriteStep
  <2>3. CASE ReadClock
    BY <2>3, ReadClockStep
  <2>4. CASE ReadEpisodes
    BY <2>4, ReadEpisodesStep
  <2>5. CASE ReadFeeds
    BY <2>5, ReadFeedsStep
  <2>6. CASE ReadDeleted
    BY <2>6, ReadDeletedStep
  <2>7. CASE Receive
    BY <2>7, ReceiveStep
  <2>8. CASE Lose
    BY <2>8, LoseStep
  <2>9. CASE Reopen
    BY <2>9, ReopenStep
  <2>10. CASE UNCHANGED vars
    <3>1. TypeOK' /\ Stamps' /\ Buried'
      BY <2>10 DEF SyncConsistent, TypeOK, Stamps, Buried, vars, tables, Exists, Show
    <3>2. clock' >= clock
      BY <2>10 DEF SyncConsistent, TypeOK, vars
    <3> QED BY <2>10, <3>1, <3>2, ServerStep DEF vars, tables
  <2> QED
    BY <2>1, <2>2, <2>3, <2>4, <2>5, <2>6, <2>7, <2>8, <2>9, <2>10 DEF Next, ClientStep
<1> QED BY Begins, <1>1, PTL DEF Spec

\* A client that drains its pages and adopts the run's now misses nothing that
\* a transaction no longer than the overlap wrote (sync_routes.py:53-80).
THEOREM SyncMissesNothing ==
  ASSUME LongestWrite <= Overlap
  PROVE  Spec => []NothingMissed
<1>1. SyncConsistent => NothingMissed
  BY DEF SyncConsistent
<1> QED BY <1>1, SyncAlwaysConsistent, PTL
=============================================================================
