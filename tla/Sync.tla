--------------------------------- MODULE Sync ---------------------------------
(***************************************************************************)
(* Delta sync.  Every write stamps its rows with the start of its          *)
(* transaction and shows them at its commit; a client keeps a mirror, asks *)
(* for what changed since the last run's `now`, and drains the pages.  The *)
(* statements of one request run in order, and commits fall between them.  *)
(*                                                                         *)
(* Time is the database's clock in ticks.  A row's content is the number of*)
(* times it was written.  0 is SQL's NULL for a stamp, and the `since` and *)
(* the cursor of a request that carries none: no stamp is at or before it. *)
(***************************************************************************)
EXTENDS Naturals, FiniteSets

CONSTANTS
  Feeds, Episodes,
  FeedOf,         \* the show of each episode
  Limit,          \* rows per page
  Overlap,        \* sync_overlap_seconds
  LongestWrite,   \* every transaction commits before it is this old
  MaxClock, MaxWrites   \* bounds: ticks, commits

Rows == Feeds \cup Episodes

ASSUME SyncAssumption ==
  /\ Episodes \subseteq Nat /\ Feeds \cap Episodes = {}
  /\ FeedOf \in [Episodes -> Feeds]
  /\ Limit \in Nat \ {0}
  /\ Overlap \in Nat /\ LongestWrite \in Nat
  /\ MaxClock \in Nat /\ MaxWrites \in Nat

VARIABLES
  clock,
  row,       \* feeds and episodes, with the listener's state of each
  tomb,      \* deleted_feeds
  writes,    \* commits so far
  client,    \* the since and the page cursor the client holds
  mirror,    \* the client's copy
  request    \* the request in progress

tables == <<row, tomb>>
vars == <<clock, tables, writes, client, mirror, request>>

Show(r) == IF r \in Feeds THEN r ELSE FeedOf[r]
Exists(r) == row[r].version # 0

\* GREATEST(row.updated_at, COALESCE(state.updated_at, row.updated_at)).
Changed(r) == IF row[r].state > row[r].own THEN row[r].state ELSE row[r].own

NoRow == [version |-> 0, own |-> 0, state |-> 0]
NoCursor == [stamp |-> 0, id |-> 0, now |-> 0]
NoRequest ==
  [stage |-> "idle", now |-> 0, got |-> [r \in Rows |-> 0], gone |-> {},
   next |-> NoCursor]

Init ==
  /\ clock = 1
  /\ \E old \in SUBSET Rows :
       /\ \A e \in old \cap Episodes : FeedOf[e] \in old
       /\ row = [r \in Rows |->
            IF r \in old THEN [NoRow EXCEPT !.version = 1, !.own = 1] ELSE NoRow]
  /\ tomb = [f \in Feeds |-> 0]
  /\ writes = 0
  /\ client = [since |-> 0, cursor |-> NoCursor]
  /\ mirror = [r \in Rows |-> 0]
  /\ request = NoRequest

Tick ==
  /\ clock < MaxClock
  /\ clock' = clock + 1
  /\ UNCHANGED <<tables, writes, client, mirror, request>>

-----------------------------------------------------------------------------
(* Writers                                                                 *)

\* A transaction's first statement fixes the stamp of all it writes, and a
\* commit shows it: rows whose own columns were written, and rows whose state
\* was.  The transaction is as old as the stamp.
Commits(stamp) ==
  /\ stamp <= clock /\ clock < stamp + LongestWrite
  /\ writes < MaxWrites /\ writes' = writes + 1

Commit(stamp, owns, states) ==
  /\ Commits(stamp)
  /\ row' = [r \in Rows |->
       IF r \notin owns \cup states THEN row[r]
       ELSE [version |-> row[r].version + 1,
             own     |-> IF r \in owns THEN stamp ELSE row[r].own,
             state   |-> IF r \in states THEN stamp ELSE row[r].state]]
  /\ UNCHANGED <<clock, tomb, client, mirror, request>>

\* subscribe_feed, before its refresh.
Subscribe(stamp, f) ==
  /\ ~Exists(f) /\ tomb[f] = 0
  /\ Commit(stamp, {f}, {})

\* A refresh: the feed's row, and the episodes it inserts or changes.
Refresh(stamp, f, es) ==
  /\ Exists(f)
  /\ Commit(stamp, {f} \cup es, {})

\* A download recorded, a purge, a processed copy.
WriteAudio(stamp, e) ==
  /\ Exists(e)
  /\ Commit(stamp, {e}, {})

\* update_state.
WriteState(stamp, e) ==
  /\ Exists(e)
  /\ Commit(stamp, {}, {e})

\* mark_seen and mark_all_seen.
MarkSeen(stamp, fs) ==
  /\ \A f \in fs : Exists(f)
  /\ Commit(stamp, {}, fs)

\* mark_all_played also marks the show seen.
MarkAllPlayed(stamp, f, es) ==
  /\ Exists(f) /\ \A e \in es : Exists(e)
  /\ Commit(stamp, {}, {f} \cup es)

DeleteFeedSilently(stamp, f) ==   \* mutant: no tombstone
  /\ Exists(f)
  /\ Commits(stamp)
  /\ row' = [r \in Rows |-> IF Show(r) = f THEN NoRow ELSE row[r]]
  /\ UNCHANGED <<clock, tomb, client, mirror, request>>

\* delete_feed: a tombstone, and the show's rows go.
DeleteFeed(stamp, f) ==
  /\ Exists(f)
  /\ Commits(stamp)
  /\ row' = [r \in Rows |-> IF Show(r) = f THEN NoRow ELSE row[r]]
  /\ tomb' = [tomb EXCEPT ![f] = stamp]
  /\ UNCHANGED <<clock, client, mirror, request>>

-----------------------------------------------------------------------------
(* The request                                                             *)

Paging == client.cursor # NoCursor

ReadClockMoving ==   \* mutant: every page reports its own now
  /\ request.stage = "idle"
  /\ request' = [NoRequest EXCEPT !.stage = "clock", !.now = clock]
  /\ UNCHANGED <<clock, tables, writes, client, mirror>>

\* now() of the request, or the one its cursor carries.
ReadClock ==
  /\ request.stage = "idle"
  /\ request' = [NoRequest EXCEPT
       !.stage = "clock", !.now = IF Paging THEN client.cursor.now ELSE clock]
  /\ UNCHANGED <<clock, tables, writes, client, mirror>>

AfterSince(stamp) == stamp + Overlap > client.since
AfterCursor(e) ==
  \/ Changed(e) > client.cursor.stamp
  \/ Changed(e) = client.cursor.stamp /\ e > client.cursor.id
Delta == {e \in Episodes : Exists(e) /\ AfterSince(Changed(e)) /\ AfterCursor(e)}

Before(d, e) == Changed(d) < Changed(e) \/ (Changed(d) = Changed(e) /\ d < e)

\* ORDER BY changed_at, id LIMIT Limit.
IsPage(page) ==
  /\ \A d \in page, e \in Delta \ page : Before(d, e)
  /\ IF Cardinality(Delta) > Limit THEN Cardinality(page) = Limit ELSE page = Delta

NextCursorsOwn(page) ==   \* mutant: the marker is the row's own stamp
  IF page = Delta THEN {NoCursor}
  ELSE {[stamp |-> row[last].own, id |-> last, now |-> request.now] :
          last \in {e \in page : \A d \in page \ {e} : Before(d, e)}}

\* Where the next page starts: after the last row of this one.
NextCursors(page) ==
  IF page = Delta THEN {NoCursor}
  ELSE {[stamp |-> Changed(last), id |-> last, now |-> request.now] :
          last \in {e \in page : \A d \in page \ {e} : Before(d, e)}}

\* The page of episodes.  Later pages carry nothing else.
ReadEpisodes ==
  /\ request.stage = "clock"
  /\ \E page \in SUBSET Delta :
       /\ IsPage(page)
       /\ \E next \in NextCursors(page) :
            request' = [request EXCEPT
              !.stage = IF Paging THEN "answer" ELSE "episodes",
              !.got = [r \in Rows |-> IF r \in page THEN row[r].version ELSE 0],
              !.next = next]
  /\ UNCHANGED <<clock, tables, writes, client, mirror>>

\* The feeds, whole.
ReadFeeds ==
  /\ request.stage = "episodes"
  /\ request' = [request EXCEPT
       !.stage = "feeds",
       !.got = [r \in Rows |-> IF r \in Feeds /\ Exists(r) /\ AfterSince(Changed(r))
                               THEN row[r].version ELSE request.got[r]]]
  /\ UNCHANGED <<clock, tables, writes, client, mirror>>

\* The tombstones.
ReadDeleted ==
  /\ request.stage = "feeds"
  /\ request' = [request EXCEPT
       !.stage = "answer",
       !.gone = {f \in Feeds : tomb[f] # 0 /\ AfterSince(tomb[f])}]
  /\ UNCHANGED <<clock, tables, writes, client, mirror>>

-----------------------------------------------------------------------------
(* The client                                                              *)

\* What the answer makes of the mirror: rows are stored, then the deleted
\* shows go with their episodes.
Applied(r) ==
  IF Show(r) \in request.gone THEN 0
  ELSE IF request.got[r] # 0 THEN request.got[r] ELSE mirror[r]

\* `since` moves to the run's now once the pages run out, and not before.
Receive ==
  /\ request.stage = "answer"
  /\ mirror' = [r \in Rows |-> Applied(r)]
  /\ client' = [since  |-> IF request.next = NoCursor THEN request.now ELSE client.since,
                cursor |-> request.next]
  /\ request' = NoRequest
  /\ UNCHANGED <<clock, tables, writes>>

\* A request or its answer is lost, and the client asks the same again.
Lose ==
  /\ request.stage # "idle"
  /\ request' = NoRequest
  /\ UNCHANGED <<clock, tables, writes, client, mirror>>

\* The client is killed in the middle of a run: it keeps its mirror and its
\* since, and starts the run over.
Reopen ==
  /\ request.stage = "idle" /\ Paging
  /\ client' = [client EXCEPT !.cursor = NoCursor]
  /\ UNCHANGED <<clock, tables, writes, mirror, request>>

-----------------------------------------------------------------------------
Write(stamp) ==
  \/ \E f \in Feeds :
       LET es == {e \in Episodes : FeedOf[e] = f} IN
       \/ \E new \in SUBSET es : Refresh(stamp, f, new)
       \/ \E some \in SUBSET {e \in es : Exists(e)} : MarkAllPlayed(stamp, f, some)
       \/ Subscribe(stamp, f) \/ DeleteFeed(stamp, f)
  \/ \E fs \in SUBSET Feeds : MarkSeen(stamp, fs)
  \/ \E e \in Episodes : WriteAudio(stamp, e) \/ WriteState(stamp, e)

ClientStep == ReadClock \/ ReadEpisodes \/ ReadFeeds \/ ReadDeleted \/ Receive

Next ==
  \/ Tick
  \/ \E stamp \in 1..clock : Write(stamp)
  \/ ClientStep
  \/ Lose \/ Reopen

Spec == Init /\ [][Next]_vars
\* The client syncs again and again and its requests are answered.
FairSpec == Spec /\ WF_vars(ClientStep)
-----------------------------------------------------------------------------
(* What makes it correct                                                   *)

TypeOK ==
  /\ clock \in Nat /\ writes \in Nat
  /\ row \in [Rows -> [version : Nat, own : Nat, state : Nat]]
  /\ tomb \in [Feeds -> Nat]
  /\ client \in [since : Nat, cursor : [stamp : Nat, id : Nat, now : Nat]]
  /\ mirror \in [Rows -> Nat]
  /\ request \in [stage : {"idle", "clock", "episodes", "feeds", "answer"}, now : Nat,
                  got : [Rows -> Nat], gone : SUBSET Feeds,
                  next : [stamp : Nat, id : Nat, now : Nat]]

Stale(r) == mirror[r] # row[r].version

\* A run that starts from `since` is told of the row's last change.
Told(r, since) == (IF Exists(r) THEN Changed(r) ELSE tomb[Show(r)]) + Overlap > since

\* Whatever the mirror holds out of date is in the delta of the since the
\* client holds: nothing is passed over for good, however commits, pages, lost
\* answers and restarts fall (sync_routes.py:9-11, 53-80, 164; config.py:85-90).
NothingMissed == \A r \in Rows : Stale(r) => Told(r, client.since)

\* No stamp lies in the future, and rows have one; a show that is gone has left
\* a tombstone and no rows.
Stamps ==
  /\ clock > 0
  /\ \A r \in Rows : /\ row[r].own <= clock /\ row[r].state <= clock
                     /\ Exists(r) => row[r].own > 0
                     /\ Exists(r) => Exists(Show(r)) /\ tomb[Show(r)] = 0

\* What the client holds or is being sent and the server has no more has left a
\* tombstone, and only such shows are reported (feed_routes.py:235-248).
Buried ==
  /\ \A r \in Rows :
       (mirror[r] # 0 \/ request.got[r] # 0) /\ ~Exists(r) => tomb[Show(r)] # 0
  /\ \A f \in request.gone : tomb[f] # 0

\* The run's now is the past, and the since of the run lies before it.
RunsForward ==
  /\ client.since <= clock
  /\ Paging => client.cursor.now > 0 /\ client.cursor.now <= clock
               /\ client.since <= client.cursor.now
  /\ request.stage # "idle" =>
       /\ request.now > 0 /\ request.now <= clock /\ client.since <= request.now
       /\ Paging => request.now = client.cursor.now
       /\ request.next # NoCursor => request.next.now = request.now

Beyond(e, cursor) ==
  /\ e \in Episodes /\ Exists(e)
  /\ \/ Changed(e) > cursor.stamp
     \/ Changed(e) = cursor.stamp /\ e > cursor.id

\* Between pages: what is out of date comes on a later page or in the next run.
PagesReach ==
  Paging => \A r \in Rows :
    Stale(r) => Told(r, client.cursor.now) \/ Beyond(r, client.cursor)

\* Within a request: a read row is current or told next time, and so is what a
\* statement passed over, or it comes on a later page.
NothingRead ==
  request.stage \in {"idle", "clock"} =>
    request.got = NoRequest.got /\ request.gone = {} /\ request.next = NoCursor
ReadIsCurrent ==
  \A r \in Rows : request.got[r] \in {0, row[r].version} \/ Told(r, request.now)
EpisodesReach ==
  request.stage \in {"episodes", "feeds", "answer"} =>
    \A e \in Episodes :
      Stale(e) /\ Exists(e) /\ request.got[e] = 0 =>
        Told(e, request.now) \/ (request.next # NoCursor /\ Beyond(e, request.next))
FeedsReach ==
  request.stage \in {"feeds", "answer"} /\ ~Paging =>
    \A f \in Feeds : Stale(f) /\ Exists(f) /\ request.got[f] = 0 => Told(f, request.now)
DeletedReach ==
  request.stage = "answer" /\ ~Paging =>
    \A r \in Rows : Stale(r) /\ ~Exists(r) =>
      Show(r) \in request.gone \/ Told(r, request.now)
AnswerReaches ==
  NothingRead /\ ReadIsCurrent /\ EpisodesReach /\ FeedsReach /\ DeletedReach

SyncConsistent ==
  /\ TypeOK /\ Stamps /\ Buried /\ RunsForward
  /\ NothingMissed /\ PagesReach /\ AnswerReaches

\* Once nobody writes and no more requests are lost, the client's mirror becomes
\* the server's tables and stays so (tests/test_sync_conformance.py:1-6).  (A
\* loss that leaves what the answer would have left counts as the answer.)
MirrorCatchesUp ==
  <>[][Lose \/ Reopen => Receive]_vars => <>[](\A r \in Rows : ~Stale(r))

\* "one call returns everything changed since a timestamp, with a server-supplied
\* `now` to use as the next cursor" (podarium-spec.md:216), for transactions as
\* long as the code lets them get: a refresh fetches inside its transaction.
EverythingChanged == \A r \in Rows : Stale(r) => Told(r, client.since)
=============================================================================
