------------------------------ MODULE Refreshing ------------------------------
(***************************************************************************)
(* The refresh of one subscribed feed: conditional fetches of a document   *)
(* the publisher changes, by the scheduled pass and by a forced refresh,   *)
(* the columns and the episodes they store, the back-off, and the chapter  *)
(* file fetched for an episode meanwhile.                                  *)
(*                                                                         *)
(* The first flush of a refresh updates the feed's row, whose lock it      *)
(* keeps until its commit.                                                 *)
(***************************************************************************)
EXTENDS Integers, Sequences

CONSTANTS
  Guids,
  Documents,      \* what the feed may be: a title, and per guid a chapters address or None
  Scheduled, Forced,
  Interval, Jitter, MaxDoublings,   \* ticks
  None,
  MaxVersions, MaxFaults, MaxForced   \* bounds

VARIABLES
  published,  \* the documents so far; the last is served, its number is its ETag
  feed,       \* the feed's row
  episode,    \* the episodes' rows, None before the first time a guid is stored
  age,        \* since last_fetched_at; the most that counts, if never fetched
  task,       \* each refresh
  holder,     \* the refresh that holds the lock of the feed's row
  opening,    \* ensure_chapters: the episode and the address it read, or None
  faults, forced,
  overlapped, \* history: two refreshes were under way at once
  crossed     \* history: guids whose address changed while its chapters were fetched

vars == <<published, feed, episode, age, task, holder, opening, faults, forced,
          overlapped, crossed>>

Tasks == {Scheduled, Forced}
Latest == published[Len(published)]
Addresses(doc) == doc.chapters
Listed(doc) == DOMAIN doc.chapters

\* Nobody looks further back, or counts further than one past the last doubling.
Oldest == Interval * 2 ^ MaxDoublings + Jitter
Older(n) == IF n < Oldest THEN n + 1 ELSE n
OneMore(errors) == IF errors <= MaxDoublings + 1 THEN errors + 1 ELSE errors

Idle == [at |-> "idle", seen |-> [title |-> None, etag |-> None, errors |-> 0],
         got |-> None, age |-> 0, attempt |-> 1]

Init ==
  /\ published \in {<<d>> : d \in Documents}
  /\ feed = Idle.seen
  /\ episode = [g \in Guids |-> None]
  /\ age = Oldest
  /\ task = [t \in Tasks |-> Idle]
  /\ holder = None /\ opening = None
  /\ faults = 0 /\ forced = 0
  /\ overlapped = FALSE /\ crossed = {}

-----------------------------------------------------------------------------
(* When                                                                     *)

Backoff(errors) == 2 ^ (IF errors <= 1 THEN 0
                        ELSE IF errors - 1 < MaxDoublings THEN errors - 1 ELSE MaxDoublings)
Due(row, since) == since >= Interval * Backoff(row.errors) + Jitter

Tick ==
  /\ \/ age < Oldest
     \/ \E t \in Tasks : task[t].at # "idle" /\ task[t].age < Oldest
  /\ age' = Older(age)
  /\ task' = [t \in Tasks |-> IF task[t].at = "idle" THEN task[t]
                              ELSE [task[t] EXCEPT !.age = Older(@)]]
  /\ UNCHANGED <<published, feed, episode, holder, opening, faults, forced,
                 overlapped, crossed>>

Publish(doc) ==
  /\ Len(published) < MaxVersions /\ doc # Latest
  /\ published' = Append(published, doc)
  /\ UNCHANGED <<feed, episode, age, task, holder, opening, faults, forced,
                 overlapped, crossed>>

-----------------------------------------------------------------------------
(* refresh_feed                                                             *)

Start(t) ==
  /\ task[t].at = "idle"
  /\ IF t = Scheduled THEN Due(feed, age) /\ forced' = forced
     ELSE forced < MaxForced /\ forced' = forced + 1
  /\ task' = [task EXCEPT ![t] = [Idle EXCEPT !.at = "fetching", !.seen = feed]]
  /\ overlapped' = (overlapped \/ \E o \in Tasks : task[o].at # "idle")
  /\ UNCHANGED <<published, feed, episode, age, holder, opening, faults, crossed>>

\* A 304, or the document: the answer to If-None-Match as the row had it.
Answer(t) ==
  /\ task[t].at = "fetching"
  /\ task' = [task EXCEPT ![t].at = "fetched",
                          ![t].got = IF task[t].seen.etag = Len(published) THEN None
                                     ELSE Len(published)]
  /\ UNCHANGED <<published, feed, episode, age, holder, opening, faults, forced,
                 overlapped, crossed>>

\* fetch_feed: a body that arrives broken is asked for once more.
Truncated(t) ==
  /\ task[t].at = "fetching" /\ faults < MaxFaults
  /\ faults' = faults + 1
  /\ task' = [task EXCEPT ![t].attempt = 2,
                          ![t].at = IF task[t].attempt = 1 THEN "fetching" ELSE "failed"]
  /\ UNCHANGED <<published, feed, episode, age, holder, opening, forced, overlapped,
                 crossed>>

\* The host is unwell, the deadline passes, or what came cannot be stored.
Fault(t) ==
  /\ task[t].at \in {"fetching", "applied"} /\ faults < MaxFaults
  /\ faults' = faults + 1
  /\ task' = [task EXCEPT ![t].at = "failed"]
  /\ holder' = IF holder = t THEN None ELSE holder
  /\ UNCHANGED <<published, feed, episode, age, opening, forced, overlapped, crossed>>

\* _apply_result's first query flushes the feed: the lock.  The episodes are read after it.
Apply(t) ==
  /\ task[t].at = "fetched" /\ holder = None
  /\ holder' = t
  /\ task' = [task EXCEPT ![t].at = "applied"]
  /\ UNCHANGED <<published, feed, episode, age, opening, faults, forced, overlapped,
                 crossed>>

\* The columns that differ from the row the session loaded, before it fetched.
FeedAfter(t) ==
  LET seen == task[t].seen
      doc == published[task[t].got]
      new == IF task[t].got = None THEN [seen EXCEPT !.errors = 0]
             ELSE [title |-> IF doc.title = None THEN seen.title ELSE doc.title,
                   etag |-> task[t].got, errors |-> 0]
  IN  [c \in DOMAIN feed |-> IF new[c] # seen[c] THEN new[c] ELSE feed[c]]

EpisodeAfterOnce(row, address) ==   \* mutant: what is known is left as it was
  IF row = None THEN [address |-> address, chapters |-> None, tried |-> FALSE] ELSE row

EpisodeAfterKeeping(row, address) ==   \* mutant: what was fetched is kept
  IF row = None THEN [address |-> address, chapters |-> None, tried |-> FALSE]
  ELSE [row EXCEPT !.address = IF address = None THEN @ ELSE address]

\* A new guid is a new row; a known one takes what the document says, and loses what was
\* fetched from an address that changed.
EpisodeAfter(row, address) ==
  IF row = None THEN [address |-> address, chapters |-> None, tried |-> FALSE]
  ELSE IF address = None \/ address = row.address THEN row
  ELSE [address |-> address, chapters |-> None, tried |-> FALSE]

Commit(t) ==
  LET got == task[t].got
      doc == published[got] IN
  /\ task[t].at = "applied" /\ holder = t
  /\ feed' = FeedAfter(t)
  /\ age' = task[t].age
  /\ episode' = [g \in Guids |-> IF got # None /\ g \in Listed(doc)
                                 THEN EpisodeAfter(episode[g], Addresses(doc)[g])
                                 ELSE episode[g]]
  /\ crossed' = crossed \cup
       {g \in Guids : opening # None /\ opening.guid = g
                      /\ episode'[g].address # episode[g].address}
  /\ holder' = None
  /\ task' = [task EXCEPT ![t] = Idle]
  /\ UNCHANGED <<published, opening, faults, forced, overlapped>>

RecordUnrolled(t) ==   \* mutant: the ETag of what failed to be stored is kept
  /\ task[t].at = "failed" /\ holder = None
  /\ feed' = [feed EXCEPT !.errors = OneMore(@),
                          !.etag = IF task[t].got = None THEN @ ELSE task[t].got]
  /\ age' = task[t].age
  /\ task' = [task EXCEPT ![t] = Idle]
  /\ UNCHANGED <<published, episode, holder, opening, faults, forced, overlapped,
                 crossed>>

\* Rolled back; the row is read again, and one failure is counted on it.
Record(t) ==
  /\ task[t].at = "failed" /\ holder = None
  /\ feed' = [feed EXCEPT !.errors = OneMore(@)]
  /\ age' = task[t].age
  /\ task' = [task EXCEPT ![t] = Idle]
  /\ UNCHANGED <<published, episode, holder, opening, faults, forced, overlapped,
                 crossed>>

-----------------------------------------------------------------------------
(* ensure_chapters: an await between reading the address and storing        *)

Open(g) ==
  /\ opening = None /\ episode[g] # None
  /\ episode[g].address # None /\ episode[g].chapters = None /\ ~episode[g].tried
  /\ opening' = [guid |-> g, address |-> episode[g].address]
  /\ UNCHANGED <<published, feed, episode, age, task, holder, faults, forced,
                 overlapped, crossed>>

Store(found) ==
  /\ opening # None
  /\ episode' = [episode EXCEPT ![opening.guid].tried = TRUE,
                                ![opening.guid].chapters = IF found THEN opening.address ELSE @]
  /\ opening' = None
  /\ UNCHANGED <<published, feed, age, task, holder, faults, forced, overlapped,
                 crossed>>

\* The process ends: nothing that was not committed is left.
Stop ==
  /\ faults < MaxFaults
  /\ faults' = faults + 1
  /\ task' = [t \in Tasks |-> Idle]
  /\ holder' = None /\ opening' = None
  /\ UNCHANGED <<published, feed, episode, age, forced, overlapped, crossed>>

-----------------------------------------------------------------------------
Work(t) == Answer(t) \/ Apply(t) \/ Commit(t) \/ Record(t)

Next ==
  \/ Tick \/ Stop
  \/ \E d \in Documents : Publish(d)
  \/ \E t \in Tasks : Start(t) \/ Work(t) \/ Truncated(t) \/ Fault(t)
  \/ (\E g \in Guids : Open(g)) \/ (\E found \in BOOLEAN : Store(found))

Spec == Init /\ [][Next]_vars

\* Time passes, the loop ticks, the deadline ends every fetch.
Fairness ==
  /\ WF_vars(Tick) /\ WF_vars(Start(Scheduled))
  /\ \A t \in Tasks : WF_vars(Work(t))

FairSpec == Spec /\ Fairness

-----------------------------------------------------------------------------
(* Properties                                                               *)

RefreshTypeOK ==
  /\ feed.etag \in {None} \cup 1..Len(published)
  /\ feed.errors \in 0..(MaxDoublings + 2)
  /\ age \in 0..Oldest
  /\ \A t \in Tasks : task[t].at \in {"idle", "fetching", "fetched", "applied", "failed"}
  /\ holder # None => task[holder].at = "applied"

(* refresh.py:277: fetching and storing fail together.  Under the ETag that will be answered *)
(* with a 304, everything that document says has been stored, whatever failed, was forced    *)
(* meanwhile or was cut short; its title too, if no other refresh was under way.             *)
EtagMeansStored ==
  feed.etag # None =>
    LET doc == published[feed.etag] IN
    /\ \A g \in Listed(doc) :
         /\ episode[g] # None
         /\ Addresses(doc)[g] # None => episode[g].address = Addresses(doc)[g]
    /\ ~overlapped /\ doc.title # None => feed.title = doc.title

(* refresh.py:110: cached chapters describe the address the episode now has.                 *)
ChaptersOfTheAddress ==
  \A g \in Guids \ crossed :
    episode[g] # None /\ episode[g].chapters # None => episode[g].chapters = episode[g].address

RefreshConsistent == RefreshTypeOK /\ ChaptersOfTheAddress

(* refresh.py:410: however often a feed failed, it is asked again, and what it has listed    *)
(* ever since becomes an episode.                                                            *)
Offered(g) == g \in Listed(Latest)
Stored(g) == episode[g] # None
WhatIsPublishedArrives == \A g \in Guids : <>[]Offered(g) => []<>Stored(g)
=============================================================================
