------------------------------ MODULE FeedProofs ------------------------------
(***************************************************************************)
(* Proofs about Refreshing, Subscribing and Artwork: what a feed's row and *)
(* episodes hold while refreshes, failures and restarts cross, which shows *)
(* are subscribed, and what becomes of a picture that several requests     *)
(* fetch.  For any feed, documents, addresses, redirects and clients.      *)
(***************************************************************************)
EXTENDS Parts, FiniteSetTheorems, SequenceTheorems, TLAPS

LEMMA WhoseStays == Next => whose' = whose
BY DEF Next, OnlyProcessing, OnlyTimeline, OnlyServing, OnlyRefreshing, OnlySubscribing,
       OnlySignIn, OnlyQueue, OnlyArtwork, OnlyNotifying

-----------------------------------------------------------------------------
(* Refreshing                                                               *)

\* What EXCEPT needs to know of an episode's row, of the feed's and of a refresh.
EpisodeRow(e) == e \in {None} \cup EpisodeRows
FeedRow(f) == f = [title |-> f.title, etag |-> f.etag, errors |-> f.errors]
TaskRow(k) == k = [at |-> k.at, seen |-> k.seen, got |-> k.got, age |-> k.age, attempt |-> k.attempt]

FeedShapes ==
  /\ published \in Seq(Documents) /\ Len(published) >= 1
  /\ FeedRow(feed)
  /\ episode = [g \in Guids |-> episode[g]] /\ \A g \in Guids : EpisodeRow(episode[g])
  /\ task = [t \in R!Tasks |-> task[t]]
  /\ \A t \in R!Tasks : TaskRow(task[t]) /\ FeedRow(task[t].seen)

Edition(n) == n \in 1..Len(published)

\* A 304 is answered only to the edition's own ETag: what was fetched is another one.
GotAnother ==
  \A t \in R!Tasks :
    task[t].at \in {"fetched", "applied"} /\ task[t].got # None =>
      Edition(task[t].got) /\ task[t].got # task[t].seen.etag

\* Without another refresh the row is as it was when this one loaded it.
SeenIsCurrent ==
  ~overlapped =>
    \A t \in R!Tasks : task[t].at # "idle" =>
      task[t].seen = feed /\ \A o \in R!Tasks \ {t} : task[o].at = "idle"

\* The address ensure_chapters read is the episode's, unless a refresh has changed it.
OpeningIsCurrent ==
  opening # None =>
    /\ opening.guid \in Guids /\ episode[opening.guid] # None /\ opening.address \in Places
    /\ opening.guid \notin crossed => opening.address = episode[opening.guid].address

EpisodesStored ==
  feed.etag # None =>
    /\ Edition(feed.etag)
    /\ \A g \in R!Listed(published[feed.etag]) :
         /\ episode[g] # None
         /\ R!Addresses(published[feed.etag])[g] # None
              => episode[g].address = R!Addresses(published[feed.etag])[g]

TitleStored ==
  feed.etag # None /\ ~overlapped /\ published[feed.etag].title # None =>
    feed.title = published[feed.etag].title

FeedCore ==
  /\ FeedShapes
  /\ GotAnother /\ SeenIsCurrent /\ OpeningIsCurrent
  /\ EpisodesStored /\ TitleStored
  /\ R!ChaptersOfTheAddress

LEMMA FeedInit == R!Init => FeedCore
<1> SUFFICES ASSUME R!Init PROVE FeedCore
  OBVIOUS
<1>1. PICK d \in Documents : published = <<d>>
  BY DEF R!Init
<1>2. published \in Seq(Documents) /\ Len(published) >= 1
  BY <1>1
<1>3. FeedShapes
  BY <1>2 DEF R!Init, FeedShapes, FeedRow, EpisodeRow, TaskRow, R!Idle
<1>4. GotAnother /\ SeenIsCurrent
  BY DEF R!Init, GotAnother, SeenIsCurrent, R!Idle
<1>5. OpeningIsCurrent /\ EpisodesStored /\ TitleStored /\ R!ChaptersOfTheAddress
  BY DEF R!Init, OpeningIsCurrent, EpisodesStored, TitleStored, R!ChaptersOfTheAddress, R!Idle
<1> QED BY <1>3, <1>4, <1>5 DEF FeedCore

\* A step that writes no row leaves what has been stored as it was.
LEMMA StoredKept ==
  ASSUME FeedCore, UNCHANGED <<published, feed, episode, crossed>>, overlapped => overlapped'
  PROVE  EpisodesStored' /\ TitleStored' /\ R!ChaptersOfTheAddress'
<1>1. EpisodesStored'
  BY DEF FeedCore, EpisodesStored, Edition
<1>2. TitleStored'
  BY DEF FeedCore, TitleStored
<1>3. R!ChaptersOfTheAddress'
  BY DEF FeedCore, R!ChaptersOfTheAddress
<1> QED BY <1>1, <1>2, <1>3

\* A step of one refresh that writes no row.
LEMMA OneRefreshStep ==
  ASSUME FeedCore, NEW t \in R!Tasks,
         UNCHANGED <<published, feed, episode, opening, overlapped, crossed>>,
         task' = [x \in R!Tasks |-> task'[x]], \A o \in R!Tasks \ {t} : task'[o] = task[o],
         task[t].at # "idle", TaskRow(task'[t]), task'[t].seen = task[t].seen,
         task'[t].at \in {"fetched", "applied"} /\ task'[t].got # None =>
           Edition(task'[t].got) /\ task'[t].got # task[t].seen.etag
  PROVE  FeedCore'
<1>1. FeedShapes'
  BY DEF FeedCore, FeedShapes
<1>2. GotAnother'
  BY DEF FeedCore, GotAnother, Edition
<1>3. SeenIsCurrent'
  BY DEF FeedCore, SeenIsCurrent
<1>4. OpeningIsCurrent'
  BY DEF FeedCore, OpeningIsCurrent
<1> QED BY <1>1, <1>2, <1>3, <1>4, StoredKept DEF FeedCore

LEMMA FetchKeepsFeed ==
  ASSUME FeedCore, NEW t \in R!Tasks, R!Answer(t) \/ R!Truncated(t) \/ R!Fault(t) \/ R!Apply(t)
  PROVE  FeedCore'
<1>1. /\ task = [x \in R!Tasks |-> task[x]] /\ TaskRow(task[t])
      /\ Len(published) \in Nat /\ Len(published) >= 1
  BY LenProperties DEF FeedCore, FeedShapes
<1>2. /\ task' = [x \in R!Tasks |-> task'[x]] /\ \A o \in R!Tasks \ {t} : task'[o] = task[o]
      /\ TaskRow(task'[t]) /\ task'[t].seen = task[t].seen
  BY <1>1 DEF R!Answer, R!Truncated, R!Fault, R!Apply, TaskRow
<1>3. /\ UNCHANGED <<published, feed, episode, opening, overlapped, crossed>>
      /\ task[t].at # "idle"
  BY DEF R!Answer, R!Truncated, R!Fault, R!Apply
<1>4. ASSUME task'[t].at \in {"fetched", "applied"}, task'[t].got # None
      PROVE  Edition(task'[t].got) /\ task'[t].got # task[t].seen.etag
  <2>1. CASE R!Answer(t)
    <3>1. task'[t].got = IF task[t].seen.etag = Len(published) THEN None ELSE Len(published)
      BY <1>1, <2>1 DEF R!Answer, TaskRow
    <3> QED BY <1>1, <1>4, <3>1 DEF Edition
  <2>2. CASE R!Truncated(t) \/ R!Fault(t)
    <3>1. task'[t].at \in {"fetching", "failed"}
      BY <1>1, <2>2 DEF R!Truncated, R!Fault, TaskRow
    <3> QED BY <1>4, <3>1
  <2>3. CASE R!Apply(t)
    <3>1. task[t].at = "fetched" /\ task'[t].got = task[t].got
      BY <1>1, <2>3 DEF R!Apply, TaskRow
    <3> QED BY <1>4, <3>1 DEF FeedCore, GotAnother
  <2> QED BY <2>1, <2>2, <2>3
<1> HIDE DEF Edition
<1> QED BY <1>2, <1>3, <1>4, OneRefreshStep

LEMMA TickKeepsFeed ==
  ASSUME FeedCore, R!Tick
  PROVE  FeedCore'
<1>1. \A t \in R!Tasks : TaskRow(task[t])
  BY DEF FeedCore, FeedShapes
<1>2. task' = [t \in R!Tasks |-> task'[t]]
  BY DEF R!Tick
<1>3. ASSUME NEW t \in R!Tasks
      PROVE  /\ TaskRow(task'[t]) /\ task'[t].at = task[t].at
             /\ task'[t].seen = task[t].seen /\ task'[t].got = task[t].got
  <2>1. task'[t] = IF task[t].at = "idle" THEN task[t]
                   ELSE [task[t] EXCEPT !.age = R!Older(@)]
    BY DEF R!Tick
  <2>2. CASE task[t].at = "idle"
    BY <1>1, <2>1, <2>2
  <2>3. CASE task[t].at # "idle"
    <3> DEFINE n == R!Older(task[t].age)
    <3>1. task'[t] = [task[t] EXCEPT !.age = n]
      BY <2>1, <2>3
    <3> HIDE DEF n
    <3> QED BY <1>1, <3>1 DEF TaskRow
  <2> QED BY <2>2, <2>3
<1>4. UNCHANGED <<published, feed, episode, opening, overlapped, crossed>>
  BY DEF R!Tick
<1>5. FeedShapes'
  BY <1>2, <1>3, <1>4 DEF FeedCore, FeedShapes
<1>6. GotAnother'
  BY <1>3, <1>4 DEF FeedCore, GotAnother, Edition
<1>7. SeenIsCurrent'
  BY <1>3, <1>4 DEF FeedCore, SeenIsCurrent
<1>8. OpeningIsCurrent'
  BY <1>4 DEF FeedCore, OpeningIsCurrent
<1> QED BY <1>4, <1>5, <1>6, <1>7, <1>8, StoredKept DEF FeedCore

\* The edition of the row's ETag.
LEMMA OfTheEtag ==
  ASSUME FeedCore, feed.etag # None
  PROVE  Edition(feed.etag) /\ R!Listed(published[feed.etag]) \subseteq Guids
<1>1. Edition(feed.etag)
  BY DEF FeedCore, EpisodesStored
<1>2. published \in Seq(Documents)
  BY DEF FeedCore, FeedShapes
<1>3. published[feed.etag] \in Documents
  BY <1>1, <1>2, ElementOfSeq DEF Edition
<1> QED BY <1>1, <1>3, RefreshingAssumption

\* An edition keeps its number when another is published.
LEMMA EditionsStay ==
  ASSUME published \in Seq(Documents), NEW d \in Documents, published' = Append(published, d),
         NEW n, Edition(n)
  PROVE  n \in 1..Len(published') /\ published'[n] = published[n]
BY AppendProperties, LenProperties DEF Edition

LEMMA PublishKeepsFeed ==
  ASSUME FeedCore, NEW d \in Documents, R!Publish(d)
  PROVE  FeedCore'
<1>1. published \in Seq(Documents) /\ published' = Append(published, d)
  BY DEF R!Publish, FeedCore, FeedShapes
<1>2. published' \in Seq(Documents) /\ Len(published') >= 1
  BY <1>1, AppendProperties, LenProperties
<1>3. UNCHANGED <<feed, episode, task, opening, overlapped, crossed>>
  BY DEF R!Publish
<1>4. FeedShapes'
  BY <1>2, <1>3 DEF FeedCore, FeedShapes
<1>5. GotAnother'
  BY <1>1, <1>3, EditionsStay DEF FeedCore, GotAnother, Edition
<1>6. SeenIsCurrent' /\ OpeningIsCurrent' /\ R!ChaptersOfTheAddress'
  BY <1>3 DEF FeedCore, SeenIsCurrent, OpeningIsCurrent, R!ChaptersOfTheAddress
<1>7. ASSUME feed.etag # None
      PROVE  /\ Edition(feed.etag) /\ feed.etag \in 1..Len(published')
             /\ published'[feed.etag] = published[feed.etag]
  <2>1. Edition(feed.etag)
    BY <1>7 DEF FeedCore, EpisodesStored
  <2> QED BY <1>1, <2>1, EditionsStay
<1>8. EpisodesStored'
  BY <1>3, <1>7 DEF FeedCore, EpisodesStored, Edition
<1>9. TitleStored'
  BY <1>3, <1>7 DEF FeedCore, TitleStored
<1> QED BY <1>4, <1>5, <1>6, <1>8, <1>9 DEF FeedCore

LEMMA StartKeepsFeed ==
  ASSUME FeedCore, NEW t \in R!Tasks, R!Start(t)
  PROVE  FeedCore'
<1>1. /\ task'[t] = [R!Idle EXCEPT !.at = "fetching", !.seen = feed]
      /\ \A o \in R!Tasks \ {t} : task'[o] = task[o]
      /\ task' = [x \in R!Tasks |-> task'[x]]
  BY DEF R!Start, FeedCore, FeedShapes
<1>2. /\ TaskRow(task'[t]) /\ task'[t].at = "fetching" /\ task'[t].seen = feed
      /\ task'[t].got = None
  BY <1>1 DEF R!Idle, TaskRow
<1>3. UNCHANGED <<published, feed, episode, opening, crossed>> /\ task[t].at = "idle"
  BY DEF R!Start
<1>4. overlapped => overlapped'
  BY DEF R!Start
<1>5. ~overlapped' => ~overlapped /\ \A o \in R!Tasks : task[o].at = "idle"
  BY DEF R!Start
<1>6. FeedShapes'
  BY <1>1, <1>2, <1>3 DEF FeedCore, FeedShapes
<1>7. GotAnother'
  BY <1>1, <1>2, <1>3 DEF FeedCore, GotAnother, Edition
<1>8. SeenIsCurrent'
  <2> SUFFICES ASSUME ~overlapped', NEW x \in R!Tasks, task'[x].at # "idle"
               PROVE  task'[x].seen = feed' /\ \A o \in R!Tasks \ {x} : task'[o].at = "idle"
    BY DEF SeenIsCurrent
  <2>1. \A o \in R!Tasks \ {t} : task'[o].at = "idle"
    BY <1>1, <1>5
  <2>2. x = t
    BY <2>1
  <2> QED BY <1>2, <1>3, <2>1, <2>2
<1>9. OpeningIsCurrent'
  BY <1>3 DEF FeedCore, OpeningIsCurrent
<1> QED BY <1>3, <1>4, <1>6, <1>7, <1>8, <1>9, StoredKept DEF FeedCore

LEMMA StopKeepsFeed ==
  ASSUME FeedCore, R!Stop
  PROVE  FeedCore'
<1>1. UNCHANGED <<published, feed, episode, overlapped, crossed>> /\ opening' = None
  BY DEF R!Stop
<1>2. task' = [t \in R!Tasks |-> task'[t]] /\ \A t \in R!Tasks : task'[t] = R!Idle
  BY DEF R!Stop
<1>3. TaskRow(R!Idle) /\ FeedRow(R!Idle.seen) /\ R!Idle.at = "idle"
  BY DEF R!Idle, TaskRow, FeedRow
<1>4. FeedShapes'
  BY <1>1, <1>2, <1>3 DEF FeedCore, FeedShapes
<1>5. GotAnother' /\ SeenIsCurrent' /\ OpeningIsCurrent'
  BY <1>1, <1>2, <1>3 DEF GotAnother, SeenIsCurrent, OpeningIsCurrent
<1> QED BY <1>1, <1>4, <1>5, StoredKept DEF FeedCore

LEMMA RecordKeepsFeed ==
  ASSUME FeedCore, NEW t \in R!Tasks, R!Record(t)
  PROVE  FeedCore'
<1>1. /\ task'[t] = R!Idle /\ \A o \in R!Tasks \ {t} : task'[o] = task[o]
      /\ task' = [x \in R!Tasks |-> task'[x]]
  BY DEF R!Record, FeedCore, FeedShapes
<1>2. TaskRow(R!Idle) /\ FeedRow(R!Idle.seen) /\ R!Idle.at = "idle"
  BY DEF R!Idle, TaskRow, FeedRow
<1>3. UNCHANGED <<published, episode, opening, overlapped, crossed>> /\ task[t].at = "failed"
  BY DEF R!Record
<1>4. FeedRow(feed)' /\ feed'.etag = feed.etag /\ feed'.title = feed.title
  BY DEF R!Record, FeedCore, FeedShapes, FeedRow
<1>5. FeedShapes'
  BY <1>1, <1>2, <1>3, <1>4 DEF FeedCore, FeedShapes
<1>6. GotAnother'
  BY <1>1, <1>2, <1>3 DEF FeedCore, GotAnother, Edition
<1>7. SeenIsCurrent'
  BY <1>1, <1>2, <1>3 DEF FeedCore, SeenIsCurrent
<1>8. OpeningIsCurrent' /\ R!ChaptersOfTheAddress'
  BY <1>3 DEF FeedCore, OpeningIsCurrent, R!ChaptersOfTheAddress
<1>9. EpisodesStored' /\ TitleStored'
  BY <1>3, <1>4 DEF FeedCore, EpisodesStored, TitleStored, Edition
<1> QED BY <1>5, <1>6, <1>7, <1>8, <1>9 DEF FeedCore

LEMMA OpenKeepsFeed ==
  ASSUME FeedCore, NEW g \in Guids, R!Open(g)
  PROVE  FeedCore'
<1>1. UNCHANGED <<published, feed, episode, task, overlapped, crossed>>
  BY DEF R!Open
<1>2. FeedShapes' /\ GotAnother' /\ SeenIsCurrent'
  BY <1>1 DEF FeedCore, FeedShapes, GotAnother, SeenIsCurrent, Edition
<1>3. episode[g] \in EpisodeRows
  BY DEF R!Open, FeedCore, FeedShapes, EpisodeRow
<1>4. OpeningIsCurrent'
  BY <1>3 DEF R!Open, OpeningIsCurrent, EpisodeRows
<1> QED BY <1>1, <1>2, <1>4, StoredKept DEF FeedCore

LEMMA StoreKeepsFeed ==
  ASSUME FeedCore, NEW found \in BOOLEAN, R!Store(found)
  PROVE  FeedCore'
<1> DEFINE g == opening.guid
<1>1. /\ g \in Guids /\ episode[g] # None /\ opening.address \in Places
      /\ g \notin crossed => opening.address = episode[g].address
  BY DEF R!Store, FeedCore, OpeningIsCurrent
<1>2. episode[g] \in EpisodeRows /\ episode = [x \in Guids |-> episode[x]]
  BY <1>1 DEF FeedCore, FeedShapes, EpisodeRow
<1>3. /\ episode' = [x \in Guids |-> episode'[x]]
      /\ \A x \in Guids \ {g} : episode'[x] = episode[x]
      /\ episode'[g] = [address |-> episode[g].address,
                        chapters |-> IF found THEN opening.address ELSE episode[g].chapters,
                        tried |-> TRUE]
  <2> DEFINE e == episode[g]
  <2>1. e = [address |-> e.address, chapters |-> e.chapters, tried |-> e.tried]
    BY <1>2 DEF EpisodeRows
  <2> QED BY <1>1, <1>2, <2>1 DEF R!Store
<1>4. UNCHANGED <<published, feed, task, overlapped, crossed>> /\ opening' = None
  BY DEF R!Store
<1>5. /\ episode'[g] # None /\ EpisodeRow(episode'[g])
      /\ episode'[g].address = episode[g].address
      /\ episode'[g].chapters = IF found THEN opening.address ELSE episode[g].chapters
  <2>1. episode'[g] \in EpisodeRows
    BY <1>1, <1>2, <1>3 DEF EpisodeRows
  <2>2. episode'[g] # None /\ EpisodeRow(episode'[g])
    BY <2>1, RefreshingAssumption DEF EpisodeRow
  <2>3. /\ episode'[g].address = episode[g].address
        /\ episode'[g].chapters = IF found THEN opening.address ELSE episode[g].chapters
    BY <1>3
  <2> QED BY <2>2, <2>3
<1> HIDE DEF g
<1>6. FeedShapes'
  BY <1>3, <1>4, <1>5 DEF FeedCore, FeedShapes
<1>7. GotAnother' /\ SeenIsCurrent' /\ OpeningIsCurrent'
  BY <1>4 DEF FeedCore, GotAnother, SeenIsCurrent, OpeningIsCurrent, Edition
<1>8. EpisodesStored'
  BY <1>3, <1>4, <1>5, OfTheEtag DEF FeedCore, EpisodesStored, Edition
<1>9. TitleStored'
  BY <1>4 DEF FeedCore, TitleStored
<1>10. R!ChaptersOfTheAddress'
  BY <1>1, <1>3, <1>4, <1>5 DEF FeedCore, R!ChaptersOfTheAddress
<1> QED BY <1>6, <1>7, <1>8, <1>9, <1>10 DEF FeedCore

\* What a document does to an episode's row.
LEMMA RowAfter ==
  ASSUME NEW e, EpisodeRow(e), NEW address \in Places
  PROVE  /\ EpisodeRow(R!EpisodeAfter(e, address)) /\ R!EpisodeAfter(e, address) # None
         /\ address # None => R!EpisodeAfter(e, address).address = address
         /\ e # None /\ R!EpisodeAfter(e, address).address = e.address
              => R!EpisodeAfter(e, address) = e
         /\ R!EpisodeAfter(e, address).chapters # None => R!EpisodeAfter(e, address) = e
<1> DEFINE fresh == [address |-> address, chapters |-> None, tried |-> FALSE]
<1>1. fresh # None /\ fresh.address = address /\ fresh.chapters = None /\ EpisodeRow(fresh)
  <2>1. None \in Places
    BY DEF Places
  <2>2. fresh \in EpisodeRows
    BY <2>1 DEF EpisodeRows
  <2> QED BY <2>2, RefreshingAssumption DEF EpisodeRow
<1>2. R!EpisodeAfter(e, address) = IF e = None THEN fresh
        ELSE IF address = None \/ address = e.address THEN e ELSE fresh
  BY DEF R!EpisodeAfter
<1> HIDE DEF fresh
<1> QED BY <1>1, <1>2

LEMMA CommitKeepsFeed ==
  ASSUME FeedCore, NEW t \in R!Tasks, R!Commit(t)
  PROVE  FeedCore'
<1> DEFINE got == task[t].got
           doc == published[got]
<1>1. /\ task'[t] = R!Idle /\ \A o \in R!Tasks \ {t} : task'[o] = task[o]
      /\ task' = [x \in R!Tasks |-> task'[x]]
  BY DEF R!Commit, FeedCore, FeedShapes
<1>2. TaskRow(R!Idle) /\ FeedRow(R!Idle.seen) /\ R!Idle.at = "idle"
  BY DEF R!Idle, TaskRow, FeedRow
<1>3. UNCHANGED <<published, opening, overlapped>> /\ task[t].at = "applied"
  BY DEF R!Commit
<1>4. got # None => Edition(got) /\ got # task[t].seen.etag
  BY <1>3 DEF FeedCore, GotAnother
<1>5. got # None => /\ R!Listed(doc) \subseteq Guids
                    /\ \A g \in R!Listed(doc) : R!Addresses(doc)[g] \in Places
  <2>1. got # None => doc \in Documents
    BY <1>4 DEF FeedCore, FeedShapes, Edition
  <2> HIDE DEF doc
  <2> QED BY <2>1, RefreshingAssumption DEF Places
<1>6. /\ episode' = [g \in Guids |-> episode'[g]]
      /\ \A g \in Guids : episode'[g] = IF got # None /\ g \in R!Listed(doc)
                                        THEN R!EpisodeAfter(episode[g], R!Addresses(doc)[g])
                                        ELSE episode[g]
  BY DEF R!Commit
<1>7. crossed' = crossed \cup
        {g \in Guids : opening # None /\ opening.guid = g
                       /\ episode'[g].address # episode[g].address}
  BY DEF R!Commit
<1>8. /\ FeedRow(feed)'
      /\ feed'.etag = IF got = None THEN feed.etag ELSE got
      /\ task[t].seen = feed =>
           feed'.title = IF got = None \/ doc.title = None THEN feed.title ELSE doc.title
  <2> DEFINE seen == task[t].seen
             new == IF got = None THEN [seen EXCEPT !.errors = 0]
                    ELSE [title |-> IF doc.title = None THEN seen.title ELSE doc.title,
                          etag |-> got, errors |-> 0]
  <2>1. FeedRow(feed) /\ FeedRow(seen)
    BY DEF FeedCore, FeedShapes
  <2>2. feed' = [c \in DOMAIN feed |-> IF new[c] # seen[c] THEN new[c] ELSE feed[c]]
    BY DEF R!Commit, R!FeedAfter
  <2>3. DOMAIN feed = {"title", "etag", "errors"}
    BY <2>1 DEF FeedRow
  <2>4. /\ new["title"] = IF got = None \/ doc.title = None THEN seen["title"] ELSE doc.title
        /\ new["etag"] = IF got = None THEN seen["etag"] ELSE got
    BY <2>1 DEF FeedRow
  <2>5. got # None => got # seen["etag"]
    BY <1>4
  <2> HIDE DEF new, got, doc, seen
  <2>6. FeedRow(feed)'
    BY <2>2, <2>3 DEF FeedRow
  <2>7. feed'["etag"] = IF got = None THEN feed["etag"] ELSE got
    BY <2>2, <2>3, <2>4, <2>5
  <2>8. seen = feed =>
          feed'["title"] = IF got = None \/ doc.title = None THEN feed["title"] ELSE doc.title
    BY <2>2, <2>3, <2>4
  <2> QED BY <2>6, <2>7, <2>8 DEF seen
<1> HIDE DEF got, doc
<1>9. \A g \in Guids : EpisodeRow(episode[g])
  BY DEF FeedCore, FeedShapes
<1>10. FeedShapes'
  BY <1>1, <1>2, <1>3, <1>5, <1>6, <1>8, <1>9, RowAfter DEF FeedCore, FeedShapes
<1>11. GotAnother'
  BY <1>1, <1>2, <1>3 DEF FeedCore, GotAnother, Edition
<1>12. SeenIsCurrent'
  BY <1>1, <1>2, <1>3 DEF FeedCore, SeenIsCurrent
<1>13. OpeningIsCurrent'
  BY <1>3, <1>5, <1>6, <1>7, <1>9, RowAfter DEF FeedCore, OpeningIsCurrent
<1>14. EpisodesStored'
  <2>1. CASE got = None
    <3>1. \A g \in Guids : episode'[g] = episode[g]
      BY <1>6, <2>1
    <3> QED BY <1>3, <1>8, <2>1, <3>1, OfTheEtag DEF FeedCore, EpisodesStored, Edition
  <2>2. CASE got # None
    <3>1. feed'.etag = got /\ got \in 1..Len(published') /\ published'[got] = doc
      BY <1>3, <1>4, <1>8, <2>2 DEF Edition, doc
    <3>2. ASSUME NEW g \in R!Listed(doc)
          PROVE  /\ episode'[g] # None
                 /\ R!Addresses(doc)[g] # None => episode'[g].address = R!Addresses(doc)[g]
      BY <1>5, <1>6, <1>9, <2>2, RowAfter
    <3> QED BY <3>1, <3>2 DEF EpisodesStored, Edition
  <2> QED BY <2>1, <2>2
<1>15. TitleStored'
  <2> SUFFICES ASSUME ~overlapped PROVE TitleStored'
    BY <1>3 DEF TitleStored
  <2>1. task[t].seen = feed
    BY <1>3 DEF FeedCore, SeenIsCurrent
  <2> QED BY <1>3, <1>8, <2>1 DEF FeedCore, TitleStored, doc
<1>16. R!ChaptersOfTheAddress'
  BY <1>5, <1>6, <1>7, <1>9, RowAfter DEF FeedCore, R!ChaptersOfTheAddress
<1> QED BY <1>10, <1>11, <1>12, <1>13, <1>14, <1>15, <1>16 DEF FeedCore

LEMMA FeedStutters ==
  ASSUME FeedCore,
         UNCHANGED <<published, feed, episode, task, opening, overlapped, crossed>>
  PROVE  FeedCore'
<1>1. FeedShapes' /\ GotAnother' /\ SeenIsCurrent' /\ OpeningIsCurrent'
  BY DEF FeedCore, FeedShapes, GotAnother, SeenIsCurrent, OpeningIsCurrent, Edition
<1> QED BY <1>1, StoredKept DEF FeedCore

LEMMA FeedStep == FeedCore /\ R!Next => FeedCore'
<1> SUFFICES ASSUME FeedCore, R!Next PROVE FeedCore'
  OBVIOUS
<1>1. CASE R!Tick \/ R!Stop
  BY <1>1, TickKeepsFeed, StopKeepsFeed
<1>2. CASE \E d \in Documents : R!Publish(d)
  BY <1>2, PublishKeepsFeed
<1>3. ASSUME NEW t \in R!Tasks, R!Start(t) \/ R!Work(t) \/ R!Truncated(t) \/ R!Fault(t)
      PROVE  FeedCore'
  BY <1>3, StartKeepsFeed, FetchKeepsFeed, CommitKeepsFeed, RecordKeepsFeed DEF R!Work
<1>4. CASE (\E g \in Guids : R!Open(g)) \/ (\E found \in BOOLEAN : R!Store(found))
  BY <1>4, OpenKeepsFeed, StoreKeepsFeed
<1> QED BY <1>1, <1>2, <1>3, <1>4 DEF R!Next

\* Who holds the row's lock, and what the counters may be.
FeedTyped ==
  /\ R!RefreshTypeOK
  /\ holder \in {None} \cup R!Tasks
  /\ \A t \in R!Tasks : task[t].age \in 0..R!Oldest

LEMMA FeedTypedInit == R!Init => FeedTyped
<1> SUFFICES ASSUME R!Init PROVE FeedTyped
  OBVIOUS
<1>1. \A t \in R!Tasks : task[t].age = 0 /\ task[t].at = "idle"
  BY DEF R!Init, R!Idle
<1>2. holder = None /\ feed.etag = None /\ feed.errors = 0 /\ age = R!Oldest
  BY DEF R!Init, R!Idle
<1> QED BY <1>1, <1>2, RefreshingAssumption DEF FeedTyped, R!RefreshTypeOK

\* Everything of the type invariant but for who holds the lock and the row's counters.
LEMMA FeedTypedStep ==
  ASSUME FeedCore, FeedTyped, R!Next, FeedCore'
  PROVE  FeedTyped'
<1>1. R!Oldest \in Nat /\ MaxDoublings \in Nat
  BY RefreshingAssumption
<1>2. \A n \in 0..R!Oldest : R!Older(n) \in 0..R!Oldest
  BY <1>1 DEF R!Older
<1>3. feed'.etag \in {None} \cup 1..Len(published')
  BY DEF FeedCore, EpisodesStored, Edition
<1>4. /\ FeedRow(feed) /\ task = [t \in R!Tasks |-> task[t]]
      /\ \A t \in R!Tasks : TaskRow(task[t]) /\ FeedRow(task[t].seen)
  BY DEF FeedCore, FeedShapes
<1>5. R!Idle.age = 0 /\ R!Idle.at = "idle"
  BY DEF R!Idle
<1> DEFINE Stages == {"idle", "fetching", "fetched", "applied", "failed"}
           Tasked == \A t \in R!Tasks : task[t].at \in Stages /\ task[t].age \in 0..R!Oldest
           Locked == /\ holder \in {None} \cup R!Tasks
                     /\ holder # None => task[holder].at = "applied"
           Counted == age \in 0..R!Oldest /\ feed.errors \in 0..(MaxDoublings + 2)
<1>6. Tasked /\ Locked /\ Counted
  BY DEF FeedTyped, R!RefreshTypeOK
<1>7. Tasked' /\ Locked' /\ Counted' => FeedTyped'
  BY <1>3 DEF FeedTyped, R!RefreshTypeOK, R!Tasks
<1>8. CASE R!Stop
  BY <1>1, <1>5, <1>6, <1>7, <1>8 DEF R!Stop
<1>9. CASE R!Tick
  <2>1. ASSUME NEW t \in R!Tasks
        PROVE  task'[t].at = task[t].at /\ task'[t].age \in 0..R!Oldest
    <3> DEFINE n == R!Older(task[t].age)
    <3>1. task'[t] = IF task[t].at = "idle" THEN task[t] ELSE [task[t] EXCEPT !.age = n]
      BY <1>9 DEF R!Tick
    <3>2. n \in 0..R!Oldest
      BY <1>2, <1>6
    <3> HIDE DEF n
    <3> QED BY <1>4, <1>6, <3>1, <3>2 DEF TaskRow
  <2>2. age' \in 0..R!Oldest /\ UNCHANGED <<feed, holder>>
    BY <1>2, <1>6, <1>9 DEF R!Tick
  <2> QED BY <1>6, <1>7, <2>1, <2>2
<1>10. CASE \/ \E d \in Documents : R!Publish(d)
            \/ \E g \in Guids : R!Open(g)
            \/ \E found \in BOOLEAN : R!Store(found)
  <2>1. UNCHANGED <<feed, age, task, holder>>
    BY <1>10 DEF R!Publish, R!Open, R!Store
  <2> QED BY <1>6, <1>7, <2>1
<1>11. ASSUME NEW t \in R!Tasks, R!Start(t) \/ R!Work(t) \/ R!Truncated(t) \/ R!Fault(t)
       PROVE  FeedTyped'
  <2>1. /\ \A o \in R!Tasks \ {t} : task'[o] = task[o]
        /\ task'[t].at \in Stages /\ task'[t].age \in 0..R!Oldest
    <3>1. CASE R!Start(t)
      <4>1. task'[t] = [R!Idle EXCEPT !.at = "fetching", !.seen = feed]
        BY <1>4, <3>1 DEF R!Start
      <4>2. task'[t].at = "fetching" /\ task'[t].age = 0
        BY <4>1 DEF R!Idle
      <4> QED BY <1>1, <1>4, <3>1, <4>2 DEF R!Start
    <3>2. CASE R!Answer(t) \/ R!Apply(t) \/ R!Truncated(t) \/ R!Fault(t)
      BY <1>4, <1>6, <3>2 DEF R!Answer, R!Apply, R!Truncated, R!Fault, TaskRow
    <3>3. CASE R!Commit(t) \/ R!Record(t)
      BY <1>1, <1>4, <1>5, <3>3 DEF R!Commit, R!Record
    <3> QED BY <1>11, <3>1, <3>2, <3>3 DEF R!Work
  <2>2. Tasked'
    BY <1>6, <2>1 DEF R!Tasks
  <2>3. Locked'
    <3>1. CASE R!Start(t) \/ R!Answer(t) \/ R!Truncated(t)
      <4>1. holder' = holder /\ holder # t
        BY <1>6, <3>1, RefreshingAssumption DEF R!Start, R!Answer, R!Truncated
      <4> QED BY <1>6, <2>1, <4>1
    <3>2. CASE R!Apply(t)
      BY <1>4, <3>2 DEF R!Apply, TaskRow
    <3>3. CASE R!Fault(t)
      BY <1>6, <2>1, <3>3 DEF R!Fault
    <3>4. CASE R!Commit(t) \/ R!Record(t)
      BY <3>4 DEF R!Commit, R!Record
    <3> QED BY <1>11, <3>1, <3>2, <3>3, <3>4 DEF R!Work
  <2>4. Counted'
    <3>1. CASE R!Start(t) \/ R!Answer(t) \/ R!Truncated(t) \/ R!Apply(t) \/ R!Fault(t)
      BY <1>6, <3>1 DEF R!Start, R!Answer, R!Truncated, R!Apply, R!Fault
    <3>2. CASE R!Commit(t)
      <4>1. feed'.errors \in {0, feed.errors}
        <5> DEFINE seen == task[t].seen
                   new == IF task[t].got = None THEN [seen EXCEPT !.errors = 0]
                          ELSE [title |-> IF published[task[t].got].title = None
                                          THEN seen.title ELSE published[task[t].got].title,
                                etag |-> task[t].got, errors |-> 0]
        <5>1. new["errors"] = 0
          BY <1>4 DEF FeedRow
        <5>2. feed' = [c \in DOMAIN feed |-> IF new[c] # seen[c] THEN new[c] ELSE feed[c]]
          BY <3>2 DEF R!Commit, R!FeedAfter
        <5>3. "errors" \in DOMAIN feed
          BY <1>4 DEF FeedRow
        <5> HIDE DEF new, seen
        <5>4. feed'["errors"] \in {0, feed["errors"]}
          BY <5>1, <5>2, <5>3
        <5> QED BY <5>4
      <4> QED BY <1>1, <1>6, <3>2, <4>1 DEF R!Commit
    <3>3. CASE R!Record(t)
      <4> DEFINE n == R!OneMore(feed.errors)
      <4>1. feed' = [feed EXCEPT !.errors = n] /\ age' = task[t].age
        BY <3>3 DEF R!Record
      <4>2. n \in 0..(MaxDoublings + 2)
        BY <1>1, <1>6 DEF R!OneMore
      <4> HIDE DEF n
      <4>3. feed'.errors = n
        BY <1>4, <4>1 DEF FeedRow
      <4> QED BY <1>6, <4>1, <4>2, <4>3
    <3> QED BY <1>11, <3>1, <3>2, <3>3 DEF R!Work
  <2> QED BY <1>7, <2>2, <2>3, <2>4
<1> QED BY <1>8, <1>9, <1>10, <1>11 DEF R!Next

\* Everything of the refresh that is kept by every step: what the row's ETag promises, whose
\* row a refresh looks at, and which address ensure_chapters is holding.
THEOREM RefreshInvariant == Spec => [](whose = "refreshing" => FeedCore /\ FeedTyped)
<1> DEFINE Inv == whose = "refreshing" => FeedCore /\ FeedTyped
<1>1. Init => Inv
  BY FeedInit, FeedTypedInit DEF Init
<1>2. Inv /\ [Next]_vars => Inv'
  <2> SUFFICES ASSUME Inv, [Next]_vars, whose' = "refreshing" PROVE FeedCore' /\ FeedTyped'
    OBVIOUS
  <2>1. CASE Next
    BY <2>1, FeedStep, FeedTypedStep, WhoseStays
       DEF Next, OnlyProcessing, OnlyTimeline, OnlyServing, OnlySubscribing, OnlySignIn,
           OnlyQueue, OnlyArtwork, OnlyNotifying
  <2>2. CASE vars' = vars
    BY <2>2, FeedStutters DEF vars, refreshingVars, FeedTyped, R!RefreshTypeOK
  <2> QED BY <2>1, <2>2
<1> QED BY <1>1, <1>2, PTL DEF Spec

\* refresh.py:277: under the ETag that will be answered with a 304 everything that edition says
\* is stored, for any feed, any number of failures, forced refreshes and restarts.
THEOREM RefreshEtagMeansStored == Spec => []EtagMeansStored
<1>1. (whose = "refreshing" => FeedCore /\ FeedTyped) => EtagMeansStored
  BY DEF FeedCore, EpisodesStored, TitleStored, EtagMeansStored, R!EtagMeansStored
<1> QED BY <1>1, RefreshInvariant, PTL

\* refresh.py:110: cached chapters are those of the address the episode now has, unless the
\* address changed while they were being fetched; one refresh writes the row at a time.
THEOREM RefreshesConsistently == Spec => []RefreshConsistent
<1>1. (whose = "refreshing" => FeedCore /\ FeedTyped) => RefreshConsistent
  BY DEF FeedCore, FeedTyped, RefreshConsistent, R!RefreshConsistent
<1> QED BY <1>1, RefreshInvariant, PTL

-----------------------------------------------------------------------------
(* Subscribing                                                              *)

Request == [at : {"idle", "resolving", "existing", "inserting", "refreshing"},
            url : Urls \cup {None}, index : {None} \cup {B!Show(a) : a \in Urls},
            opml : BOOLEAN, found : Nat \cup {None}, seen : SUBSET Nat, resolved : BOOLEAN]

\* Where a row landed is where its address lands, and ids are not given out again.
Rows ==
  /\ ids \in Nat /\ DOMAIN feeds \subseteq 1..ids
  /\ \A i \in DOMAIN feeds :
       /\ feeds[i] = [url |-> feeds[i].url, resolved |-> feeds[i].resolved,
                      index |-> feeds[i].index, active |-> feeds[i].active]
       /\ feeds[i].resolved \in {None, B!LandsAt(feeds[i].url)}
  /\ request \in [Clients -> Request]
  /\ \A c \in Clients : request[c].seen \subseteq 1..ids

\* Of the rows a lookup could tell by where they land, none is of this show.
Unmet(r) == \A i \in r.seen \cap DOMAIN feeds : B!Show(feeds[i].url) # B!Show(r.url)

LookedUp ==
  \A c \in Clients :
    LET r == request[c] IN
    /\ r.at = "resolving" /\ B!Show(r.url) = B!NormalizeFeedUrl(r.url) => Unmet(r)
    /\ r.at = "inserting" /\ r.resolved => Unmet(r)
    /\ r.at \in {"resolving", "inserting"} => r.url \in Urls
    /\ r.at = "resolving" => ~r.resolved

SubscribeCore == B!SubscribeConsistent /\ Rows /\ LookedUp

LEMMA SubscribeInit == B!Init => SubscribeCore
BY SubscribingAssumption
   DEF B!Init, SubscribeCore, B!SubscribeConsistent, B!SubscribeTypeOK, B!OneShowOneFeed,
       Rows, LookedUp, B!Idle, Request

\* A lookup under the address of a show finds every row that is known to land there.
LEMMA LookupMeets ==
  ASSUME Rows, NEW url, NEW index, B!FindExistingFeed(url, index) = {},
         NEW i \in B!Recognisable
  PROVE  B!Show(feeds[i].url) # B!NormalizeFeedUrl(url)
BY DEF Rows, B!FindExistingFeed, B!Recognisable, B!Identities, B!Show

\* What is changed of the rows, but for a new one: neither their addresses nor their ids.
LEMMA RowsKept ==
  ASSUME SubscribeCore, DOMAIN feeds' \subseteq DOMAIN feeds,
         \A i \in DOMAIN feeds' :
           /\ feeds'[i] = [url |-> feeds[i].url, resolved |-> feeds'[i].resolved,
                           index |-> feeds'[i].index, active |-> feeds'[i].active]
           /\ feeds'[i].resolved \in {feeds[i].resolved, B!LandsAt(feeds[i].url)},
         UNCHANGED <<ids, excused>>
  PROVE  /\ B!OneShowOneFeed'
         /\ ids' \in Nat /\ DOMAIN feeds' \subseteq 1..ids'
         /\ \A i \in DOMAIN feeds' :
              /\ feeds'[i].url = feeds[i].url /\ feeds'[i].url \in Urls
              /\ feeds'[i].resolved \in {None, B!LandsAt(feeds'[i].url)}
              /\ feeds'[i].resolved \in {None} \cup {B!LandsAt(a) : a \in Urls}
              /\ feeds'[i] = [url |-> feeds'[i].url, resolved |-> feeds'[i].resolved,
                              index |-> feeds'[i].index, active |-> feeds'[i].active]
         /\ \A r : Unmet(r) => Unmet(r)'
BY DEF SubscribeCore, B!SubscribeConsistent, B!SubscribeTypeOK, B!OneShowOneFeed, Rows,
       B!Show, Unmet

\* Steps of a request that leave the rows and the ids.
LEMMA RequestMoves ==
  ASSUME SubscribeCore, UNCHANGED <<feeds, ids, excused>>,
         NEW c \in Clients, NEW r \in Request, request' = [request EXCEPT ![c] = r],
         r.seen \subseteq 1..ids,
         r.at = "resolving" /\ B!Show(r.url) = B!NormalizeFeedUrl(r.url) => Unmet(r),
         r.at = "inserting" /\ r.resolved => Unmet(r),
         r.at \in {"resolving", "inserting"} => r.url \in Urls,
         r.at = "resolving" => ~r.resolved
  PROVE  SubscribeCore'
<1>1. B!SubscribeConsistent'
  BY DEF SubscribeCore, B!SubscribeConsistent, B!SubscribeTypeOK, B!OneShowOneFeed, Rows,
         Request, B!Show
<1>2. Rows'
  BY DEF SubscribeCore, Rows
<1>3. LookedUp'
  BY DEF SubscribeCore, Rows, LookedUp, Unmet, B!Show
<1> QED BY <1>1, <1>2, <1>3 DEF SubscribeCore

LEMMA SubscribeAsked ==
  ASSUME SubscribeCore, NEW c \in Clients, NEW url \in Urls,
         NEW index \in {None} \cup {B!Show(a) : a \in Urls}, NEW opml \in BOOLEAN,
         B!Subscribe(c, url, index, opml)
  PROVE  SubscribeCore'
<1> DEFINE hits == B!FindExistingFeed(url, index)
<1>1. PICK found \in IF hits = {} THEN {None} ELSE hits :
        request' = [request EXCEPT ![c] =
          [at |-> IF found = None THEN "resolving" ELSE "existing", url |-> url,
           index |-> index, opml |-> opml, found |-> found, seen |-> B!Recognisable,
           resolved |-> FALSE]]
  BY DEF B!Subscribe
<1> DEFINE r == [at |-> IF found = None THEN "resolving" ELSE "existing", url |-> url,
                 index |-> index, opml |-> opml, found |-> found, seen |-> B!Recognisable,
                 resolved |-> FALSE]
<1>2. hits \subseteq DOMAIN feeds /\ DOMAIN feeds \subseteq 1..ids /\ ids \in Nat
  BY DEF B!FindExistingFeed, SubscribeCore, Rows
<1>3. B!Recognisable \subseteq DOMAIN feeds
  BY DEF B!Recognisable
<1>4. r \in Request /\ r.seen \subseteq 1..ids
  BY <1>2, <1>3 DEF Request
<1>5. r.at = "resolving" => hits = {}
  BY <1>2, SubscribingAssumption
<1>6. r.at = "resolving" /\ B!Show(url) = B!NormalizeFeedUrl(url) => Unmet(r)
  BY <1>5, LookupMeets DEF Unmet, SubscribeCore
<1> HIDE DEF r
<1>7. UNCHANGED <<feeds, ids, excused>> /\ request' = [request EXCEPT ![c] = r]
  BY <1>1 DEF B!Subscribe, r
<1>8. r.url = url /\ r.at # "inserting" /\ ~r.resolved
  BY DEF r
<1> QED BY <1>4, <1>6, <1>7, <1>8, RequestMoves

LEMMA SubscribeResolved ==
  ASSUME SubscribeCore, NEW c \in Clients, B!Resolved(c)
  PROVE  SubscribeCore'
<1> DEFINE q == request[c]
           elsewhere == B!NormalizeFeedUrl(B!LandsAt(q.url)) # B!NormalizeFeedUrl(q.url)
           hits == IF elsewhere THEN B!FindExistingFeed(B!LandsAt(q.url), None) ELSE {}
           r(found) == [at |-> IF found = None THEN "inserting" ELSE "existing", url |-> q.url,
                        index |-> q.index, opml |-> q.opml, found |-> found,
                        seen |-> IF elsewhere THEN B!Recognisable ELSE q.seen,
                        resolved |-> TRUE]
<1>0. q \in Request /\ q.at = "resolving" /\ q.url \in Urls
  BY DEF SubscribeCore, Rows, LookedUp, B!Resolved
<1>1. PICK found \in IF hits = {} THEN {None} ELSE hits :
        request' = [request EXCEPT ![c] = r(found)]
  BY DEF B!Resolved
<1>2. hits \subseteq DOMAIN feeds /\ DOMAIN feeds \subseteq 1..ids /\ ids \in Nat
  BY DEF B!FindExistingFeed, SubscribeCore, Rows
<1>3. B!Recognisable \subseteq DOMAIN feeds
  BY DEF B!Recognisable
<1>4. q.seen \subseteq 1..ids
  BY DEF SubscribeCore, Rows
<1>5. r(found) \in Request /\ r(found).seen \subseteq 1..ids /\ r(found).url = q.url
  BY <1>0, <1>2, <1>3, <1>4 DEF Request
<1>6. r(found).at = "inserting" => Unmet(r(found))
  <2> SUFFICES ASSUME r(found).at = "inserting" PROVE Unmet(r(found))
    OBVIOUS
  <2>1. hits = {}
    BY <1>0, <1>2, SubscribingAssumption DEF Request
  <2>2. CASE elsewhere
    BY <1>0, <2>1, <2>2, LookupMeets DEF Unmet, SubscribeCore, B!Show, Request
  <2>3. CASE ~elsewhere
    BY <1>0, <2>3 DEF Unmet, SubscribeCore, LookedUp, B!Show, Request
  <2> QED BY <2>2, <2>3
<1>7. r(found).at # "resolving"
  BY <1>0 DEF Request
<1>8. UNCHANGED <<feeds, ids, excused>>
  BY DEF B!Resolved
<1> HIDE DEF r
<1> QED BY <1>0, <1>1, <1>5, <1>6, <1>7, <1>8, RequestMoves

\* Steps that change rows, and end a request or leave them all as they are.
LEMMA RowsMove ==
  ASSUME SubscribeCore,
         DOMAIN feeds' \subseteq DOMAIN feeds,
         \A i \in DOMAIN feeds' :
           /\ feeds'[i] = [url |-> feeds[i].url, resolved |-> feeds'[i].resolved,
                           index |-> feeds'[i].index, active |-> feeds'[i].active]
           /\ feeds'[i].resolved \in {feeds[i].resolved, B!LandsAt(feeds[i].url)},
         UNCHANGED <<ids, excused>>,
         request' = request \/ \E c \in Clients : request' = [request EXCEPT ![c] = B!Idle]
  PROVE  SubscribeCore'
<1>0. /\ B!OneShowOneFeed'
      /\ ids' \in Nat /\ DOMAIN feeds' \subseteq 1..ids'
      /\ \A i \in DOMAIN feeds' :
           /\ feeds'[i].url = feeds[i].url /\ feeds'[i].url \in Urls
           /\ feeds'[i].resolved \in {None, B!LandsAt(feeds'[i].url)}
           /\ feeds'[i].resolved \in {None} \cup {B!LandsAt(a) : a \in Urls}
           /\ feeds'[i] = [url |-> feeds'[i].url, resolved |-> feeds'[i].resolved,
                           index |-> feeds'[i].index, active |-> feeds'[i].active]
  BY RowsKept
<1>1. B!Idle \in Request /\ B!Idle.seen = {} /\ B!Idle.at = "idle"
  BY DEF B!Idle, Request
<1>2. /\ request' \in [Clients -> Request]
      /\ \A c \in Clients : request'[c] = request[c] \/ request'[c] = B!Idle
  BY <1>1 DEF SubscribeCore, Rows
<1>3. Rows'
  BY <1>0, <1>1, <1>2 DEF SubscribeCore, Rows
<1>4. B!SubscribeTypeOK'
  BY <1>0, <1>2 DEF SubscribeCore, Rows, B!SubscribeConsistent, B!SubscribeTypeOK, Request
<1>5. LookedUp'
  <2>1. ASSUME NEW c \in Clients, request'[c] = B!Idle
        PROVE  request'[c].at \notin {"resolving", "inserting"}
    BY <1>1, <2>1
  <2>2. ASSUME NEW c \in Clients, request'[c] = request[c]
        PROVE  Unmet(request[c]) => Unmet(request[c])'
    <3>1. Unmet(request[c]) => Unmet(request[c])'
      <4> DEFINE r == request[c]
      <4>1. \A q : Unmet(q) => \A i \in q.seen \cap DOMAIN feeds' :
                                  B!Show(feeds'[i].url) # B!Show(q.url)
        BY RowsKept DEF Unmet, B!Show
      <4> QED BY <2>2, <4>1 DEF Unmet, B!Show
    <3> QED BY <3>1
  <2> QED BY <1>2, <2>1, <2>2 DEF SubscribeCore, LookedUp, B!Show
<1> QED BY <1>0, <1>3, <1>4, <1>5 DEF SubscribeCore, B!SubscribeConsistent

\* A row is inserted where the last lookup could see the rest, or is excused.
LEMMA SubscribeInserted ==
  ASSUME SubscribeCore, NEW c \in Clients, B!Insert(c)
  PROVE  SubscribeCore'
<1> DEFINE r == request[c]
           n == ids + 1
           new == [url |-> r.url, resolved |-> None, index |-> r.index, active |-> TRUE]
<1>0. /\ r \in Request /\ r.at = "inserting" /\ r.url \in Urls
      /\ ids \in Nat /\ DOMAIN feeds \subseteq 1..ids /\ ids < MaxFeeds /\ ids' = n
      /\ MaxFeeds \in Nat
  BY SubscribingAssumption DEF SubscribeCore, Rows, LookedUp, B!Insert
<1>1. n \notin DOMAIN feeds /\ n \in 0..MaxFeeds /\ n \in Nat /\ 1..ids \subseteq 1..n
  BY <1>0
<1>2. /\ DOMAIN feeds' = DOMAIN feeds \cup {n} /\ feeds'[n] = new
      /\ \A i \in DOMAIN feeds : feeds'[i] = feeds[i]
  BY <1>1 DEF B!Insert
<1>3. /\ excused \subseteq excused'
      /\ n \notin excused' => /\ r.resolved
                              /\ \A i \in DOMAIN feeds \ r.seen :
                                   B!Show(feeds[i].url) # B!Show(r.url)
  BY DEF B!Insert, B!Blind
<1>4. n \notin excused' => \A i \in DOMAIN feeds : B!Show(feeds[i].url) # B!Show(r.url)
  BY <1>0, <1>3 DEF SubscribeCore, LookedUp, Unmet
<1>5. B!OneShowOneFeed'
  BY <1>2, <1>3, <1>4
     DEF SubscribeCore, B!SubscribeConsistent, B!OneShowOneFeed, B!Show
<1>6. PICK q \in Request : /\ request' = [request EXCEPT ![c] = q]
                           /\ q.seen \subseteq 1..ids
                           /\ q.at \in {"idle", "refreshing"}
  <2>1. CASE r.opml
    <3>1. B!Idle \in Request /\ B!Idle.seen = {} /\ B!Idle.at = "idle"
      BY DEF B!Idle, Request
    <3> QED BY <2>1, <3>1 DEF B!Insert
  <2>2. CASE ~r.opml
    <3>1. request' = [request EXCEPT ![c] = [r EXCEPT !.at = "refreshing", !.found = n]]
      BY <2>2 DEF B!Insert
    <3>2. r.seen \subseteq 1..ids
      BY DEF SubscribeCore, Rows
    <3>3. [r EXCEPT !.at = "refreshing", !.found = n] \in Request
      BY <1>0, <1>1 DEF Request
    <3> QED BY <1>0, <3>1, <3>2, <3>3 DEF Request
  <2> QED BY <2>1, <2>2
<1>7. Rows'
  <2>1. \A i \in DOMAIN feeds' :
         /\ feeds'[i] = [url |-> feeds'[i].url, resolved |-> feeds'[i].resolved,
                         index |-> feeds'[i].index, active |-> feeds'[i].active]
         /\ feeds'[i].resolved \in {None, B!LandsAt(feeds'[i].url)}
    BY <1>2 DEF SubscribeCore, Rows
  <2>2. DOMAIN feeds' \subseteq 1..n
    BY <1>0, <1>1, <1>2
  <2> QED BY <1>0, <1>1, <1>6, <2>1, <2>2 DEF SubscribeCore, Rows
<1>8. B!SubscribeTypeOK'
  BY <1>0, <1>1, <1>2, <1>6, <1>7
     DEF SubscribeCore, Rows, B!SubscribeConsistent, B!SubscribeTypeOK, Request
<1>9. LookedUp'
  <2>1. ASSUME NEW d \in Clients, d # c
        PROVE  /\ request'[d] = request[d] /\ (Unmet(request[d]) => Unmet(request[d])')
    BY <1>0, <1>1, <1>2, <1>6, <2>1 DEF SubscribeCore, Rows, Unmet, B!Show
  <2>2. request'[c].at \notin {"resolving", "inserting"}
    BY <1>6 DEF SubscribeCore, Rows
  <2> QED BY <2>1, <2>2 DEF SubscribeCore, LookedUp, B!Show
<1> QED BY <1>5, <1>7, <1>8, <1>9 DEF SubscribeCore, B!SubscribeConsistent

LEMMA SubscribeUnresolved ==
  ASSUME SubscribeCore, NEW c \in Clients, B!Unresolved(c)
  PROVE  SubscribeCore'
<1> DEFINE q == request[c]
           r == [q EXCEPT !.at = "inserting"]
<1>1. q \in Request /\ q.at = "resolving" /\ q.url \in Urls /\ ~q.resolved
      /\ q.seen \subseteq 1..ids
  BY DEF SubscribeCore, Rows, LookedUp, B!Unresolved
<1>2. r \in Request /\ r.seen = q.seen /\ r.at = "inserting" /\ ~r.resolved /\ r.url = q.url
  BY <1>1 DEF Request
<1>3. request' = [request EXCEPT ![c] = r] /\ UNCHANGED <<feeds, ids, excused>>
  BY DEF B!Unresolved
<1> HIDE DEF r
<1> QED BY <1>1, <1>2, <1>3, RequestMoves

\* Steps that only end a request, or learn, mark or delete rows, are all of one kind.
LEMMA SubscribeRows ==
  ASSUME SubscribeCore,
         \/ \E c \in Clients : B!Existing(c) \/ B!Refused(c) \/ B!FirstRefresh(c)
         \/ \E i \in DOMAIN feeds : B!ScheduledRefresh(i) \/ B!Deactivate(i) \/ B!Delete(i)
  PROVE  SubscribeCore'
<1> DEFINE Kept == \A i \in DOMAIN feeds' :
             /\ i \in DOMAIN feeds
             /\ feeds'[i] = [url |-> feeds[i].url, resolved |-> feeds'[i].resolved,
                             index |-> feeds'[i].index, active |-> feeds'[i].active]
             /\ feeds'[i].resolved \in {feeds[i].resolved, B!LandsAt(feeds[i].url)}
<1>0. \A i \in DOMAIN feeds :
        feeds[i] = [url |-> feeds[i].url, resolved |-> feeds[i].resolved,
                    index |-> feeds[i].index, active |-> feeds[i].active]
  BY DEF SubscribeCore, Rows
<1>1. ASSUME NEW c \in Clients, B!Existing(c) PROVE Kept
  <2> DEFINE r == request[c]
  <2>1. \A i \in DOMAIN feeds : i # r.found => feeds'[i] = feeds[i]
    BY <1>1 DEF B!Existing
  <2>2. DOMAIN feeds' = DOMAIN feeds /\ r.found \in DOMAIN feeds
    BY <1>1 DEF B!Existing
  <2> DEFINE f == feeds[r.found]
  <2>3. f = [url |-> f.url, resolved |-> f.resolved, index |-> f.index, active |-> f.active]
    BY <1>0, <2>2
  <2>4. PICK n : feeds' = [feeds EXCEPT ![r.found] = [[f EXCEPT !.active = TRUE] EXCEPT !.index = n]]
    BY <1>1, <2>2 DEF B!Existing
  <2>5. feeds'[r.found] = [url |-> f.url, resolved |-> f.resolved, index |-> n, active |-> TRUE]
    BY <2>2, <2>3, <2>4
  <2> QED BY <1>0, <2>1, <2>2, <2>5
<1>2. ASSUME NEW c \in Clients, B!Refused(c) PROVE Kept
  BY <1>0, <1>2 DEF B!Refused
<1>3. ASSUME NEW i \in DOMAIN feeds, feeds' = B!Learnt(i) PROVE Kept
  BY <1>0, <1>3 DEF B!Learnt
<1>4. ASSUME NEW c \in Clients, B!FirstRefresh(c) PROVE Kept
  BY <1>0, <1>3, <1>4 DEF B!FirstRefresh
<1>5. ASSUME NEW i \in DOMAIN feeds, B!ScheduledRefresh(i) PROVE Kept
  BY <1>3, <1>5 DEF B!ScheduledRefresh
<1>6. ASSUME NEW i \in DOMAIN feeds, B!Deactivate(i) PROVE Kept
  <2> DEFINE f == feeds[i]
  <2>1. PICK no : no = FALSE /\ feeds' = [feeds EXCEPT ![i] = [f EXCEPT !.active = no]]
    BY <1>6 DEF B!Deactivate
  <2>2. feeds'[i] = [url |-> f.url, resolved |-> f.resolved, index |-> f.index, active |-> no]
    <3>1. f = [url |-> f.url, resolved |-> f.resolved, index |-> f.index, active |-> f.active]
      BY <1>0
    <3>2. [f EXCEPT !.active = no]
            = [url |-> f.url, resolved |-> f.resolved, index |-> f.index, active |-> no]
      BY <3>1
    <3> QED BY <2>1, <3>2
  <2> QED BY <1>0, <2>1, <2>2
<1>7. ASSUME NEW i \in DOMAIN feeds, B!Delete(i) PROVE Kept
  BY <1>0, <1>7 DEF B!Delete
<1>8. Kept
  BY <1>1, <1>2, <1>4, <1>5, <1>6, <1>7
<1>9. /\ UNCHANGED <<ids, excused>>
      /\ request' = request \/ \E c \in Clients : request' = [request EXCEPT ![c] = B!Idle]
  BY DEF B!Existing, B!Refused, B!FirstRefresh, B!ScheduledRefresh, B!Deactivate, B!Delete
<1> QED BY <1>8, <1>9, RowsMove

LEMMA SubscribeStep == SubscribeCore /\ B!Next => SubscribeCore'
<1> SUFFICES ASSUME SubscribeCore, B!Next PROVE SubscribeCore'
  OBVIOUS
<1>1. ASSUME NEW c \in Clients, NEW a \in Urls,
             \/ B!Subscribe(c, a, None, FALSE) \/ B!Subscribe(c, a, None, TRUE)
             \/ B!Subscribe(c, a, B!Show(a), FALSE)
      PROVE  SubscribeCore'
  BY <1>1, SubscribeAsked
<1> QED BY <1>1, SubscribeResolved, SubscribeUnresolved, SubscribeInserted, SubscribeRows
        DEF B!Next

\* subscribe.py: with any addresses, redirects and clients, one show is one row but for
\* the three cases that OneShowOneFeed excuses.
THEOREM SubscribesOnce == Spec => []SubscribeConsistent
<1> DEFINE Inv == whose = "subscribing" => SubscribeCore
<1>1. Init => Inv
  BY SubscribeInit DEF Init
<1>2. Inv /\ [Next]_vars => Inv'
  <2> SUFFICES ASSUME Inv, [Next]_vars, whose' = "subscribing" PROVE SubscribeCore'
    OBVIOUS
  <2>1. CASE Next
    BY <2>1, SubscribeStep, WhoseStays
       DEF Next, OnlyProcessing, OnlyTimeline, OnlyServing, OnlyRefreshing, OnlySignIn,
           OnlyQueue, OnlyArtwork, OnlyNotifying
  <2>2. CASE vars' = vars
    BY <2>2 DEF vars, subscribingVars, SubscribeCore, B!SubscribeConsistent,
         B!SubscribeTypeOK, B!OneShowOneFeed, Rows, LookedUp, Unmet, B!Show
  <2> QED BY <2>1, <2>2
<1>3. Inv => SubscribeConsistent
  BY DEF SubscribeCore, SubscribeConsistent
<1> QED BY <1>1, <1>2, <1>3, PTL DEF Spec

-----------------------------------------------------------------------------
(* Artwork                                                                  *)

ArtTask == [at : {"idle", "waiting", "fetching", "fetched", "writing"},
            lock : A!Locks \cup {None}, seen : A!Row \cup {None}, new : A!Row \cup {None}]
InFlight(r) == task[r].at \in {"fetching", "fetched"}

ArtShapes ==
  /\ picture \in Formats \cup {None}
  /\ row \in A!Row \cup {None} /\ file \subseteq Formats /\ table \in A!Locks \cup {None}
  /\ task \in [Requests -> ArtTask]
  /\ \A r \in Requests :
       /\ task[r].at = "idle" => task[r] = A!Idle
       /\ task[r].at = "writing" => task[r] = [at |-> "writing", lock |-> None, seen |-> None,
                                              new |-> A!Registered]
       /\ task[r].at = "waiting" => task[r].lock # None
       /\ InFlight(r) => task[r].lock # None /\ task[r].new # None
       /\ task[r].seen # None => row # None

Fresh == row # None /\ ~A!Due(row)

\* Whoever has a lock that left the table finds the row fresh; whoever fetches has the one in
\* the table, and the row, unless the row was registered meanwhile.
LocksOK ==
  /\ \A r \in Requests :
       /\ task[r].at = "waiting" /\ task[r].lock # table => Fresh
       /\ task[r].at = "waiting" /\ task[r].seen # None => task[r].seen = row \/ Fresh
       /\ InFlight(r) => task[r].lock = table /\ task[r].seen \in {None, row}
       /\ task[r].at = "fetching" => A!Due(row)
       /\ task[r].at = "fetched" => ~A!Due(task[r].new)
  /\ \A r, q \in Requests : InFlight(r) /\ InFlight(q) => r = q

FormatOf(entry) == IF entry = None THEN None ELSE entry.format

\* What is on disk is named by the row, or will be by a request that has fetched it.
PicturesOK ==
  /\ FormatOf(row) \in {None} \cup file
  /\ \A r \in Requests :
       /\ task[r].seen # None => /\ FormatOf(task[r].seen) \in {None} \cup file
                                /\ row.format \in {FormatOf(task[r].seen)} \cup file
       /\ task[r].at = "fetching" => task[r].new.format = FormatOf(task[r].seen)
       /\ task[r].at = "fetched" => task[r].new.format \in {FormatOf(task[r].seen)} \cup file
  /\ file # {} => \/ row # None /\ row.format \in file
                  \/ \E r \in Requests : task[r].at = "fetched" /\ task[r].new.format \in file

ArtCore == /\ ArtShapes
           /\ ~refused /\ ~early => LocksOK
           /\ ~refused => PicturesOK

LEMMA ArtTasks == /\ A!Idle \in ArtTask /\ A!Idle.at = "idle" /\ A!Idle.lock = None
                  /\ A!Idle.seen = None /\ A!Idle.new = None
                  /\ A!Registered \in A!Row /\ A!Registered # None
                  /\ A!Registered.format = None /\ ~A!Registered.failed /\ A!Due(A!Registered)
<1>1. A!Registered \in A!Row /\ A!Registered.format = None /\ ~A!Registered.failed
  BY DEF A!Registered, A!Row
<1>2. A!Registered # None
  BY <1>1, ArtworkAssumption
<1>3. A!Due(A!Registered)
  BY <1>1, <1>2 DEF A!Due, A!Cached
<1> QED BY <1>1, <1>2, <1>3 DEF A!Idle, ArtTask

LEMMA ArtInit == A!Init => ArtCore
<1> SUFFICES ASSUME A!Init PROVE ArtCore
  OBVIOUS
<1>1. /\ row = None /\ file = {} /\ table = None /\ \A r \in Requests : task[r] = A!Idle
      /\ task \in [Requests -> ArtTask] /\ picture \in Formats \cup {None}
  BY ArtTasks DEF A!Init
<1>2. ArtShapes
  BY <1>1, ArtTasks DEF ArtShapes, InFlight
<1>3. LocksOK
  BY <1>1, ArtTasks DEF LocksOK, InFlight
<1>4. PicturesOK
  BY <1>1, ArtTasks DEF PicturesOK, FormatOf
<1> QED BY <1>2, <1>3, <1>4 DEF ArtCore

\* A row, and the same row when time has passed.
LEMMA OlderRow ==
  ASSUME NEW e \in A!Row \cup {None}
  PROVE  /\ A!Older(e) \in A!Row \cup {None} /\ (A!Older(e) = None <=> e = None)
         /\ FormatOf(A!Older(e)) = FormatOf(e)
         /\ A!Due(e) => A!Due(A!Older(e))
<1>1. CASE e = None \/ e.age = None \/ e.age = RevalidateAfter
  BY <1>1 DEF A!Older
<1>2. CASE ~(e = None \/ e.age = None \/ e.age = RevalidateAfter)
  <2> DEFINE n == e.age + 1
  <2>1. e \in A!Row /\ e.age \in Nat /\ n \in 0..RevalidateAfter
    BY <1>2, ArtworkAssumption DEF A!Row
  <2>2. A!Older(e) = [e EXCEPT !.age = n]
    BY <1>2 DEF A!Older
  <2>3. n >= e.age
    BY <2>1
  <2> HIDE DEF n
  <2>4. A!Older(e) = [format |-> e.format, age |-> n, failed |-> e.failed]
    BY <2>1, <2>2 DEF A!Row
  <2>5. A!Older(e) \in A!Row
    BY <2>1, <2>4 DEF A!Row
  <2>6. A!Older(e) # None /\ e # None
    BY <2>5, <1>2, ArtworkAssumption
  <2>7. /\ A!Older(e).format = e.format /\ A!Older(e).age = n /\ A!Older(e).failed = e.failed
    BY <2>4
  <2>8. A!Due(e) => A!Due(A!Older(e))
    <3> SUFFICES ASSUME A!Due(e) PROVE A!Due(A!Older(e))
      OBVIOUS
    <3>1. ~A!Cached(e) /\ ~A!Cached(A!Older(e))
      BY <1>2, <2>6, <2>7 DEF A!Due, A!Cached
    <3>2. e.failed => n >= RetryAfter
      BY <2>1, <2>3, <2>6, ArtworkAssumption DEF A!Due
    <3> QED BY <2>6, <2>7, <3>1, <3>2 DEF A!Due
  <2> QED BY <2>5, <2>6, <2>7, <2>8 DEF FormatOf
<1> QED BY <1>1, <1>2

LEMMA ArtTick ==
  ASSUME ArtCore, A!Tick
  PROVE  ArtCore'
<1>1. /\ UNCHANGED <<picture, file, table, early, refused>> /\ row' = A!Older(row)
      /\ \A r \in Requests :
           \/ task[r].at \in {"idle", "fetching"}
           \/ task[r].at = "waiting" /\ A!Held(task[r].lock)
  BY DEF A!Tick
<1>2. ASSUME NEW r \in Requests
      PROVE  /\ task'[r] = [at |-> task[r].at, lock |-> task[r].lock,
                            seen |-> A!Older(task[r].seen), new |-> A!Older(task[r].new)]
             /\ task'[r].at = task[r].at /\ task'[r].lock = task[r].lock
             /\ task'[r].seen = A!Older(task[r].seen) /\ task'[r].new = A!Older(task[r].new)
             /\ task[r] \in ArtTask
             /\ task[r].seen \in A!Row \cup {None} /\ task[r].new \in A!Row \cup {None}
  BY DEF A!Tick, ArtCore, ArtShapes, ArtTask
<1>3. /\ row' \in A!Row \cup {None} /\ (row' = None <=> row = None)
      /\ FormatOf(row') = FormatOf(row) /\ (A!Due(row) => A!Due(row)')
  <2>1. row \in A!Row \cup {None}
    BY DEF ArtCore, ArtShapes
  <2> QED BY <1>1, <2>1, OlderRow DEF A!Due, A!Cached
<1>4. ASSUME NEW r \in Requests
      PROVE  /\ task'[r].seen \in A!Row \cup {None} /\ task'[r].new \in A!Row \cup {None}
             /\ (task'[r].seen = None <=> task[r].seen = None)
             /\ (task'[r].new = None <=> task[r].new = None)
             /\ FormatOf(task'[r].seen) = FormatOf(task[r].seen)
             /\ FormatOf(task'[r].new) = FormatOf(task[r].new)
  BY <1>2, OlderRow
<1>5. ArtShapes'
  <2>1. task' \in [Requests -> ArtTask]
    <3>1. ASSUME NEW r \in Requests PROVE task'[r] \in ArtTask
      <4>1. /\ task[r].at \in {"idle", "waiting", "fetching", "fetched", "writing"}
            /\ task[r].lock \in A!Locks \cup {None}
        BY <1>2 DEF ArtTask
      <4> DEFINE seen == A!Older(task[r].seen)
                 new == A!Older(task[r].new)
      <4>2. seen \in A!Row \cup {None} /\ new \in A!Row \cup {None}
        BY <1>2, <1>4
      <4>3. task'[r] = [at |-> task[r].at, lock |-> task[r].lock, seen |-> seen, new |-> new]
        BY <1>2
      <4> HIDE DEF seen, new
      <4> QED BY <4>1, <4>2, <4>3 DEF ArtTask
    <3> QED BY <3>1 DEF A!Tick
  <2>2. ASSUME NEW r \in Requests, task'[r].at = "idle" PROVE task'[r] = A!Idle
    <3>1. task[r] = A!Idle
      BY <1>2, <2>2 DEF ArtCore, ArtShapes
    <3>2. A!Older(None) = None
      BY DEF A!Older
    <3> QED BY <1>2, <3>1, <3>2 DEF A!Idle
  <2> QED BY <1>1, <1>2, <1>3, <1>4, <2>1, <2>2 DEF ArtCore, ArtShapes, InFlight
<1>6. ASSUME ~refused, ~early PROVE LocksOK'
  <2> USE <1>6
  <2>1. LocksOK
    BY DEF ArtCore
  <2>2. ASSUME NEW r \in Requests, task[r].at = "waiting"
        PROVE  task[r].lock = table /\ A!Due(row)
    <3>1. PICK q \in Requests : task[q].at = "fetching" /\ task[q].lock = task[r].lock
      BY <1>1, <2>2 DEF A!Held
    <3> QED BY <2>1, <3>1 DEF LocksOK, InFlight
  <2>3. ~Fresh <=> row = None \/ A!Due(row)
    BY DEF Fresh
  <2>4. ASSUME NEW r \in Requests
        PROVE  /\ task'[r].at = "waiting" => task'[r].lock = table'
               /\ task'[r].at = "waiting" /\ task'[r].seen # None => task'[r].seen = row'
               /\ InFlight(r)' => task'[r].lock = table' /\ task'[r].seen \in {None, row'}
               /\ task'[r].at = "fetching" => A!Due(row)'
               /\ task'[r].at # "fetched"
    <3>1. task[r].seen = row \/ task[r].seen = None \/ task[r].at \notin {"waiting", "fetching"}
      BY <2>1, <2>2, <2>3 DEF LocksOK, InFlight
    <3>2. A!Older(None) = None
      BY DEF A!Older
    <3> QED BY <1>1, <1>2, <1>3, <2>1, <2>2, <3>1, <3>2 DEF LocksOK, InFlight
  <2> QED BY <1>2, <2>1, <2>4 DEF LocksOK, InFlight
<1>7. ASSUME ~refused PROVE PicturesOK'
  <2>1. PicturesOK
    BY <1>7 DEF ArtCore
  <2>2. ASSUME NEW r \in Requests, task[r].at \in {"fetching", "fetched"}
        PROVE  task'[r].new.format = task[r].new.format
    BY <1>2, <1>4, <2>2 DEF FormatOf, ArtCore, ArtShapes, InFlight
  <2> QED BY <1>1, <1>2, <1>3, <1>4, <2>1, <2>2 DEF PicturesOK, FormatOf
<1> QED BY <1>1, <1>5, <1>6, <1>7 DEF ArtCore

LEMMA ArtChanges ==
  ASSUME ArtCore, \/ \E p \in Formats \cup {None} : A!Change(p)
                  \/ UNCHANGED <<picture, row, file, table, task, early, refused>>
  PROVE  ArtCore'
<1>1. UNCHANGED <<row, file, table, task, early, refused>> /\ picture' \in Formats \cup {None}
  BY DEF A!Change, ArtCore, ArtShapes
<1>2. \A e : A!Due(e)' <=> A!Due(e)
  BY <1>1 DEF A!Due, A!Cached
<1>3. ArtShapes'
  BY <1>1 DEF ArtCore, ArtShapes, InFlight
<1>4. LocksOK => LocksOK'
  BY <1>1 DEF LocksOK, Fresh, InFlight, A!Due, A!Cached
<1>5. PicturesOK => PicturesOK'
  BY <1>1 DEF PicturesOK, FormatOf
<1> QED BY <1>1, <1>3, <1>4, <1>5 DEF ArtCore

LEMMA Moved ==
  ASSUME ArtCore, NEW r \in Requests, NEW to \in ArtTask, task' = [task EXCEPT ![r] = to],
         row' \in A!Row \cup {None}, file' \subseteq Formats, table' \in A!Locks \cup {None},
         UNCHANGED picture,
         to.at = "idle" => to = A!Idle,
         to.at = "writing" => to = [at |-> "writing", lock |-> None, seen |-> None,
                                    new |-> A!Registered],
         to.at = "waiting" => to.lock # None,
         to.at \in {"fetching", "fetched"} => to.lock # None /\ to.new # None,
         to.seen # None \/ row # None => row' # None
  PROVE  /\ ArtShapes' /\ task'[r] = to /\ \A q \in Requests \ {r} : task'[q] = task[q]
<1>1. task'[r] = to /\ (\A q \in Requests \ {r} : task'[q] = task[q])
      /\ task' \in [Requests -> ArtTask]
  BY DEF ArtCore, ArtShapes
<1> QED BY <1>1 DEF ArtCore, ArtShapes, InFlight

LEMMA ArtRegisters ==
  ASSUME ArtCore, NEW r \in Requests, A!Register(r)
  PROVE  ArtCore'
<1> DEFINE to == [at |-> "writing", lock |-> None, seen |-> None, new |-> A!Registered]
<1>1. /\ task[r].at = "idle" /\ row = None /\ task' = [task EXCEPT ![r] = to]
      /\ UNCHANGED <<picture, row, file, table, early, refused>>
  BY DEF A!Register
<1>2. to \in ArtTask /\ to.at = "writing" /\ to.seen = None
  BY ArtTasks DEF ArtTask
<1>3. to = [at |-> "writing", lock |-> None, seen |-> None, new |-> A!Registered]
  OBVIOUS
<1> HIDE DEF to
<1>4. /\ ArtShapes' /\ task'[r] = to /\ \A q \in Requests \ {r} : task'[q] = task[q]
  <2>1. row \in A!Row \cup {None} /\ file \subseteq Formats /\ table \in A!Locks \cup {None}
    BY DEF ArtCore, ArtShapes
  <2> QED BY <1>1, <1>2, <1>3, <2>1, Moved
<1>5. LocksOK => LocksOK'
  BY <1>1, <1>2, <1>4 DEF LocksOK, Fresh, InFlight, A!Due, A!Cached
<1>6. PicturesOK => PicturesOK'
  BY <1>1, <1>2, <1>4 DEF PicturesOK, FormatOf
<1> QED BY <1>1, <1>4, <1>5, <1>6 DEF ArtCore

\* There is a lock that nobody has: the others have at most one each.
LEMMA NewLockExists ==
  ASSUME ArtCore, NEW r \in Requests, task[r].lock = None
  PROVE  A!NewLock \in A!Locks
<1> DEFINE held == {task[q].lock : q \in Requests \ {r}}
           n == Cardinality(Requests)
<1>1. IsFiniteSet(Requests) /\ n \in Nat
  BY ArtworkAssumption, FS_CardinalityType
<1>2. IsFiniteSet(Requests \ {r}) /\ Cardinality(Requests \ {r}) = n - 1
  BY <1>1, FS_RemoveElement
<1>3. IsFiniteSet(held) /\ Cardinality(held) <= n - 1
  <2> DEFINE f == [q \in Requests \ {r} |-> task[q].lock]
  <2>1. f \in Surjection(Requests \ {r}, held)
    BY DEF Surjection
  <2> HIDE DEF f, held
  <2> QED BY <1>2, <2>1, FS_Surjection
<1>4. IsFiniteSet(A!Locks) /\ Cardinality(A!Locks) = n
  <2>1. A!Locks = 1..n
    BY DEF A!Locks, A!Cardinality, Cardinality
  <2> HIDE DEF n
  <2>2. 1 \in Int /\ n \in Int
    BY <1>1
  <2>3. IsFiniteSet(1..n) /\ Cardinality(1..n) = IF 1 > n THEN 0 ELSE n - 1 + 1
    BY <2>2, FS_Interval
  <2> QED BY <1>1, <2>1, <2>3
<1>5. ~(A!Locks \subseteq held)
  <2>1. CASE A!Locks \subseteq held
    <3>1. Cardinality(A!Locks) <= Cardinality(held)
      BY <1>3, <2>1, FS_Subset
    <3>2. Cardinality(held) \in Nat
      BY <1>3, FS_CardinalityType
    <3> HIDE DEF held, n
    <3> QED BY <1>1, <1>3, <1>4, <3>1, <3>2
  <2> QED BY <2>1
<1>6. PICK l \in A!Locks : l \notin held
  BY <1>5
<1>7. \A q \in Requests : task[q].lock # l
  BY <1>6, ArtworkAssumption
<1> QED BY <1>7 DEF A!NewLock

LEMMA ArtWaits ==
  ASSUME ArtCore, NEW r \in Requests, A!EnsureArtwork(r) \/ A!ArtworkByHash(r)
  PROVE  ArtCore'
<1>1. PICK loaded \in {None, row} : A!Wait(r, loaded) /\ (loaded # None => row # None)
  BY DEF A!EnsureArtwork, A!ArtworkByHash
<1> DEFINE lock == IF table = None THEN A!NewLock ELSE table
           to == [at |-> "waiting", lock |-> lock, seen |-> loaded, new |-> None]
<1>2. /\ task[r].at = "idle" /\ table' = lock /\ task' = [task EXCEPT ![r] = to]
      /\ UNCHANGED <<picture, row, file, early, refused>>
  BY <1>1 DEF A!Wait
<1>3. lock \in A!Locks /\ lock # None
  <2>1. task[r] = A!Idle
    BY <1>2 DEF ArtCore, ArtShapes
  <2>2. A!NewLock \in A!Locks
    BY <2>1, ArtTasks, NewLockExists
  <2> QED BY <2>2, ArtworkAssumption DEF ArtCore, ArtShapes
<1>4. table # None => lock = table
  OBVIOUS
<1> HIDE DEF lock
<1>5. /\ to \in ArtTask /\ to.at = "waiting" /\ to.lock = lock /\ to.seen = loaded
      /\ row \in A!Row \cup {None} /\ file \subseteq Formats
  BY <1>3 DEF ArtTask, ArtCore, ArtShapes
<1> HIDE DEF to
<1>6. /\ ArtShapes' /\ task'[r] = to /\ \A q \in Requests \ {r} : task'[q] = task[q]
  BY <1>2, <1>3, <1>5, Moved
<1>7. LocksOK => LocksOK'
  BY <1>2, <1>3, <1>4, <1>5, <1>6
  DEF LocksOK, Fresh, InFlight, A!Due, A!Cached, ArtCore, ArtShapes
<1>8. PicturesOK => PicturesOK'
  BY <1>1, <1>2, <1>5, <1>6 DEF PicturesOK, FormatOf
<1> QED BY <1>2, <1>6, <1>7, <1>8 DEF ArtCore

\* One that is done: it has no lock, and drops the one it had from the table.
LEMMA Leaves ==
  ASSUME ArtCore, NEW r \in Requests, A!Left(r), row' \in A!Row \cup {None},
         row # None => row' # None, UNCHANGED <<picture, file>>
  PROVE  /\ ArtShapes' /\ task'[r] = A!Idle /\ \A q \in Requests \ {r} : task'[q] = task[q]
         /\ table' = IF table = task[r].lock THEN None ELSE table
<1>1. /\ task' = [task EXCEPT ![r] = A!Idle]
      /\ table' = IF table = task[r].lock THEN None ELSE table
  BY DEF A!Left
<1>2. table' \in A!Locks \cup {None} /\ file' \subseteq Formats
  BY <1>1 DEF ArtCore, ArtShapes
<1> QED BY <1>1, <1>2, ArtTasks, Moved

LEMMA NoneIsDue == A!Due(None)
BY DEF A!Due

LEMMA ArtReturns ==
  ASSUME ArtCore, NEW r \in Requests, A!Return(r)
  PROVE  ArtCore'
<1>1. /\ task[r].at = "waiting" /\ ~A!Held(task[r].lock) /\ ~A!Due(A!Entry(r)) /\ A!Left(r)
      /\ UNCHANGED <<picture, row, file, early, refused>>
  BY DEF A!Return
<1>2. /\ ArtShapes' /\ task'[r] = A!Idle /\ (\A q \in Requests \ {r} : task'[q] = task[q])
      /\ table' = IF table = task[r].lock THEN None ELSE table
  BY <1>1, Leaves DEF ArtCore, ArtShapes
<1>3. ASSUME LocksOK PROVE LocksOK'
  <2>1. Fresh
    BY <1>1, <1>3, NoneIsDue DEF A!Entry, LocksOK, Fresh
  <2>2. \A q \in Requests : InFlight(q) => task[q].lock # task[r].lock
    BY <1>1 DEF A!Held, InFlight
  <2>3. Fresh' /\ (A!Due(row)' <=> A!Due(row))
    BY <1>1, <2>1 DEF Fresh, A!Due, A!Cached
  <2>4. ASSUME NEW q \in Requests, q # r, InFlight(q)
        PROVE  task'[q].lock = table' /\ task'[q].seen \in {None, row'}
    BY <1>1, <1>2, <1>3, <2>2, <2>4 DEF LocksOK
  <2>5. ASSUME NEW q \in Requests
        PROVE  /\ task'[q].at = "fetched" => ~A!Due(task[q].new)'
               /\ task'[q].at = "fetching" => A!Due(row)'
               /\ InFlight(q)' => InFlight(q) /\ q # r
    BY <1>1, <1>2, <1>3, <2>3, ArtTasks DEF LocksOK, A!Due, A!Cached, InFlight
  <2> QED BY <1>2, <1>3, <2>3, <2>4, <2>5 DEF LocksOK, InFlight
<1>4. PicturesOK => PicturesOK'
  BY <1>1, <1>2, ArtTasks DEF PicturesOK, FormatOf
<1> QED BY <1>1, <1>2, <1>3, <1>4 DEF ArtCore

LEMMA ArtFetches ==
  ASSUME ArtCore, NEW r \in Requests, A!Fetch(r)
  PROVE  ArtCore'
<1> DEFINE entry == A!Entry(r)
           new == IF entry = None THEN A!Registered ELSE entry
           to == [at |-> "fetching", lock |-> task[r].lock, seen |-> entry, new |-> new]
<1>1. /\ task[r].at = "waiting" /\ ~A!Held(task[r].lock) /\ A!Due(entry)
      /\ task' = [task EXCEPT ![r] = to] /\ (early' <=> early \/ task[r].seen # None)
      /\ UNCHANGED <<picture, row, file, table, refused>>
  BY DEF A!Fetch
<1>2. /\ entry \in {task[r].seen, row} /\ entry \in A!Row \cup {None}
      /\ task[r].seen = None => entry = row
      /\ entry # None => row # None
      /\ row \in A!Row \cup {None} /\ file \subseteq Formats /\ table \in A!Locks \cup {None}
      /\ task[r].lock \in A!Locks /\ task[r].lock # None
  BY <1>1 DEF A!Entry, ArtCore, ArtShapes, ArtTask
<1>3. new \in A!Row /\ new # None /\ new.format = FormatOf(entry)
  BY <1>2, ArtTasks, ArtworkAssumption DEF FormatOf
<1> HIDE DEF entry, new
<1>4. to \in ArtTask /\ to.at = "fetching" /\ to.lock = task[r].lock /\ to.seen = entry /\ to.new = new
  BY <1>2, <1>3 DEF ArtTask
<1> HIDE DEF to
<1>5. /\ ArtShapes' /\ task'[r] = to /\ \A q \in Requests \ {r} : task'[q] = task[q]
  BY <1>1, <1>2, <1>3, <1>4, Moved
<1>6. ASSUME LocksOK, ~early' PROVE LocksOK' /\ ~early
  <2>1. ~early /\ entry = row /\ ~Fresh
    BY <1>1, <1>2, <1>6 DEF Fresh
  <2>2. task[r].lock = table
    BY <1>1, <1>6, <2>1 DEF LocksOK
  <2>3. \A q \in Requests : ~InFlight(q)
    BY <1>1, <1>6, <2>2 DEF A!Held, InFlight, LocksOK
  <2>4. A!Due(row)' /\ (Fresh' <=> Fresh)
    BY <1>1, <2>1 DEF A!Due, A!Cached, Fresh
  <2> QED BY <1>1, <1>4, <1>5, <1>6, <2>1, <2>2, <2>3, <2>4 DEF LocksOK, InFlight
<1>7. PicturesOK => PicturesOK'
  BY <1>1, <1>2, <1>3, <1>4, <1>5 DEF PicturesOK, FormatOf
<1> QED BY <1>1, <1>5, <1>6, <1>7 DEF ArtCore

\* The fetch has ended: what it came with is not due, and is named like what was there or on disk.
LEMMA Ends ==
  ASSUME ArtCore, NEW r \in Requests, task[r].at = "fetching", NEW new \in A!Row,
         A!Fetched(r, new), UNCHANGED <<picture, row, table, early, refused>>,
         file \subseteq file', file' \subseteq Formats, ~A!Due(new)',
         new.format \in {task[r].new.format} \cup file',
         file' # file => new.format \in file'
  PROVE  ArtCore'
<1> DEFINE to == [at |-> "fetched", lock |-> task[r].lock, seen |-> task[r].seen, new |-> new]
<1>1. /\ task' = [task EXCEPT ![r] = to] /\ task[r].lock # None /\ new # None
      /\ task[r].seen # None => row # None
      /\ row \in A!Row \cup {None} /\ file \subseteq Formats /\ table \in A!Locks \cup {None}
  BY ArtworkAssumption DEF A!Fetched, ArtCore, ArtShapes, InFlight
<1>2. /\ to \in ArtTask /\ to.at = "fetched" /\ to.lock = task[r].lock /\ to.seen = task[r].seen
      /\ to.new = new
  BY DEF ArtTask, ArtCore, ArtShapes
<1> HIDE DEF to
<1>3. /\ ArtShapes' /\ task'[r] = to /\ \A q \in Requests \ {r} : task'[q] = task[q]
  BY <1>1, <1>2, Moved
<1>4. ASSUME LocksOK PROVE LocksOK'
  <2>1. Fresh => Fresh'
    BY <1>1 DEF Fresh, A!Due, A!Cached
  <2>2. \A q \in Requests \ {r} : ~InFlight(q)
    BY <1>4 DEF LocksOK, InFlight
  <2> QED BY <1>2, <1>3, <1>4, <2>1, <2>2 DEF LocksOK, InFlight, A!Due, A!Cached
<1>5. PicturesOK => PicturesOK'
  <2> SUFFICES ASSUME PicturesOK PROVE PicturesOK'
    OBVIOUS
  <2>1. new.format \in {FormatOf(task[r].seen)} \cup file'
    BY DEF PicturesOK
  <2>2. ASSUME file' # {}
        PROVE  \/ row # None /\ row.format \in file'
               \/ \E q \in Requests : task'[q].at = "fetched" /\ task'[q].new.format \in file'
    <3>1. CASE file' # file
      BY <1>2, <1>3, <3>1
    <3>2. CASE file' = file
      BY <1>2, <1>3, <2>2, <3>2 DEF PicturesOK
    <3> QED BY <3>1, <3>2
  <2> QED BY <1>2, <1>3, <2>1, <2>2 DEF PicturesOK, FormatOf
<1> QED BY <1>3, <1>4, <1>5 DEF ArtCore

LEMMA ArtGets ==
  ASSUME ArtCore, NEW r \in Requests, A!Got(r)
  PROVE  ArtCore'
<1>0. PICK new : new = [format |-> picture, age |-> 0, failed |-> FALSE]
  OBVIOUS
<1>1. /\ task[r].at = "fetching" /\ picture \in Formats /\ picture # None
      /\ file' = file \cup {picture} /\ A!Fetched(r, new)
      /\ UNCHANGED <<picture, row, table, early, refused>> /\ file \subseteq Formats
  BY <1>0 DEF A!Got, ArtCore, ArtShapes
<1>2. new \in A!Row /\ new.format = picture /\ new.age = 0
  BY <1>0, <1>1, ArtworkAssumption DEF A!Row
<1>3. ~A!Due(new)'
  BY <1>1, <1>2, ArtworkAssumption DEF A!Due, A!Cached
<1> QED BY <1>1, <1>2, <1>3, Ends

LEMMA ArtFails ==
  ASSUME ArtCore, NEW r \in Requests, A!Failed(r)
  PROVE  ArtCore'
<1>0. PICK new : new = [format |-> task[r].new.format, age |-> 0, failed |-> TRUE]
  OBVIOUS
<1>1. /\ task[r].at = "fetching" /\ A!Fetched(r, new)
      /\ UNCHANGED <<picture, row, file, table, early, refused>>
      /\ file \subseteq Formats /\ task[r].new \in A!Row
  BY <1>0 DEF A!Failed, ArtCore, ArtShapes, ArtTask, InFlight
<1>2. new \in A!Row /\ new.format = task[r].new.format /\ new.age = 0 /\ new.failed
  BY <1>0, <1>1, ArtworkAssumption DEF A!Row
<1>3. ~A!Due(new)'
  BY <1>1, <1>2, ArtworkAssumption DEF A!Due
<1> QED BY <1>1, <1>2, <1>3, Ends

\* The row that a commit leaves: all of the new one, if nobody has changed what was seen.
LEMMA WrittenRow ==
  ASSUME ArtCore, NEW r \in Requests, A!Writing(r)
  PROVE  LET t == task[r]  w == A!Written(t) IN
         /\ t.new \in A!Row /\ w \in A!Row
         /\ t.seen \in {None, row} /\ (t.seen = None => row = None) => w = t.new
         /\ t.seen # None => w.format = IF t.new.format # t.seen.format THEN t.new.format ELSE row.format
<1> DEFINE t == task[r]
<1>1. /\ t.new \in A!Row /\ t.seen \in A!Row \cup {None} /\ row \in A!Row \cup {None}
      /\ t.seen # None => row # None
  BY ArtTasks DEF ArtCore, ArtShapes, ArtTask, InFlight, A!Writing
<1> HIDE DEF t
<1>2. CASE t.seen = None
  BY <1>1, <1>2 DEF A!Written, t
<1>3. CASE t.seen # None
  <2>1. t.seen \in A!Row /\ row \in A!Row
    BY <1>1, <1>3
  <2>2. DOMAIN row = {"format", "age", "failed"}
    BY <2>1 DEF A!Row
  <2> DEFINE f == IF t.new.format # t.seen.format THEN t.new.format ELSE row.format
             a == IF t.new.age # t.seen.age THEN t.new.age ELSE row.age
             x == IF t.new.failed # t.seen.failed THEN t.new.failed ELSE row.failed
  <2>3. A!Written(t) = [format |-> f, age |-> a, failed |-> x]
    <3>1. A!Written(t) = [c \in {"format", "age", "failed"} |->
                            IF t.new[c] # t.seen[c] THEN t.new[c] ELSE row[c]]
      BY <1>3, <2>2 DEF A!Written
    <3> QED BY <3>1
  <2>4. /\ f \in Formats \cup {None} /\ a \in (0..RevalidateAfter) \cup {None} /\ x \in BOOLEAN
    BY <1>1, <2>1 DEF A!Row
  <2>5. t.seen = row => f = t.new.format /\ a = t.new.age /\ x = t.new.failed
    OBVIOUS
  <2>6. t.new = [format |-> t.new.format, age |-> t.new.age, failed |-> t.new.failed]
    BY <1>1 DEF A!Row
  <2>7. f = IF t.new.format # t.seen.format THEN t.new.format ELSE row.format
    OBVIOUS
  <2> HIDE DEF f, a, x
  <2>8. A!Written(t) \in A!Row /\ A!Written(t).format = f
    BY <2>3, <2>4 DEF A!Row
  <2>9. t.seen = row => A!Written(t) = t.new
    BY <2>3, <2>5, <2>6
  <2> QED BY <1>1, <1>3, <2>7, <2>8, <2>9 DEF t
<1> QED BY <1>2, <1>3 DEF t

LEMMA ArtCommits ==
  ASSUME ArtCore, NEW r \in Requests, A!Commit(r)
  PROVE  ArtCore'
<1> DEFINE t == task[r]
           w == A!Written(t)
<1>1. /\ t.at \in {"writing", "fetched"} /\ A!Writing(r) /\ row' = w /\ A!Left(r)
      /\ t.seen = None => row = None
      /\ UNCHANGED <<picture, file, early, refused>>
  BY DEF A!Commit, A!Writing
<1>2. /\ t.new \in A!Row /\ w \in A!Row /\ w # None
      /\ t.seen \in {None, row} /\ (t.seen = None => row = None) => w = t.new
      /\ t.seen # None => w.format = IF t.new.format # t.seen.format THEN t.new.format ELSE row.format
  BY <1>1, WrittenRow, ArtworkAssumption
<1> HIDE DEF w
<1>3. /\ ArtShapes' /\ task'[r] = A!Idle /\ (\A q \in Requests \ {r} : task'[q] = task[q])
      /\ table' = IF table = t.lock THEN None ELSE table
  BY <1>1, <1>2, Leaves
<1>4. /\ t.at = "writing" => t.lock = None /\ t.seen = None /\ t.new = A!Registered
      /\ t.at = "fetched" => t.lock # None
      /\ \A q \in Requests : task[q].at = "waiting" => task[q].lock # None
  BY DEF ArtCore, ArtShapes, InFlight
<1>5. CASE t.at = "writing"
  <2>1. row = None /\ row' = A!Registered /\ UNCHANGED table
    BY <1>1, <1>2, <1>3, <1>4, <1>5
  <2>2. LocksOK => LocksOK'
    <3>1. ~Fresh /\ A!Due(row)'
      BY <2>1, ArtTasks DEF Fresh, A!Due, A!Cached
    <3> QED BY <1>1, <1>3, <2>1, <3>1, ArtTasks DEF LocksOK, InFlight, A!Due, A!Cached, ArtCore, ArtShapes
  <2>3. PicturesOK => PicturesOK'
    BY <1>1, <1>3, <1>5, <2>1, ArtTasks DEF PicturesOK, FormatOf, ArtCore, ArtShapes
  <2> QED BY <1>1, <1>3, <2>2, <2>3 DEF ArtCore
<1>6. CASE t.at = "fetched"
  <2>1. ASSUME LocksOK PROVE LocksOK'
    <3>1. InFlight(r) /\ t.lock = table /\ t.seen \in {None, row} /\ ~A!Due(t.new)
      BY <1>6, <2>1 DEF LocksOK, InFlight
    <3>2. row' = t.new /\ table' = None
      BY <1>1, <1>2, <1>3, <3>1
    <3>3. Fresh'
      BY <1>1, <1>2, <3>1, <3>2 DEF Fresh, A!Due, A!Cached
    <3>4. \A q \in Requests : ~InFlight(q)'
      BY <1>3, <2>1, <3>1, ArtTasks DEF LocksOK, InFlight
    <3> QED BY <3>3, <3>4 DEF LocksOK, InFlight
  <2>2. ASSUME PicturesOK PROVE PicturesOK'
    <3>1. t.new.format \in {FormatOf(t.seen)} \cup file
      BY <1>6, <2>2 DEF PicturesOK
    <3>2. \/ t.seen = None /\ row = None /\ row'.format = t.new.format
          \/ /\ t.seen # None /\ row # None /\ row.format \in {t.seen.format} \cup file
             /\ row'.format = IF t.new.format # t.seen.format THEN t.new.format ELSE row.format
      BY <1>1, <1>2, <2>2 DEF PicturesOK, FormatOf, ArtCore, ArtShapes
    <3>3. row' # None /\ row'.format \in {FormatOf(row)} \cup file
      BY <1>1, <1>2, <3>1, <3>2 DEF FormatOf
    <3>4. t.new.format \in file => row'.format \in file
      BY <3>2
    <3>5. FormatOf(row') \in {None} \cup file
      BY <2>2, <3>3 DEF PicturesOK, FormatOf
    <3>6. ASSUME NEW q \in Requests, task'[q].seen # None
          PROVE  /\ FormatOf(task'[q].seen) \in {None} \cup file
                 /\ row'.format \in {FormatOf(task'[q].seen)} \cup file
      BY <1>3, <2>2, <3>3, <3>6, ArtTasks DEF PicturesOK, FormatOf, ArtCore, ArtShapes
    <3>7. ASSUME file # {}
          PROVE  \/ row'.format \in file
                 \/ \E q \in Requests : task'[q].at = "fetched" /\ task'[q].new.format \in file
      BY <1>3, <2>2, <3>3, <3>4, <3>7 DEF PicturesOK, FormatOf
    <3>8. ASSUME NEW q \in Requests
          PROVE  /\ task'[q].at = "fetching" => task'[q].new.format = FormatOf(task'[q].seen)
                 /\ task'[q].at = "fetched" => task'[q].new.format \in {FormatOf(task'[q].seen)} \cup file
      BY <1>3, <2>2, ArtTasks DEF PicturesOK
    <3> QED BY <1>1, <3>3, <3>5, <3>6, <3>7, <3>8 DEF PicturesOK, FormatOf
  <2> QED BY <1>1, <1>3, <2>1, <2>2 DEF ArtCore
<1> QED BY <1>1, <1>5, <1>6

LEMMA ArtRefuses ==
  ASSUME ArtCore, NEW r \in Requests, A!Refused(r)
  PROVE  ArtCore'
<1>1. A!Left(r) /\ refused' /\ UNCHANGED <<picture, row, file>>
  BY DEF A!Refused
<1>2. ArtShapes'
  BY <1>1, Leaves DEF ArtCore, ArtShapes
<1> QED BY <1>1, <1>2 DEF ArtCore

LEMMA ArtSteps == ArtCore /\ A!Next => ArtCore'
BY ArtTick, ArtChanges, ArtRegisters, ArtWaits, ArtReturns, ArtFetches, ArtGets, ArtFails,
   ArtCommits, ArtRefuses
DEF A!Next

LEMMA ArtHolds == ArtCore => A!ArtworkConsistent
<1> SUFFICES ASSUME ArtCore PROVE A!ArtworkConsistent
  OBVIOUS
<1>1. A!ArtworkTypeOK
  BY DEF ArtCore, ArtShapes, ArtTask, A!ArtworkTypeOK
<1>2. ASSUME ~early, ~refused
      PROVE  Cardinality({r \in Requests : task[r].at \in {"fetching", "fetched"}}) <= 1
  <2> DEFINE flying == {r \in Requests : task[r].at \in {"fetching", "fetched"}}
  <2>1. \A r, q \in flying : r = q
    BY <1>2 DEF ArtCore, LocksOK, InFlight
  <2> HIDE DEF flying
  <2>2. CASE flying = {}
    <3>1. Cardinality(flying) = 0
      BY <2>2, FS_EmptySet
    <3> QED BY <3>1 DEF flying
  <2>3. CASE flying # {}
    <3>1. PICK r : flying = {r}
      BY <2>1, <2>3
    <3>2. Cardinality(flying) = 1
      BY <3>1, FS_Singleton
    <3> QED BY <3>2 DEF flying
  <2> QED BY <2>2, <2>3
<1>3. A!OneFetchInFlight
  BY <1>2 DEF A!OneFetchInFlight, A!Cardinality, Cardinality
<1>4. A!OldPictureStays
  <2>1. ASSUME ~refused, file # {}, \A r \in Requests : ~A!Writing(r)
        PROVE  row.format \in file
    BY <2>1 DEF ArtCore, PicturesOK, A!Writing
  <2> QED BY <2>1 DEF A!OldPictureStays
<1> QED BY <1>1, <1>3, <1>4 DEF A!ArtworkConsistent

\* artwork.py:100-105: with any number of requests a picture is fetched once at a time, and a
\* fetch that fails takes away no picture that another one stored, but for the requests that
\* read the row before they waited and the commits that met a registration.
THEOREM ArtworkKept == Spec => []ArtworkConsistent
<1> DEFINE Inv == whose = "artwork" => ArtCore
<1>1. Init => Inv
  BY ArtInit DEF Init
<1>2. Inv /\ [Next]_vars => Inv'
  <2> SUFFICES ASSUME Inv, [Next]_vars, whose' = "artwork" PROVE ArtCore'
    OBVIOUS
  <2>1. CASE Next
    <3>1. whose = "artwork"
      BY <2>1, WhoseStays
    <3>2. A!Next
      BY <2>1, <3>1
      DEF Next, OnlyProcessing, OnlyTimeline, OnlyServing, OnlyRefreshing, OnlySubscribing,
          OnlySignIn, OnlyQueue, OnlyArtwork, OnlyNotifying
    <3> QED BY <3>1, <3>2, ArtSteps
  <2>2. CASE UNCHANGED vars
    <3>1. whose = "artwork" /\ UNCHANGED <<picture, row, file, table, task, early, refused>>
      BY <2>2 DEF vars, artworkVars
    <3> QED BY <3>1, ArtChanges
  <2> QED BY <2>1, <2>2
<1>3. Inv => ArtworkConsistent
  BY ArtHolds DEF ArtworkConsistent
<1> QED BY <1>1, <1>2, <1>3, PTL DEF Spec
=============================================================================
