----------------------------- MODULE Subscribing -----------------------------
(***************************************************************************)
(* Subscriptions by address, by Podcast Index id and from an OPML file:    *)
(* the same show is reached under several addresses, some of which         *)
(* redirect, and a subscription looks for it twice, around an await,       *)
(* before it inserts a row.                                                *)
(***************************************************************************)
EXTENDS Naturals, FiniteSets

CONSTANTS
  Addresses,   \* records: tls, host, port, path
  Redirects,   \* a function from some of them to where they land
  Clients,
  None,
  MaxFeeds, MaxEvents   \* bounds: rows ever made; failures, deactivations and deletions

VARIABLES
  feeds,     \* the table: from ids to feed_url, resolved_url, podcast_index_id, active
  ids,       \* ids given out
  request,   \* subscribe_feed, per client
  events,
  excused    \* history: rows inserted blindly, see Blind

vars == <<feeds, ids, request, events, excused>>

-----------------------------------------------------------------------------
(* urls.py                                                                  *)

\* http and https are one, and so are the port they imply and none.
DefaultPort(tls) == IF tls THEN 443 ELSE 80
NormalizeFeedUrl(a) ==
  [host |-> a.host, path |-> a.path,
   port |-> IF a.port = DefaultPort(a.tls) THEN None ELSE a.port]

LandsAt(a) == IF a \in DOMAIN Redirects THEN Redirects[a] ELSE a

\* What the two rows and the Index agree on: the document behind an address.
Show(a) == NormalizeFeedUrl(LandsAt(a))

-----------------------------------------------------------------------------
(* find_existing_feed                                                       *)

IdentitiesAsGiven(f) == {NormalizeFeedUrl(f.url)}   \* mutant: not where it landed

Identities(f) == {NormalizeFeedUrl(f.url)}
                   \cup (IF f.resolved = None THEN {} ELSE {NormalizeFeedUrl(f.resolved)})

\* The exact address first; then, in no order, any row that is the same feed.
FindExistingFeed(url, index) ==
  LET exact == {i \in DOMAIN feeds : feeds[i].url = url}
      same  == {i \in DOMAIN feeds : \/ NormalizeFeedUrl(url) \in Identities(feeds[i])
                                     \/ index # None /\ feeds[i].index = index}
  IN  IF exact # {} THEN exact ELSE same

\* Rows a lookup could have told by where they land.
Recognisable == {i \in DOMAIN feeds : feeds[i].resolved # None}

Idle == [at |-> "idle", url |-> None, index |-> None, opml |-> FALSE,
         found |-> None, seen |-> {}, resolved |-> FALSE]

Init ==
  /\ feeds = <<>> /\ ids = 0
  /\ request = [c \in Clients |-> Idle]
  /\ events = 0
  /\ excused = {}

-----------------------------------------------------------------------------
(* subscribe_feed                                                           *)

\* create_feed with an address, or with an id whose address the Index gives; import_opml.
Subscribe(c, url, index, opml) ==
  LET hits == FindExistingFeed(url, index) IN
  /\ request[c].at = "idle"
  /\ \E found \in IF hits = {} THEN {None} ELSE hits :
       request' = [request EXCEPT ![c] =
         [at |-> IF found = None THEN "resolving" ELSE "existing", url |-> url, index |-> index,
          opml |-> opml, found |-> found, seen |-> Recognisable, resolved |-> FALSE]]
  /\ UNCHANGED <<feeds, ids, events, excused>>

\* resolve_feed_url came back; a second lookup only if it landed elsewhere.
Resolved(c) ==
  LET r == request[c]
      elsewhere == NormalizeFeedUrl(LandsAt(r.url)) # NormalizeFeedUrl(r.url)
      hits == IF elsewhere THEN FindExistingFeed(LandsAt(r.url), None) ELSE {} IN
  /\ r.at = "resolving"
  /\ \E found \in IF hits = {} THEN {None} ELSE hits :
       request' = [request EXCEPT ![c] =
         [at |-> IF found = None THEN "inserting" ELSE "existing", url |-> r.url,
          index |-> r.index, opml |-> r.opml, found |-> found,
          seen |-> IF elsewhere THEN Recognisable ELSE r.seen, resolved |-> TRUE]]
  /\ UNCHANGED <<feeds, ids, events, excused>>

\* Unresolvable is not fatal: the address is taken as it is.
Unresolved(c) ==
  /\ request[c].at = "resolving" /\ events < MaxEvents
  /\ request' = [request EXCEPT ![c].at = "inserting"]
  /\ events' = events + 1
  /\ UNCHANGED <<feeds, ids, excused>>

\* A subscription to a known show: its id is noted and it is made active again.
Existing(c) ==
  LET r == request[c] IN
  /\ r.at = "existing" /\ r.found \in DOMAIN feeds
  /\ feeds' = [feeds EXCEPT ![r.found].active = TRUE,
                            ![r.found].index = IF r.index = None THEN @ ELSE r.index]
  /\ request' = [request EXCEPT ![c] = Idle]
  /\ UNCHANGED <<ids, events, excused>>

\* A row of the show that the last lookup did not have, or could not recognise.
Blind(r) ==
  \/ ~r.resolved
  \/ \E i \in DOMAIN feeds \ r.seen : Show(feeds[i].url) = Show(r.url)

Insert(c) ==
  LET r == request[c] IN
  /\ r.at = "inserting" /\ ids < MaxFeeds
  /\ \A i \in DOMAIN feeds : feeds[i].url # r.url
  /\ ids' = ids + 1
  /\ feeds' = [i \in DOMAIN feeds \cup {ids + 1} |->
       IF i \in DOMAIN feeds THEN feeds[i]
       ELSE [url |-> r.url, resolved |-> None, index |-> r.index, active |-> TRUE]]
  /\ excused' = IF Blind(r) THEN excused \cup {ids + 1} ELSE excused
  /\ request' = [request EXCEPT ![c] = IF r.opml THEN Idle
                                       ELSE [@ EXCEPT !.at = "refreshing", !.found = ids + 1]]
  /\ UNCHANGED events

\* feed_url is unique, and the row that was found may be gone: the commit fails.
Refused(c) ==
  LET r == request[c] IN
  /\ \/ r.at = "inserting" /\ \E i \in DOMAIN feeds : feeds[i].url = r.url
     \/ r.at = "existing" /\ r.found \notin DOMAIN feeds
  /\ request' = [request EXCEPT ![c] = Idle]
  /\ UNCHANGED <<feeds, ids, events, excused>>

\* A refresh, the first one or a scheduled one, notes where the feed landed.
Learnt(i) == [feeds EXCEPT ![i].resolved = LandsAt(feeds[i].url)]

FirstRefresh(c) ==
  LET i == request[c].found IN
  /\ request[c].at = "refreshing"
  /\ \/ feeds' = (IF i \in DOMAIN feeds THEN Learnt(i) ELSE feeds) /\ events' = events
     \/ events < MaxEvents /\ events' = events + 1 /\ feeds' = feeds
  /\ request' = [request EXCEPT ![c] = Idle]
  /\ UNCHANGED <<ids, excused>>

ScheduledRefresh(i) ==
  /\ feeds[i].active
  /\ feeds' = Learnt(i)
  /\ UNCHANGED <<ids, request, events, excused>>

\* update_feed and delete_feed.
Deactivate(i) ==
  /\ feeds[i].active /\ events < MaxEvents
  /\ events' = events + 1
  /\ feeds' = [feeds EXCEPT ![i].active = FALSE]
  /\ UNCHANGED <<ids, request, excused>>

Delete(i) ==
  /\ events < MaxEvents
  /\ events' = events + 1
  /\ feeds' = [j \in DOMAIN feeds \ {i} |-> feeds[j]]
  /\ UNCHANGED <<ids, request, excused>>

-----------------------------------------------------------------------------
Next ==
  \/ \E c \in Clients :
       \/ \E a \in Addresses : Subscribe(c, a, None, FALSE) \/ Subscribe(c, a, None, TRUE)
                                 \/ Subscribe(c, a, Show(a), FALSE)
       \/ Resolved(c) \/ Unresolved(c) \/ Existing(c) \/ Insert(c) \/ Refused(c)
       \/ FirstRefresh(c)
  \/ \E i \in DOMAIN feeds : ScheduledRefresh(i) \/ Deactivate(i) \/ Delete(i)

Spec == Init /\ [][Next]_vars

-----------------------------------------------------------------------------
(* Properties                                                               *)

SubscribeTypeOK ==
  /\ ids \in 0..MaxFeeds /\ DOMAIN feeds \subseteq 1..ids
  /\ \A i \in DOMAIN feeds : /\ feeds[i].url \in Addresses
                             /\ feeds[i].resolved \in {None} \cup {LandsAt(a) : a \in Addresses}
  /\ \A c \in Clients : request[c].at \in {"idle", "resolving", "existing", "inserting", "refreshing"}

(* subscribe.py:83: a show reachable under several addresses is subscribed once, whichever   *)
(* came first and whatever redirects where, unless the row it should have met had not been   *)
(* fetched yet, was inserted meanwhile, or the address did not answer.                       *)
OneShowOneFeed ==
  \A i, j \in DOMAIN feeds :
    i # j /\ Show(feeds[i].url) = Show(feeds[j].url) => i \in excused \/ j \in excused

SubscribeConsistent == SubscribeTypeOK /\ OneShowOneFeed
=============================================================================
