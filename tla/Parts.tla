--------------------------------- MODULE Parts ---------------------------------
(***************************************************************************)
(* The components that share no state with one another, side by side.  A   *)
(* behaviour is of one of them, the one that whose names: the variables of *)
(* that component change as its module says, and the others stay None.     *)
(***************************************************************************)
EXTENDS Integers, FiniteSets

CONSTANTS
  None,
  Episodes, Workers, Loop, Recipes, MaxChanges, MaxStops,           \* Processing
  Second, Length, Survives, DetectionWindow, Slack,                \* Timeline
  MaxSilences, MaxMakes,
  OriginalSize, UpstreamSize, MadeSizes, MaxCopies, MaxSeeks, MaxLosses,   \* Serving
  Guids, Documents, Scheduled, Forced, Interval, Jitter,            \* Refreshing
  MaxDoublings, MaxVersions, MaxFaults, MaxForced,
  Urls, Redirects, Clients, MaxFeeds, MaxEvents,                    \* Subscribing
  Requests,                                                         \* of three of them
  Names, Owner, Sources, MaxFailures, SourceMaxFailures, Window,    \* SignIn
  MaxEnrolments,
  Queueable, OfShow, Targets, MaxListed, MaxItems,                  \* Queue
  Formats, RetryAfter, RevalidateAfter, MaxPictures,                \* Artwork
  Tokens, Passes, ForgetAfter, MaxRows                              \* Notifying

VARIABLES
  whose,       \* the component a behaviour is of
  \* of Processing
  wish, alive, original, copy, part, remover, backoff, broken, overtaken, doubled,
  \* of Timeline
  silences, stored, cuts,
  \* of Serving
  disk, named, reply, lost, seeks, losses,
  \* of Refreshing
  published, feed, age, holder, opening, faults, forced, overlapped,
  \* of Subscribing
  feeds, events,
  \* of SignIn
  attempts, secret, lastStep, accepted, enrolments,
  \* of Queue, Artwork and Notifying
  item, picture, file, table, device,
  \* of several
  row, pass, task, changes, stops, episode, player, makes, crossed, ids, request, excused,
  early, refused

P == INSTANCE Processing
T == INSTANCE Timeline WITH Window <- DetectionWindow
V == INSTANCE Serving WITH MaxMakes <- MaxCopies
R == INSTANCE Refreshing
B == INSTANCE Subscribing WITH Addresses <- Urls
L == INSTANCE SignIn
Q == INSTANCE Queue WITH Episodes <- Queueable, Show <- OfShow
A == INSTANCE Artwork
N == INSTANCE Notifying

\* Sizes are numbers of bytes, the publisher's file is the longest, and None is not a range.
ASSUME ServingAssumption ==
  /\ UpstreamSize \in Nat /\ None \notin Int
  /\ OriginalSize \in 1..UpstreamSize /\ MadeSizes \subseteq 1..UpstreamSize
  /\ None \notin [status : {206, 416}, first : Nat, last : Int]

\* A second has a length, lengths and limits are not negative.
ASSUME TimelineAssumption ==
  /\ Second \in Nat \ {0} /\ Length \in Nat /\ Survives \in Nat
  /\ DetectionWindow \in Int /\ Slack \in Int
  /\ MaxSilences \in Nat /\ MaxMakes \in Nat

\* Documents list the guids there are, and None is not the row of an episode.
Places == {None} \cup UNION {{R!Addresses(d)[g] : g \in R!Listed(d)} : d \in Documents}
EpisodeRows == [address : Places, chapters : Places, tried : BOOLEAN]
ASSUME RefreshingAssumption ==
  /\ \A d \in Documents : R!Listed(d) \subseteq Guids
  /\ None \notin EpisodeRows /\ None \notin R!Tasks
  /\ R!Oldest \in Nat /\ MaxDoublings \in Nat

\* An address lands somewhere.
ASSUME SubscribingAssumption ==
  /\ MaxFeeds \in Nat /\ None \notin Nat
  /\ \A a \in Urls : B!LandsAt(a) # None

\* Limits and the window are not zero.
ASSUME SignInAssumption ==
  /\ MaxFailures \in Nat \ {0} /\ SourceMaxFailures \in Nat \ {0}
  /\ Window \in Nat \ {0}

\* Times are not zero, and None is neither a row nor a lock.
ASSUME ArtworkAssumption ==
  /\ IsFiniteSet(Requests)
  /\ RetryAfter \in Nat \ {0} /\ RevalidateAfter \in Nat \ {0}
  /\ None \notin A!Row /\ None \notin A!Locks

\* A queue of finitely many, and None is neither an episode nor a row of the queue.
Items == [id : Nat, position : Nat]
ASSUME QueueAssumption ==
  /\ IsFiniteSet(Queueable) /\ None \notin Queueable
  /\ Targets \subseteq Nat /\ None \notin Nat /\ MaxListed \in Nat
  /\ None \notin Items

\* None is not the row of a phone.
Phones == [id : 1..MaxRows, failing : N!Ages]
ASSUME NotifyingAssumption ==
  /\ ForgetAfter \in Nat \ {None} /\ MaxRows \in Nat
  /\ None \notin Phones

-----------------------------------------------------------------------------
(* The variables, by the component they are of                              *)

processingVars == <<wish, alive, original, copy, part, remover, backoff, broken, overtaken,
                    doubled>>
timelineVars == <<silences, stored, cuts>>
servingVars == <<disk, named, reply, lost, seeks, losses>>
refreshingVars == <<published, feed, age, holder, opening, faults, forced, overlapped>>
subscribingVars == <<feeds, events>>
signinVars == <<attempts, secret, lastStep, accepted, enrolments>>
queueVars == <<item>>
artworkVars == <<picture, file, table>>
notifyingVars == <<device>>

vars == <<whose, processingVars, timelineVars, servingVars, refreshingVars, subscribingVars,
          signinVars, queueVars, artworkVars, notifyingVars, row, pass, task, changes,
          stops, episode, player, makes, crossed, ids, request, excused, early, refused>>

NoProcessing ==
  /\ wish = None /\ alive = None /\ original = None /\ copy = None /\ part = None
  /\ remover = None /\ backoff = None /\ broken = None /\ overtaken = None
  /\ doubled = None
NoTimeline == /\ silences = None /\ stored = None /\ cuts = None
NoServing ==
  /\ disk = None /\ named = None /\ reply = None /\ lost = None /\ seeks = None
  /\ losses = None
NoRefreshing ==
  /\ published = None /\ feed = None /\ age = None /\ holder = None /\ opening = None
  /\ faults = None /\ forced = None /\ overlapped = None
NoSubscribing == /\ feeds = None /\ events = None
NoSignIn ==
  /\ attempts = None /\ secret = None /\ lastStep = None /\ accepted = None
  /\ enrolments = None
NoQueue == item = None
NoArtwork == /\ picture = None /\ file = None /\ table = None
NoNotifying == device = None

-----------------------------------------------------------------------------
Init ==
  \/ /\ whose = "processing" /\ P!Init
     /\ NoTimeline /\ NoServing /\ NoRefreshing /\ NoSubscribing /\ NoSignIn /\ NoQueue
     /\ NoArtwork /\ NoNotifying /\ episode = None /\ player = None /\ makes = None
     /\ crossed = None /\ ids = None /\ request = None /\ excused = None /\ early = None
     /\ refused = None
  \/ /\ whose = "timeline" /\ T!Init
     /\ NoProcessing /\ NoServing /\ NoRefreshing /\ NoSubscribing /\ NoSignIn /\ NoQueue
     /\ NoArtwork /\ NoNotifying /\ row = None /\ pass = None /\ task = None
     /\ changes = None /\ stops = None /\ crossed = None /\ ids = None /\ request = None
     /\ excused = None /\ early = None /\ refused = None
  \/ /\ whose = "serving" /\ V!Init
     /\ NoProcessing /\ NoTimeline /\ NoRefreshing /\ NoSubscribing /\ NoSignIn /\ NoQueue
     /\ NoArtwork /\ NoNotifying /\ row = None /\ pass = None /\ task = None
     /\ changes = None /\ stops = None /\ episode = None /\ crossed = None /\ ids = None
     /\ request = None /\ excused = None /\ early = None /\ refused = None
  \/ /\ whose = "refreshing" /\ R!Init
     /\ NoProcessing /\ NoTimeline /\ NoServing /\ NoSubscribing /\ NoSignIn /\ NoQueue
     /\ NoArtwork /\ NoNotifying /\ row = None /\ pass = None /\ changes = None
     /\ stops = None /\ player = None /\ makes = None /\ ids = None /\ request = None
     /\ excused = None /\ early = None /\ refused = None
  \/ /\ whose = "subscribing" /\ B!Init
     /\ NoProcessing /\ NoTimeline /\ NoServing /\ NoRefreshing /\ NoSignIn /\ NoQueue
     /\ NoArtwork /\ NoNotifying /\ row = None /\ pass = None /\ task = None
     /\ changes = None /\ stops = None /\ episode = None /\ player = None /\ makes = None
     /\ crossed = None /\ early = None /\ refused = None
  \/ /\ whose = "signin" /\ L!Init
     /\ NoProcessing /\ NoTimeline /\ NoServing /\ NoRefreshing /\ NoSubscribing /\ NoQueue
     /\ NoArtwork /\ NoNotifying /\ row = None /\ pass = None /\ task = None
     /\ changes = None /\ stops = None /\ episode = None /\ player = None /\ makes = None
     /\ crossed = None /\ ids = None /\ excused = None /\ early = None /\ refused = None
  \/ /\ whose = "queue" /\ Q!Init
     /\ NoProcessing /\ NoTimeline /\ NoServing /\ NoRefreshing /\ NoSubscribing
     /\ NoSignIn /\ NoArtwork /\ NoNotifying /\ row = None /\ pass = None /\ changes = None
     /\ stops = None /\ episode = None /\ player = None /\ makes = None /\ request = None
     /\ excused = None /\ early = None /\ refused = None
  \/ /\ whose = "artwork" /\ A!Init
     /\ NoProcessing /\ NoTimeline /\ NoServing /\ NoRefreshing /\ NoSubscribing
     /\ NoSignIn /\ NoQueue /\ NoNotifying /\ pass = None /\ stops = None /\ episode = None
     /\ player = None /\ makes = None /\ crossed = None /\ ids = None /\ request = None
     /\ excused = None
  \/ /\ whose = "notifying" /\ N!Init
     /\ NoProcessing /\ NoTimeline /\ NoServing /\ NoRefreshing /\ NoSubscribing
     /\ NoSignIn /\ NoQueue /\ NoArtwork /\ row = None /\ task = None /\ changes = None
     /\ episode = None /\ player = None /\ makes = None /\ crossed = None /\ request = None

OnlyProcessing ==
  /\ whose = "processing"
  /\ UNCHANGED <<whose, timelineVars, servingVars, refreshingVars, subscribingVars,
                 signinVars, queueVars, artworkVars, notifyingVars, episode, player, makes,
                 crossed, ids, request, excused, early, refused>>
OnlyTimeline ==
  /\ whose = "timeline"
  /\ UNCHANGED <<whose, processingVars, servingVars, refreshingVars, subscribingVars,
                 signinVars, queueVars, artworkVars, notifyingVars, row, pass, task,
                 changes, stops, crossed, ids, request, excused, early, refused>>
OnlyServing ==
  /\ whose = "serving"
  /\ UNCHANGED <<whose, processingVars, timelineVars, refreshingVars, subscribingVars,
                 signinVars, queueVars, artworkVars, notifyingVars, row, pass, task,
                 changes, stops, episode, crossed, ids, request, excused, early, refused>>
OnlyRefreshing ==
  /\ whose = "refreshing"
  /\ UNCHANGED <<whose, processingVars, timelineVars, servingVars, subscribingVars,
                 signinVars, queueVars, artworkVars, notifyingVars, row, pass, changes,
                 stops, player, makes, ids, request, excused, early, refused>>
OnlySubscribing ==
  /\ whose = "subscribing"
  /\ UNCHANGED <<whose, processingVars, timelineVars, servingVars, refreshingVars,
                 signinVars, queueVars, artworkVars, notifyingVars, row, pass, task,
                 changes, stops, episode, player, makes, crossed, early, refused>>
OnlySignIn ==
  /\ whose = "signin"
  /\ UNCHANGED <<whose, processingVars, timelineVars, servingVars, refreshingVars,
                 subscribingVars, queueVars, artworkVars, notifyingVars, row, pass, task,
                 changes, stops, episode, player, makes, crossed, ids, excused, early,
                 refused>>
OnlyQueue ==
  /\ whose = "queue"
  /\ UNCHANGED <<whose, processingVars, timelineVars, servingVars, refreshingVars,
                 subscribingVars, signinVars, artworkVars, notifyingVars, row, pass,
                 changes, stops, episode, player, makes, request, excused, early, refused>>
OnlyArtwork ==
  /\ whose = "artwork"
  /\ UNCHANGED <<whose, processingVars, timelineVars, servingVars, refreshingVars,
                 subscribingVars, signinVars, queueVars, notifyingVars, pass, stops,
                 episode, player, makes, crossed, ids, request, excused>>
OnlyNotifying ==
  /\ whose = "notifying"
  /\ UNCHANGED <<whose, processingVars, timelineVars, servingVars, refreshingVars,
                 subscribingVars, signinVars, queueVars, artworkVars, row, task, changes,
                 episode, player, makes, crossed, request>>

Next ==
  \/ OnlyProcessing /\ P!Next
  \/ OnlyTimeline /\ T!Next
  \/ OnlyServing /\ V!Next
  \/ OnlyRefreshing /\ R!Next
  \/ OnlySubscribing /\ B!Next
  \/ OnlySignIn /\ L!Next
  \/ OnlyQueue /\ Q!Next
  \/ OnlyArtwork /\ A!Next
  \/ OnlyNotifying /\ N!Next

Spec == Init /\ [][Next]_vars

-----------------------------------------------------------------------------
(* The modules' properties, of the behaviours that are theirs               *)

ProcessingConsistent == whose = "processing" => P!ProcessingConsistent
TimelineConsistent == whose = "timeline" => T!TimelineConsistent
ServingConsistent == whose = "serving" => V!ServingConsistent
NothingChangesUnderneath == whose = "serving" => V!NothingChangesUnderneath
RefreshConsistent == whose = "refreshing" => R!RefreshConsistent
EtagMeansStored == whose = "refreshing" => R!EtagMeansStored
SubscribeConsistent == whose = "subscribing" => B!SubscribeConsistent
SignInConsistent == whose = "signin" => L!SignInConsistent
ArtworkConsistent == whose = "artwork" => A!ArtworkConsistent
NotifyConsistent == whose = "notifying" => N!NotifyConsistent
OpensWhereLeft == [][whose = "timeline" => T!OpenedWhereLeft]_vars
StoredWhereHeard == [][whose = "timeline" => T!KeptWhereHeard]_vars
QueueMends == [][whose = "queue" => Q!Mended]_vars
=============================================================================
