------------------------------ MODULE MCProgress -------------------------------
(***************************************************************************)
(* Instances of the components that something must eventually happen in,   *)
(* side by side.  A behaviour is of one of them, the one that whose names; *)
(* the variables are that component's, and those it does not need stay     *)
(* None.                                                                   *)
(***************************************************************************)
EXTENDS Naturals, FiniteSets, TLC

CONSTANT None

VARIABLES whose,
  x1, x2, x3, x4, x5, x6, x7, x8, x9, x10, x11, x12, x13, x14, x15

vars == <<whose, x1, x2, x3, x4, x5, x6, x7, x8, x9, x10, x11, x12, x13, x14, x15>>

\* Two editions of a feed: a title, and per guid the address of its chapters.
Editions ==
  { [title |-> "x", chapters |-> "a" :> 1],
    [title |-> "y", chapters |-> ("a" :> 2 @@ "b" :> None)] }

W == INSTANCE Storage WITH
  Episodes <- {1, 2}, Jobs <- {"j1", "j2", "j3"}, Workers <- {"w"}, Handlers <- {},
  MaxAttempts <- 1, MaxCrashes <- 0, MaxWipes <- 0, MaxDbFaults <- 0, MaxLateFaults <- 0,
  Passes <- {"p"}, WindowCounts <- {1}, Modes <- {"after_download"}, Ceiling <- 0,
  subscribed <- x1, present <- x2, local <- x3, purged <- x4, queue <- x5, job <- x6,
  file <- x7, part <- x8, worker <- x9, handler <- x10, faults <- x11, starred <- x12,
  played <- x13, sweep <- x14, pass <- x15

P == INSTANCE Processing WITH
  Episodes <- {1}, Workers <- {"worker"}, Loop <- "loop", Recipes <- {"trim", "level"},
  MaxChanges <- 1, MaxStops <- 0,
  wish <- x1, alive <- x2, row <- x3, original <- x4, copy <- x5, part <- x6, pass <- x7,
  task <- x8, remover <- x9, backoff <- x10, broken <- x11, changes <- x12, stops <- x13,
  overtaken <- x14, doubled <- x15

V == INSTANCE Serving WITH
  OriginalSize <- 2, UpstreamSize <- 3, MadeSizes <- {1}, MaxMakes <- 1, MaxSeeks <- 1,
  MaxLosses <- 1,
  disk <- x1, named <- x2, player <- x3, reply <- x4, lost <- x5, makes <- x6, seeks <- x7,
  losses <- x8

R == INSTANCE Refreshing WITH
  Documents <- Editions,
  Guids <- {"a", "b"}, Scheduled <- "scheduled", Forced <- "forced", Interval <- 2,
  Jitter <- 1, MaxDoublings <- 1, MaxVersions <- 2, MaxFaults <- 3, MaxForced <- 0,
  published <- x1, feed <- x2, episode <- x3, age <- x4, task <- x5, holder <- x6,
  opening <- x7, faults <- x8, forced <- x9, overlapped <- x10, crossed <- x11

L == INSTANCE SignIn WITH
  Requests <- {"r1", "r2"}, Names <- {"owner"}, Owner <- "owner", Sources <- {"here"},
  MaxFailures <- 2, SourceMaxFailures <- 3, Window <- 2, MaxEnrolments <- 1,
  attempts <- x1, secret <- x2, lastStep <- x3, request <- x4, accepted <- x5,
  enrolments <- x6

-----------------------------------------------------------------------------
Init ==
  \/ whose = "storage" /\ W!StorageInit
  \/ whose = "processing" /\ P!Init
     /\ x1 = "trim" /\ x11 = {}
  \/ whose = "serving" /\ V!Init
     /\ x9 = None /\ x10 = None /\ x11 = None /\ x12 = None /\ x13 = None /\ x14 = None
     /\ x15 = None
  \/ whose = "refreshing" /\ R!Init
     /\ x12 = None /\ x13 = None /\ x14 = None /\ x15 = None
  \/ whose = "signin" /\ L!Init
     /\ x7 = None /\ x8 = None /\ x9 = None /\ x10 = None /\ x11 = None /\ x12 = None
     /\ x13 = None /\ x14 = None /\ x15 = None

OnlyStorage == whose = "storage" /\ UNCHANGED whose
OnlyProcessing == whose = "processing" /\ UNCHANGED whose
OnlyServing == whose = "serving" /\ UNCHANGED <<whose, x9, x10, x11, x12, x13, x14, x15>>
OnlyRefreshing == whose = "refreshing" /\ UNCHANGED <<whose, x12, x13, x14, x15>>
OnlySignIn == whose = "signin" /\ UNCHANGED <<whose, x7, x8, x9, x10, x11, x12, x13, x14, x15>>

Next ==
  \/ OnlyStorage /\ W!HandsOffNext
  \/ OnlyProcessing /\ P!Next
  \/ OnlyServing /\ V!Next
  \/ OnlyRefreshing /\ R!Next
  \/ OnlySignIn /\ L!Next

Spec == Init /\ [][Next]_vars

\* Each component's fairness, as its module states it.  whose never changes, so a
\* condition on a disjunction of several components' actions is one on each.
Fairness ==
  /\ WF_vars(\/ OnlyStorage /\ W!Restart /\ W!QueueStep
             \/ OnlyProcessing /\ P!Reconcile
             \/ OnlyServing /\ V!Transfer
             \/ OnlyRefreshing /\ R!Tick
             \/ OnlySignIn /\ L!Tick)
  /\ WF_vars(\/ OnlyStorage /\ W!Progress("w") /\ W!QueueStep
             \/ OnlyProcessing /\ P!BackoffEnds
             \/ OnlyRefreshing /\ R!Start("scheduled"))
  /\ WF_vars(\/ OnlyStorage /\ W!Sweeping
             \/ OnlyProcessing /\ P!CommitRemoval
             \/ OnlyRefreshing /\ R!Work("scheduled"))
  /\ WF_vars(\/ OnlyStorage /\ W!Windowing("p", W!Refreshes)
             \/ OnlyProcessing /\ P!Encode("loop")
             \/ OnlyRefreshing /\ R!Work("forced"))
  /\ WF_vars(OnlyProcessing /\ P!Encode("worker"))
  /\ WF_vars(OnlyProcessing /\ (P!Fetched("worker") \/ P!FetchRefused("worker")))
  /\ \A j \in {"j1", "j2", "j3"} : SF_vars(OnlyStorage /\ W!Claim("w", j) /\ W!QueueStep)

FairSpec == Spec /\ Fairness

-----------------------------------------------------------------------------
(* The modules' properties, of the behaviours that are theirs               *)


WindowConverges == <>[](whose = "storage" => W!Converged)
SettingsTakeEffect ==
  <>[](whose = "processing" => P!InPeace(1)) => <>[](whose = "processing" => P!AsWished(1))
PlaybackGoesOn == []<>(whose = "serving" => V!AtRest \/ V!Stranded)
WhatIsPublishedArrives ==
  \A g \in {"a", "b"} :
    <>[](whose = "refreshing" => R!Offered(g)) => []<>(whose = "refreshing" => R!Stored(g))
LockoutEnds == []<>(whose = "signin" => L!Unlocked("owner", "here"))
=============================================================================
