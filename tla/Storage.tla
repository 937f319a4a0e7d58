------------------------------- MODULE Storage -------------------------------
(***************************************************************************)
(* The download queue together with the two background passes that decide  *)
(* what stays on disk: the retention sweep and the auto-download window,   *)
(* which a refresh or a settings change runs.  Both read which episodes    *)
(* are protected, await, and only then unlink; both commit later still.    *)
(* Several window passes may overlap: two refreshes of one feed cannot, but*)
(* one may run beside a change of the settings, and those beside each other*)
(*                                                                         *)
(* Episode ids are numbers and the greater one is the newer episode.  Every*)
(* copy on disk has size 1.                                                *)
(***************************************************************************)
EXTENDS Downloads

CONSTANTS
  Passes,         \* sessions in apply_auto_download_window() at once
  WindowCounts,   \* values the effective auto_download_count may take
  Modes,          \* values the effective retention mode may take
  Ceiling         \* download_dir_max_bytes, in copies; 0 is no ceiling

RetentionModes == {"never", "after_played", "after_download"}

ASSUME StorageAssumption ==
  /\ Episodes \subseteq Nat
  /\ WindowCounts \subseteq Nat
  /\ Modes \subseteq RetentionModes
  /\ Ceiling \in Nat

VARIABLES
  starred, played,   \* episode_state
  sweep,             \* where the retention loop is in sweep()
  pass               \* where each session is in apply_auto_download_window()

passes == <<sweep, pass>>
storageVars == <<vars, starred, played, passes>>

SweepState ==
  [pc : {"idle", "queue", "protected", "unlinked"},
   protected : SUBSET Episodes, cut : SUBSET Episodes]
PassState ==
  [pc : {"idle", "window", "protected", "trimmed", "enqueued"},
   holds : BOOLEAN,            \* it has written the feed's row
   loaded : SUBSET Episodes,   \* those that, as its session has them, may have a path
   arrivals : SUBSET Episodes, window : SUBSET Episodes,
   protected : SUBSET Episodes, cut : SUBSET Episodes, plan : SUBSET Episodes]

IdleSweep == [pc |-> "idle", protected |-> {}, cut |-> {}]
IdlePass ==
  [pc |-> "idle", holds |-> FALSE, loaded |-> {}, arrivals |-> {}, window |-> {},
   protected |-> {}, cut |-> {}, plan |-> {}]

StorageInit ==
  /\ Init
  /\ starred = {} /\ played = {}
  /\ sweep = IdleSweep /\ pass = [p \in Passes |-> IdlePass]

-----------------------------------------------------------------------------
(* The listener                                                            *)

Star(e) ==
  /\ e \in present \ starred
  /\ starred' = starred \cup {e}
  /\ UNCHANGED <<vars, played, passes>>

Unstar(e) ==
  /\ e \in starred
  /\ starred' = starred \ {e}
  /\ UNCHANGED <<vars, played, passes>>

\* update_state with played: a finished episode leaves the queue as well.
MarkPlayed(e) ==
  /\ e \in present
  /\ played' = played \cup {e}
  /\ queue' = queue \ {e}
  /\ UNCHANGED <<subscribed, present, local, purged, job, disk, worker, handler,
                 faults, starred, passes>>

-----------------------------------------------------------------------------
(* The retention sweep                                                     *)

\* protected_episode_ids reads the queue and, in a statement of its own, the stars.
SweepQueue ==
  /\ sweep.pc = "idle"
  /\ sweep' = [pc |-> "queue", protected |-> queue, cut |-> {}]
  /\ UNCHANGED <<vars, starred, played, pass>>

SweepNoStars ==   \* mutant: a star does not protect
  /\ sweep.pc = "queue"
  /\ sweep' = [sweep EXCEPT !.pc = "protected"]
  /\ UNCHANGED <<vars, starred, played, pass>>

SweepStars ==
  /\ sweep.pc = "queue"
  /\ sweep' = [sweep EXCEPT !.pc = "protected", !.protected = @ \cup starred]
  /\ UNCHANGED <<vars, starred, played, pass>>

\* _is_expired over the rows, where "old" holds the episodes whose marker is
\* before the cutoff.
Expired(mode, old) ==
  CASE mode = "never" -> {}
    [] mode = "after_played" -> old \cap played
    [] mode = "after_download" -> old

\* The ceiling takes just enough of the survivors it may take, played ones
\* before the rest.
CeilingVictims(survivors, protected) ==
  LET spare == survivors \ protected
      over == IF Ceiling # 0 /\ Cardinality(survivors) > Ceiling
              THEN Cardinality(survivors) - Ceiling ELSE 0
      count == IF over < Cardinality(spare) THEN over ELSE Cardinality(spare)
  IN {victims \in SUBSET spare :
        /\ Cardinality(victims) = count
        /\ \A v \in victims, u \in spare \ victims : u \in played => v \in played}

\* The rows with a file are read and what goes is unlinked at once.
SweepUnlink ==
  /\ sweep.pc = "protected"
  /\ \E mode \in Modes, old \in SUBSET local :
       LET expired == Expired(mode, old) \ sweep.protected IN
       \E victims \in CeilingVictims(local \ expired, sweep.protected) :
         /\ file' = file \ (expired \cup victims)
         /\ sweep' = [sweep EXCEPT !.pc = "unlinked", !.protected = {},
                                 !.cut = expired \cup victims]
  /\ UNCHANGED <<rows, job, part, worker, handler, faults, starred, played, pass>>

SweepCommit ==
  /\ sweep.pc = "unlinked"
  /\ sweep.cut \subseteq present
  /\ local' = local \ sweep.cut
  /\ purged' = purged \cup sweep.cut
  /\ sweep' = IdleSweep
  /\ UNCHANGED <<subscribed, present, queue, job, disk, worker, handler, faults,
                 starred, played, pass>>

\* A purged row went with its feed: the whole sweep fails and is logged.
SweepAbort ==
  /\ sweep.pc = "unlinked"
  /\ ~(sweep.cut \subseteq present)
  /\ sweep' = IdleSweep
  /\ UNCHANGED <<vars, starred, played, pass>>

-----------------------------------------------------------------------------
(* The auto-download window                                                *)

\* _window_episode_ids.
Newest(count, es) == {e \in es : Cardinality({f \in es : f > e}) < count}

\* A refresh whose document is new has loaded the show's rows and inserted, not
\* yet committed, its arrivals when the window is read; one whose document is
\* not, and a settings change, bring neither.  A refresh has written the feed's
\* row by then, which no other can before it ends; a settings change committed
\* its own row before it starts.
Occasions == {"document", "unmodified", "settings"}

PassStart(p, occasion, count, arrivals) ==
  /\ pass[p].pc = "idle"
  /\ subscribed
  /\ occasion # "settings" => \A q \in Passes : ~pass[q].holds
  /\ arrivals \cap present = {} /\ (occasion # "document" => arrivals = {})
  /\ pass' = [pass EXCEPT ![p] = [IdlePass EXCEPT
       !.pc = "window", !.holds = (occasion # "settings"),
       !.loaded = IF occasion = "document" THEN local ELSE Episodes,
       !.arrivals = arrivals,
       !.window = Newest(count, (present \cup arrivals) \ purged)]]
  /\ UNCHANGED <<vars, starred, played, sweep>>

\* What _protected_episode_ids finds: a queued episode has been requested too.
Claimed == queue \cup starred \cup {e \in Episodes : Requested(e)}

PassProtectKept(p, mode) ==   \* mutant: a request does not protect
  /\ pass[p].pc = "window"
  /\ pass' = IF mode = "never" THEN [pass EXCEPT ![p].pc = "trimmed", ![p].loaded = {}]
             ELSE [pass EXCEPT ![p].pc = "protected", ![p].protected = queue \cup starred]
  /\ UNCHANGED <<vars, starred, played, sweep>>

\* "Keep forever" skips the trimming.
PassProtect(p, mode) ==
  /\ pass[p].pc = "window"
  /\ pass' = IF mode = "never" THEN [pass EXCEPT ![p].pc = "trimmed", ![p].loaded = {}]
             ELSE [pass EXCEPT ![p].pc = "protected", ![p].protected = Claimed]
  /\ UNCHANGED <<vars, starred, played, sweep>>

PassTrimNothing(p) ==   \* mutant: the window only ever adds
  /\ pass[p].pc = "protected"
  /\ pass' = [pass EXCEPT ![p].pc = "trimmed", ![p].loaded = {}, ![p].protected = {}]
  /\ UNCHANGED <<vars, starred, played, sweep>>

\* Downloads outside the window: the query looks at the table, purge_episode at
\* the row as the session loaded it.
Stale(p) == ((local \cap pass[p].loaded) \ pass[p].window) \ pass[p].protected

PassTrimUnrecorded(p) ==   \* mutant: the trimmed rows keep their local_path
  /\ pass[p].pc = "protected"
  /\ file' = file \ Stale(p)
  /\ pass' = [pass EXCEPT ![p].pc = "trimmed", ![p].loaded = {}, ![p].protected = {}]
  /\ UNCHANGED <<rows, job, part, worker, handler, faults, starred, played, sweep>>

\* They are read and unlinked at once.
PassTrim(p) ==
  /\ pass[p].pc = "protected"
  /\ file' = file \ Stale(p)
  /\ pass' = [pass EXCEPT ![p].pc = "trimmed", ![p].loaded = {}, ![p].protected = {},
                         ![p].cut = Stale(p)]
  /\ UNCHANGED <<rows, job, part, worker, handler, faults, starred, played, sweep>>

\* enqueue_download, up to its inserts, for the window's episodes without a file.
PassEnqueue(p) ==
  /\ pass[p].pc = "trimmed"
  /\ pass' = [pass EXCEPT ![p].pc = "enqueued", ![p].window = {},
       ![p].plan = {e \in pass[p].window : e \notin local /\ ~HasLiveJob(e)}]
  /\ UNCHANGED <<vars, starred, played, sweep>>

PassEnds(p) == pass' = [pass EXCEPT ![p] = IdlePass]

\* An id of its own for each of the new jobs.
InsertJobs(new) ==
  \E id \in [new -> FreeJobs] :
    /\ \A e, f \in new : id[e] = id[f] => e = f
    /\ job' = [j \in Jobs |->
         IF \E e \in new : id[e] = j
         THEN [state |-> "queued", ep |-> CHOOSE e \in new : id[e] = j,
               source |-> "auto", attempts |-> 0]
         ELSE job[j]]

PassCommitOrphans(p) ==   \* mutant: the commit does not depend on the feed's row
  /\ pass[p].pc = "enqueued"
  /\ InsertJobs({e \in pass[p].plan : ~HasLiveJob(e)})
  /\ present' = present \cup pass[p].arrivals
  /\ local' = local \ pass[p].cut
  /\ purged' = purged \cup pass[p].cut
  /\ PassEnds(p)
  /\ UNCHANGED <<subscribed, queue, disk, worker, handler, faults,
                 starred, played, sweep>>

\* The inserts the live-job index accepts, and the commit.
PassCommit(p) ==
  /\ pass[p].pc = "enqueued"
  /\ subscribed
  /\ InsertJobs({e \in pass[p].plan : ~HasLiveJob(e)})
  /\ present' = present \cup pass[p].arrivals
  /\ local' = local \ pass[p].cut
  /\ purged' = purged \cup pass[p].cut
  /\ PassEnds(p)
  /\ UNCHANGED <<subscribed, queue, disk, worker, handler, faults,
                 starred, played, sweep>>

\* The feed went: what the pass would write has no row, and it is rolled back.
PassAbort(p) ==
  /\ pass[p].pc # "idle"
  /\ ~subscribed
  /\ PassEnds(p)
  /\ UNCHANGED <<vars, starred, played, sweep>>

-----------------------------------------------------------------------------
\* What the download queue does beside the passes.  Unsubscribing takes the
\* episodes' states with it.
QueueStep ==
  /\ Step
  /\ IF subscribed' THEN UNCHANGED <<starred, played>>
     ELSE starred' = {} /\ played' = {}
  /\ UNCHANGED passes

StorageCrash ==
  /\ Crash
  /\ sweep' = IdleSweep /\ pass' = [p \in Passes |-> IdlePass]
  /\ UNCHANGED <<starred, played>>

Sweeping == SweepQueue \/ SweepStars \/ SweepUnlink \/ SweepCommit \/ SweepAbort

Windowing(p, occasions) ==
  \/ \E occasion \in occasions, count \in WindowCounts,
        arrivals \in SUBSET (Episodes \ present) : PassStart(p, occasion, count, arrivals)
  \/ \E mode \in Modes : PassProtect(p, mode)
  \/ PassTrim(p) \/ PassEnqueue(p) \/ PassCommit(p) \/ PassAbort(p)

StorageNext ==
  \/ QueueStep
  \/ StorageCrash
  \/ \E e \in Episodes : Star(e) \/ Unstar(e) \/ MarkPlayed(e)
  \/ Sweeping
  \/ \E p \in Passes : Windowing(p, Occasions)

StorageSpec == StorageInit /\ [][StorageNext]_storageVars

-----------------------------------------------------------------------------
StorageTypeOK ==
  /\ TypeOK
  /\ starred \subseteq Episodes /\ played \subseteq Episodes
  /\ sweep \in SweepState
  /\ pass \in [Passes -> PassState]

\* With no accident and no crash, a row with local_path has its file, except
\* while a delete, a sweep or a trim that unlinked it is about to commit
\* (retention.py:36-55, 109-163; refresh.py:235-254).
StorageLocalHasFile ==
  faults.crash = 0 /\ faults.wipe = 0 =>
    \A e \in local \ file :
      MidPurge(e) \/ e \in sweep.cut \/ \E p \in Passes : e \in pass[p].cut

\* A pass holds purged rows from its unlinks to its commit; they are there,
\* unless the show went, and so is what it means to fetch.
PassHoldsRows(p) ==
  /\ pass[p].pc \notin {"trimmed", "enqueued"} => pass[p].cut = {}
  /\ subscribed => /\ pass[p].cut \subseteq present
                   /\ pass[p].window \cup pass[p].plan \subseteq present \cup pass[p].arrivals
PassesHoldRows ==
  /\ sweep.pc # "unlinked" => sweep.cut = {}
  /\ subscribed => sweep.cut \subseteq present
  /\ \A p \in Passes : PassHoldsRows(p)

\* What the theorems of StorageProofs carry from step to step.
StorageConsistent ==
  /\ Core
  /\ StorageTypeOK
  /\ PassesHoldRows
  /\ StorageLocalHasFile

\* Left to itself -- no listener, no crash -- the window is brought about: the
\* newest non-purged episodes are on disk or have a job that failed for good,
\* and nothing else is, but what somebody asked for (refresh.py:213-221).  Ids
\* run out when downloads keep failing, or a purge keeps meeting a refresh that
\* had already read its window and fetches the episode again.
Refreshes == Occasions \ {"settings"}
HandsOffNext ==
  QueueStep \/ Sweeping \/ \E p \in Passes : Windowing(p, Refreshes)
HandsOffSpec ==
  /\ StorageInit /\ [][HandsOffNext]_storageVars
  /\ WF_storageVars(Restart /\ QueueStep)
  /\ \A w \in Workers : WF_storageVars(Progress(w) /\ QueueStep)
  /\ \A j \in Jobs : SF_storageVars((\E w \in Workers : Claim(w, j)) /\ QueueStep)
  /\ WF_storageVars(Sweeping)
  /\ \A p \in Passes : WF_storageVars(Windowing(p, Refreshes))

InWindow(count) == Newest(count, present \ purged)
WindowHolds(count) ==
  /\ \A e \in InWindow(count) :
       e \in local \cap file \/ \E j \in Jobs : job[j].ep = e /\ job[j].state = "failed"
  /\ local \subseteq InWindow(count) \cup Claimed
Converged == FreeJobs = {} \/ \A count \in WindowCounts : WindowHolds(count)
WindowConverges == <>[]Converged

-----------------------------------------------------------------------------
(* What the repository says of the passes and they do not do               *)

=============================================================================
