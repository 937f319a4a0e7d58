------------------------------ MODULE Downloads ------------------------------
(***************************************************************************)
(* The download queue: the download_jobs table, the workers that drain it, *)
(* the episode columns they write, the files they leave, and the request   *)
(* handlers that enqueue, purge and unsubscribe beside them.               *)
(*                                                                         *)
(* Every transaction is cut where the code awaits: what was read before an *)
(* await is kept in the worker's or the handler's record and may be stale  *)
(* when it is written.  A write commits in one action.                     *)
(***************************************************************************)
EXTENDS Naturals, FiniteSets

CONSTANTS
  Episodes,     \* episodes of the subscribed show; each has an enclosure
  Jobs,         \* ids the download_jobs table may hand out
  Workers,      \* download_concurrency workers
  Handlers,     \* requests in flight at once
  None,         \* "no episode" and "no job"
  MaxAttempts,  \* MAX_ATTEMPTS
  MaxCrashes, MaxWipes, MaxDbFaults, MaxLateFaults   \* bounds on bad luck

ASSUME DownloadsAssumption ==
  /\ None \notin Episodes /\ None \notin Jobs
  /\ MaxAttempts \in Nat \ {0}
  /\ MaxCrashes \in Nat /\ MaxWipes \in Nat
  /\ MaxDbFaults \in Nat /\ MaxLateFaults \in Nat

VARIABLES
  \* committed rows of the database
  subscribed,   \* the feed row exists
  present,      \* episode rows that exist
  local,        \* episodes with local_path set
  purged,       \* episodes with purged_at set
  queue,        \* episodes in the listening queue
  job,          \* download_jobs
  \* the download directory
  file,         \* episodes whose audio is at its final path
  part,         \* episodes with a .part file
  \* coroutines
  worker,       \* each worker's place in _worker / run_job
  handler,      \* each request's place in its handler
  faults        \* how many of each bounded fault happened

rows == <<subscribed, present, local, purged, queue>>
disk == <<file, part>>
vars == <<rows, job, disk, worker, handler, faults>>

Sources == {"auto", "manual", "queue"}
Live == {"queued", "running"}

JobRow ==
  [state : {"absent", "queued", "running", "done", "failed"},
   ep : Episodes \cup {None}, source : Sources, attempts : 0..MaxAttempts]
WorkerState ==
  [pc : {"down", "idle", "claimed", "streaming", "renamed", "post"},
   job : Jobs \cup {None}, ep : Episodes \cup {None},
   local : BOOLEAN, purged : BOOLEAN]
HandlerState ==
  [pc : {"idle", "have", "check", "insert", "purge", "drop"},
   ep : Episodes \cup {None}, source : Sources, gone : BOOLEAN]
FaultCounts ==
  [crash : 0..MaxCrashes, wipe : 0..MaxWipes,
   db : 0..MaxDbFaults, late : 0..MaxLateFaults]

NoJob == [state |-> "absent", ep |-> None, source |-> "auto", attempts |-> 0]
IdleWorker ==
  [pc |-> "idle", job |-> None, ep |-> None, local |-> FALSE, purged |-> FALSE]
DownWorker == [IdleWorker EXCEPT !.pc = "down"]
IdleHandler == [pc |-> "idle", ep |-> None, source |-> "auto", gone |-> FALSE]

LiveJobs(e) == {j \in Jobs : job[j].ep = e /\ job[j].state \in Live}
HasLiveJob(e) == LiveJobs(e) # {}
Requested(e) ==
  \E j \in Jobs : job[j].state # "absent" /\ job[j].ep = e /\ job[j].source # "auto"
OnDisk(e) == e \in local /\ e \in file

\* Job ids not yet handed out, and the bound that keeps one for every
\* request that may still insert.
FreeJobs == {j \in Jobs : job[j].state = "absent"}
Asking == {h \in Handlers : handler[h].pc \in {"have", "check", "insert"}}
RoomToAsk == Cardinality(FreeJobs) > Cardinality(Asking)

Init ==
  /\ subscribed = TRUE
  /\ present \in SUBSET Episodes
  /\ local = {} /\ purged = {} /\ queue = {}
  /\ job = [j \in Jobs |-> NoJob]
  /\ file = {} /\ part = {}
  /\ worker = [w \in Workers |-> DownWorker]
  /\ handler = [h \in Handlers |-> IdleHandler]
  /\ faults = [crash |-> 0, wipe |-> 0, db |-> 0, late |-> 0]

-----------------------------------------------------------------------------
(* Workers                                                                 *)

Free(w) == worker' = [worker EXCEPT ![w] = IdleWorker]

RestartForgets ==   \* mutant: running jobs are left as they are
  /\ \A w \in Workers : worker[w].pc = "down"
  /\ worker' = [w \in Workers |-> IdleWorker]
  /\ UNCHANGED <<rows, job, disk, handler, faults>>

RestartBeside ==   \* mutant: running jobs are requeued beside running workers
  /\ job' = [j \in Jobs |->
               IF job[j].state = "running"
               THEN [job[j] EXCEPT !.state = "queued"] ELSE job[j]]
  /\ worker' = [w \in Workers |->
                  IF worker[w].pc = "down" THEN IdleWorker ELSE worker[w]]
  /\ UNCHANGED <<rows, disk, handler, faults>>

\* requeue_stuck_jobs, before the workers start.
Restart ==
  /\ \A w \in Workers : worker[w].pc = "down"
  /\ job' = [j \in Jobs |->
               IF job[j].state = "running"
               THEN [job[j] EXCEPT !.state = "queued"] ELSE job[j]]
  /\ worker' = [w \in Workers |-> IdleWorker]
  /\ UNCHANGED <<rows, disk, handler, faults>>

ClaimUnlocked(w, j) ==   \* mutant: the claim neither locks nor marks the row
  /\ worker[w].pc = "idle"
  /\ job[j].state \in Live
  /\ job' = [job EXCEPT ![j].state = "running"]
  /\ worker' = [worker EXCEPT ![w] =
       [IdleWorker EXCEPT !.pc = "claimed", !.job = j, !.ep = job[j].ep]]
  /\ UNCHANGED <<rows, disk, handler, faults>>

\* _claim_job: the row lock (SKIP LOCKED) and the commit make it one step.
Claim(w, j) ==
  /\ worker[w].pc = "idle"
  /\ job[j].state = "queued"
  /\ job' = [job EXCEPT ![j].state = "running"]
  /\ worker' = [worker EXCEPT ![w] =
       [IdleWorker EXCEPT !.pc = "claimed", !.job = j, !.ep = job[j].ep]]
  /\ UNCHANGED <<rows, disk, handler, faults>>

\* run_job: the audio is there already, so the job completes without a fetch.
CompleteOnDisk(w) ==
  /\ worker[w].pc = "claimed"
  /\ worker[w].ep \in present /\ OnDisk(worker[w].ep)
  /\ job' = [job EXCEPT ![worker[w].job].state = "done"]
  /\ Free(w)
  /\ UNCHANGED <<rows, disk, handler, faults>>

\* run_job: the episode went with its feed, and its job row with it; the
\* commit that would mark the job failed finds no row and the worker moves on.
Abandon(w) ==
  /\ worker[w].pc = "claimed"
  /\ worker[w].ep \notin present
  /\ Free(w)
  /\ UNCHANGED <<rows, job, disk, handler, faults>>

\* run_job reads the row, answers the GET and opens the .part file.  The row
\* as read stays in the session: only columns that differ from it are written.
BeginFetch(w) ==
  LET e == worker[w].ep IN
  /\ worker[w].pc = "claimed"
  /\ e \in present /\ ~OnDisk(e)
  /\ part' = part \cup {e}
  /\ worker' = [worker EXCEPT ![w].pc = "streaming",
                              ![w].local = (e \in local),
                              ![w].purged = (e \in purged)]
  /\ UNCHANGED <<rows, job, file, handler, faults>>

\* The stream ended whole: the .part file is renamed over the final path.
Rename(w) ==
  LET e == worker[w].ep IN
  /\ worker[w].pc = "streaming"
  /\ e \in part
  /\ part' = part \ {e}
  /\ file' = file \cup {e}
  /\ worker' = [worker EXCEPT ![w].pc = "renamed"]
  /\ UNCHANGED <<rows, job, handler, faults>>

FailJobOnceMore(j) ==   \* mutant: > for >= at the attempt cap
  LET tried == job[j].attempts + 1 IN
  IF job[j].state = "absent" THEN UNCHANGED job
  ELSE IF tried > MaxAttempts
  THEN job' = [job EXCEPT ![j].state = "failed", ![j].attempts = tried]
  ELSE IF LiveJobs(job[j].ep) \ {j} # {} THEN UNCHANGED job
  ELSE job' = [job EXCEPT ![j].state = "queued", ![j].attempts = tried]

FailJobForever(j) ==   \* mutant: the attempt is not counted
  IF job[j].state = "absent" \/ LiveJobs(job[j].ep) \ {j} # {} THEN UNCHANGED job
  ELSE job' = [job EXCEPT ![j].state = "queued"]

\* _fail_job.  A job whose row was deleted cannot be written, and one that
\* would become a second live job for its episode is refused by the index.
FailJob(j) ==
  LET tried == job[j].attempts + 1 IN
  IF job[j].state = "absent" THEN UNCHANGED job
  ELSE IF tried >= MaxAttempts
  THEN job' = [job EXCEPT ![j].state = "failed", ![j].attempts = tried]
  ELSE IF LiveJobs(job[j].ep) \ {j} # {} THEN UNCHANGED job
  ELSE job' = [job EXCEPT ![j].state = "queued", ![j].attempts = tried]

\* The fetch failed, timed out, was cut short or lost its .part file.
FailFetch(w) ==
  /\ worker[w].pc = "streaming"
  /\ part' = part \ {worker[w].ep}
  /\ FailJob(worker[w].job)
  /\ Free(w)
  /\ UNCHANGED <<rows, file, handler, faults>>

RecordStillPurged(w) ==   \* mutant: purged_at is not cleared
  LET e == worker[w].ep IN
  /\ worker[w].pc = "renamed"
  /\ e \in present
  /\ local' = IF worker[w].local THEN local ELSE local \cup {e}
  /\ job' = [job EXCEPT ![worker[w].job].state = "done"]
  /\ worker' = [worker EXCEPT ![w].pc = "post"]
  /\ UNCHANGED <<subscribed, present, purged, queue, disk, handler, faults>>

\* The row is written and the job is done, in one commit.
Record(w) ==
  LET e == worker[w].ep IN
  /\ worker[w].pc = "renamed"
  /\ e \in present
  /\ local' = IF worker[w].local THEN local ELSE local \cup {e}
  /\ purged' = IF worker[w].purged THEN purged \ {e} ELSE purged
  /\ job' = [job EXCEPT ![worker[w].job].state = "done"]
  /\ worker' = [worker EXCEPT ![w].pc = "post"]
  /\ UNCHANGED <<subscribed, present, queue, disk, handler, faults>>

\* The row went with its feed while the audio was in flight: the commit
\* fails, the .part path is unlinked and the file stays where it was renamed.
RecordRefused(w) ==
  /\ worker[w].pc = "renamed"
  /\ worker[w].ep \notin present
  /\ part' = part \ {worker[w].ep}
  /\ Free(w)
  /\ UNCHANGED <<rows, job, file, handler, faults>>

\* The database fails run_job before its try, or a commit of run_job and then
\* _fail_job's as well: the exception leaves run_job and _worker only logs it.
LoseJob(w) ==
  /\ worker[w].pc \in {"claimed", "streaming", "renamed"}
  /\ faults.db < MaxDbFaults
  /\ faults' = [faults EXCEPT !.db = @ + 1]
  /\ part' = IF worker[w].pc = "claimed" THEN part ELSE part \ {worker[w].ep}
  /\ Free(w)
  /\ UNCHANGED <<rows, job, file, handler>>

\* process_episode and ensure_transcript went well enough.
Settle(w) ==
  /\ worker[w].pc = "post"
  /\ Free(w)
  /\ UNCHANGED <<rows, job, disk, handler, faults>>

\* An exception after the commit lands in the same handler as one before it.
FailLate(w) ==
  /\ worker[w].pc = "post"
  /\ faults.late < MaxLateFaults
  /\ faults' = [faults EXCEPT !.late = @ + 1]
  /\ part' = part \ {worker[w].ep}
  /\ FailJob(worker[w].job)
  /\ Free(w)
  /\ UNCHANGED <<rows, file, handler>>

-----------------------------------------------------------------------------
(* Requests                                                                *)

Answer(h) == handler' = [handler EXCEPT ![h] = IdleHandler]

\* A request to the queue endpoint also adds the episode to the queue, in the
\* transaction of its enqueue_download.
QueueWith(h) ==
  queue' = IF handler[h].source = "queue" THEN queue \cup {handler[h].ep} ELSE queue

\* A local_path whose file is missing is forgotten by the same transaction.
Forget(h) == local' = IF handler[h].gone THEN local \ {handler[h].ep} ELSE local

InsertJob(e, source, state) ==
  \E j \in FreeJobs :
    job' = [job EXCEPT ![j] =
              [state |-> state, ep |-> e, source |-> source, attempts |-> 0]]

AskTrusting(h, e, source) ==   \* mutant: the disk is not looked at
  /\ handler[h].pc = "idle"
  /\ RoomToAsk
  /\ e \in present
  /\ handler' = [handler EXCEPT ![h] =
       [pc |-> IF e \in local THEN "have" ELSE "check",
        ep |-> e, source |-> source, gone |-> e \in local /\ e \notin file]]
  /\ UNCHANGED <<rows, job, disk, worker, faults>>

\* request_download and add_to_queue: the row is read, and enqueue_download
\* compares it with the disk.
Ask(h, e, source) ==
  /\ handler[h].pc = "idle"
  /\ RoomToAsk
  /\ e \in present
  /\ handler' = [handler EXCEPT ![h] =
       [pc |-> IF OnDisk(e) THEN "have" ELSE "check",
        ep |-> e, source |-> source, gone |-> e \in local /\ e \notin file]]
  /\ UNCHANGED <<rows, job, disk, worker, faults>>

\* _record_request: the file is there; a done job records who asked for it.
AskHave(h) ==
  LET e == handler[h].ep IN
  /\ handler[h].pc = "have"
  /\ e \in present
  /\ IF Requested(e) THEN UNCHANGED job ELSE InsertJob(e, handler[h].source, "done")
  /\ QueueWith(h)
  /\ Answer(h)
  /\ UNCHANGED <<subscribed, present, local, purged, disk, worker, faults>>

\* enqueue_download found a job waiting or running: it becomes the asker's if
\* it was automatic.
AskJoin(h) ==
  LET e == handler[h].ep IN
  /\ handler[h].pc = "check"
  /\ e \in present
  /\ \E j \in LiveJobs(e) :
       job' = IF job[j].source = "auto"
              THEN [job EXCEPT ![j].source = handler[h].source] ELSE job
  /\ QueueWith(h)
  /\ Forget(h)
  /\ Answer(h)
  /\ UNCHANGED <<subscribed, present, purged, disk, worker, faults>>

\* enqueue_download found none and goes on to insert one.
AskNone(h) ==
  /\ handler[h].pc = "check"
  /\ handler[h].ep \in present
  /\ ~HasLiveJob(handler[h].ep)
  /\ handler' = [handler EXCEPT ![h].pc = "insert"]
  /\ UNCHANGED <<rows, job, disk, worker, faults>>

AskInsertUnindexed(h) ==   \* mutant: no partial unique index
  LET e == handler[h].ep IN
  /\ handler[h].pc = "insert"
  /\ e \in present
  /\ InsertJob(e, handler[h].source, "queued")
  /\ QueueWith(h)
  /\ Forget(h)
  /\ Answer(h)
  /\ UNCHANGED <<subscribed, present, purged, disk, worker, faults>>

\* The insert under the savepoint.  If the live-job index refuses it the other
\* transaction's job is returned as it is.
AskInsert(h) ==
  LET e == handler[h].ep IN
  /\ handler[h].pc = "insert"
  /\ e \in present
  /\ IF HasLiveJob(e) THEN UNCHANGED job ELSE InsertJob(e, handler[h].source, "queued")
  /\ QueueWith(h)
  /\ Forget(h)
  /\ Answer(h)
  /\ UNCHANGED <<subscribed, present, purged, disk, worker, faults>>

\* remove_from_queue.
Unqueue(e) ==
  /\ e \in queue
  /\ queue' = queue \ {e}
  /\ UNCHANGED <<subscribed, present, local, purged, job, disk, worker, handler, faults>>

\* delete_download up to its commit: purge_episode unlinks at once.
PurgeUnlink(h, e) ==
  /\ handler[h].pc = "idle"
  /\ e \in local
  /\ file' = file \ {e}
  /\ handler' = [handler EXCEPT ![h] = [IdleHandler EXCEPT !.pc = "purge", !.ep = e]]
  /\ UNCHANGED <<rows, job, part, worker, faults>>

PurgeKeepsPath(h) ==   \* mutant: the file goes, local_path stays
  LET e == handler[h].ep IN
  /\ handler[h].pc = "purge"
  /\ e \in present
  /\ purged' = purged \cup {e}
  /\ Answer(h)
  /\ UNCHANGED <<subscribed, present, local, queue, job, disk, worker, faults>>

PurgeCommit(h) ==
  LET e == handler[h].ep IN
  /\ handler[h].pc = "purge"
  /\ e \in present
  /\ local' = local \ {e}
  /\ purged' = purged \cup {e}
  /\ Answer(h)
  /\ UNCHANGED <<subscribed, present, queue, job, disk, worker, faults>>

\* delete_feed up to its commit: every file a row points at is unlinked.
FeedUnlink(h) ==
  /\ handler[h].pc = "idle"
  /\ subscribed
  /\ file' = file \ local
  /\ handler' = [handler EXCEPT ![h] = [IdleHandler EXCEPT !.pc = "drop"]]
  /\ UNCHANGED <<rows, job, part, worker, faults>>

\* Its commit: the feed goes, and episodes, queue items and jobs cascade.
FeedDrop(h) ==
  /\ handler[h].pc = "drop"
  /\ subscribed
  /\ subscribed' = FALSE
  /\ present' = {} /\ local' = {} /\ purged' = {} /\ queue' = {}
  /\ job' = [j \in Jobs |-> NoJob]
  /\ Answer(h)
  /\ UNCHANGED <<disk, worker, faults>>

\* A handler whose rows went away under it answers an error and writes nothing.
Refuse(h) ==
  /\ handler[h].pc # "idle"
  /\ IF handler[h].pc = "drop" THEN ~subscribed ELSE handler[h].ep \notin present
  /\ Answer(h)
  /\ UNCHANGED <<rows, job, disk, worker, faults>>

-----------------------------------------------------------------------------
(* The world outside                                                       *)

\* The process dies: coroutines and uncommitted work go, files stay.
Crash ==
  /\ faults.crash < MaxCrashes
  /\ faults' = [faults EXCEPT !.crash = @ + 1]
  /\ worker' = [w \in Workers |-> DownWorker]
  /\ handler' = [h \in Handlers |-> IdleHandler]
  /\ UNCHANGED <<rows, job, disk>>

\* A volume is wiped, or a backup from before a purge is restored.
Wipe(e) ==
  /\ faults.wipe < MaxWipes
  /\ e \in file
  /\ faults' = [faults EXCEPT !.wipe = @ + 1]
  /\ file' = file \ {e}
  /\ UNCHANGED <<rows, job, part, worker, handler>>

WorkerStep(w) ==
  \/ \E j \in Jobs : Claim(w, j)
  \/ CompleteOnDisk(w) \/ Abandon(w) \/ BeginFetch(w)
  \/ Rename(w) \/ FailFetch(w)
  \/ Record(w) \/ RecordRefused(w) \/ LoseJob(w)
  \/ Settle(w) \/ FailLate(w)

HandlerStep(h) ==
  \/ \E e \in Episodes, source \in {"manual", "queue"} : Ask(h, e, source)
  \/ AskHave(h) \/ AskJoin(h) \/ AskNone(h) \/ AskInsert(h)
  \/ \E e \in Episodes : PurgeUnlink(h, e)
  \/ PurgeCommit(h)
  \/ FeedUnlink(h) \/ FeedDrop(h)
  \/ Refuse(h)

\* What the process and its users do, apart from a crash.
Step ==
  \/ Restart
  \/ \E w \in Workers : WorkerStep(w)
  \/ \E h \in Handlers : HandlerStep(h)
  \/ \E e \in Episodes : Unqueue(e)
  \/ \E e \in Episodes : Wipe(e)

Next == Step \/ Crash

Spec == Init /\ [][Next]_vars

\* The workers keep polling and every transfer ends at its deadline, so a
\* worker that can move does; the claim takes the oldest due job first, so no
\* queued job is passed over for ever; the container is restarted.  Users and
\* faults are not fair, and neither is the database when it fails.
Progress(w) ==
  \/ CompleteOnDisk(w) \/ Abandon(w) \/ BeginFetch(w)
  \/ Rename(w) \/ FailFetch(w)
  \/ Record(w) \/ RecordRefused(w)
  \/ Settle(w)
Reply(h) ==
  \/ AskHave(h) \/ AskJoin(h) \/ AskNone(h) \/ AskInsert(h)
  \/ PurgeCommit(h) \/ FeedDrop(h) \/ Refuse(h)

Fairness ==
  /\ WF_vars(Restart)
  /\ \A w \in Workers : WF_vars(Progress(w))
  /\ \A j \in Jobs : SF_vars(\E w \in Workers : Claim(w, j))
  /\ \A h \in Handlers : WF_vars(Reply(h))

FairSpec == Spec /\ Fairness

-----------------------------------------------------------------------------
(* What makes it correct                                                   *)

\* Each variable has the values its column, file set or coroutine may have.
TypeOK ==
  /\ subscribed \in BOOLEAN
  /\ present \subseteq Episodes
  /\ local \subseteq Episodes /\ purged \subseteq Episodes /\ queue \subseteq Episodes
  /\ job \in [Jobs -> JobRow]
  /\ file \subseteq Episodes /\ part \subseteq Episodes
  /\ worker \in [Workers -> WorkerState]
  /\ handler \in [Handlers -> HandlerState]
  /\ faults \in FaultCounts

\* At most one job of an episode is waiting or running (the partial index of
\* models.py:346-357, which two racing enqueues, a retry and a restart all
\* have to respect).
OneLiveJob ==
  \A i, j \in Jobs :
    /\ job[i].state \in Live /\ job[j].state \in Live
    /\ job[i].ep = job[j].ep
    => i = j

\* Two workers never stream into the same .part file, whatever is requeued,
\* retried or asked for again (models.py:349-350).
OneWriter ==
  \A v, w \in Workers :
    /\ worker[v].pc = "streaming" /\ worker[w].pc = "streaming"
    /\ worker[v].ep = worker[w].ep
    => v = w

Holding(w) == worker[w].pc \in {"claimed", "streaming", "renamed"}

\* Once the workers are up, a running job is in some worker's hands, except
\* one for each time the database failed under run_job and _fail_job: nothing
\* but the requeue at startup would pick it up again (downloader.py:54-63).
RunningJobsHeld ==
  (\A w \in Workers : worker[w].pc # "down") =>
    Cardinality({j \in Jobs : /\ job[j].state = "running"
                             /\ \A w \in Workers : Holding(w) => worker[w].job # j})
      <= faults.db

\* While a worker streams, its .part file is there: no retry, abandoned job or
\* restart unlinks another worker's (downloader.py:225 does it by path).  Only
\* a failure after the commit does (see DoneIsFinal).
PartPresent ==
  faults.late = 0 =>
    \A w \in Workers : worker[w].pc = "streaming" => worker[w].ep \in part

\* With no accident and no crash, a row with local_path has its file, except
\* while a purge that has unlinked it is about to commit (retention.py:36-55).
MidPurge(e) ==
  \E h \in Handlers :
    \/ handler[h].pc = "purge" /\ handler[h].ep = e
    \/ handler[h].pc = "drop"
LocalHasFile ==
  faults.crash = 0 /\ faults.wipe = 0 => \A e \in local \ file : MidPurge(e)

\* An episode on disk is not marked purged, which would hide it from the
\* auto-download window (refresh.py:169).  This is of requests that come one at a
\* time: a purge and a request for the same episode in flight together break it.
LocalNotPurged == local \cap purged = {}

(* The strengthening that makes OneLiveJob, OneWriter and LocalHasFile         *)
(* inductive; it is what the theorems of DownloadsProofs rest on.              *)

Working(w) == Holding(w) \/ worker[w].pc = "post"

\* Rows die with the feed, together.
FeedTakesRows ==
  /\ local \subseteq present
  /\ \A j \in Jobs : job[j].state # "absent" => job[j].ep \in present
  /\ ~subscribed => present = {}

\* Only a failed job has used up its attempts.
AttemptsLeft ==
  \A j \in Jobs : job[j].state # "failed" => job[j].attempts < MaxAttempts

\* A worker's job is the running one of its episode, until it is done.
WorkerOwnsJob ==
  \A w \in Workers : Working(w) =>
    /\ worker[w].job \in Jobs /\ worker[w].ep \in Episodes
    /\ subscribed =>
         /\ worker[w].ep \in present
         /\ job[worker[w].job].ep = worker[w].ep
         /\ job[worker[w].job].state = IF Holding(w) THEN "running" ELSE "done"
WorkersApart ==
  \A v, w \in Workers : v # w /\ Working(v) /\ Working(w) =>
    /\ worker[v].job # worker[w].job
    /\ Holding(v) /\ Holding(w) => worker[v].ep # worker[w].ep

\* An episode read as not downloaded is recorded by nobody else, so the file
\* that was renamed for it cannot be purged before it is recorded.
NobodyElseRecords ==
  \A w \in Workers :
    worker[w].pc \in {"streaming", "renamed"} /\ ~worker[w].local
      => worker[w].ep \notin local
RenamedStays ==
  faults.wipe = 0 =>
    \A w \in Workers :
      worker[w].pc = "renamed" /\ ~worker[w].local => worker[w].ep \in file

Core ==
  /\ TypeOK
  /\ FeedTakesRows /\ AttemptsLeft
  /\ OneLiveJob /\ WorkerOwnsJob /\ WorkersApart
  /\ NobodyElseRecords /\ RenamedStays
Consistent == Core /\ LocalHasFile

\* Every job ends, unless the database loses it.
JobsSettle ==
  \A j \in Jobs :
    (job[j].state \in Live) ~> (job[j].state \notin Live \/ faults.db > 0)

\* A request for an episode whose file was lost brings the file back, or the
\* job fails for good, or the show goes (services.py:281-291).  A crash may
\* drop the request before it commits.
LostFileRefetched ==
  \A h \in Handlers, e \in Episodes :
    (handler[h].ep = e /\ handler[h].gone) ~>
      \/ e \in file
      \/ \E j \in Jobs : job[j].ep = e /\ job[j].state = "failed"
      \/ e \notin present
      \/ faults.crash > 0 \/ faults.db > 0

\* The job table, the workers and the files together promise no more and no
\* less than single-flight fetching.
F == INSTANCE FetchOnce WITH
  Fetchers <- Workers,
  wanted <- {e \in Episodes : HasLiveJob(e)},
  fetching <- [w \in Workers |->
                 IF worker[w].pc = "streaming" THEN worker[w].ep ELSE None],
  shelf <- file
FetchesOnce == F!Spec

-----------------------------------------------------------------------------
(* What the repository says of the program and the program does not do     *)

\* "a failure in it must not cost a download that already succeeded"
\* (downloader.py:211-212): a job that is done stays done while its row exists.
DoneIsFinal ==
  [][\A j \in Jobs : job[j].state = "done" => job'[j].state \in {"done", "absent"}]_vars

\* "The audio goes with the rows because once the rows are gone nothing points
\* at the files" (feed_routes.py:215-218): no file outlives its show once the
\* workers have let go of it.
NoOrphanAudio ==
  (\A w \in Workers : worker[w].pc \notin {"streaming", "renamed"}) => file \subseteq present
=============================================================================
