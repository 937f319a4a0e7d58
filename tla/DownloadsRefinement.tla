-------------------------- MODULE DownloadsRefinement --------------------------
(* The download queue implements FetchOnce: each of its steps is one of the *)
(* abstract steps, or leaves wanted, fetching and shelf alone.              *)
EXTENDS DownloadsProofs

Wanted == {e \in Episodes : HasLiveJob(e)}
Fetching ==
  [w \in Workers |-> IF worker[w].pc = "streaming" THEN worker[w].ep ELSE None]

\* Which episodes are wanted is read off the states of the jobs.
LEMMA WantedSame ==
  ASSUME \A j \in Jobs : /\ job'[j].ep = job[j].ep
                         /\ job'[j].state \in Live <=> job[j].state \in Live
  PROVE  Wanted' = Wanted
BY DEF Wanted, HasLiveJob, LiveJobs

LEMMA WantedShrinks ==
  ASSUME \A j \in Jobs : job'[j].state \in Live =>
           job'[j].ep = job[j].ep /\ job[j].state \in Live
  PROVE  Wanted' \subseteq Wanted
BY DEF Wanted, HasLiveJob, LiveJobs

LEMMA WantedGrows ==
  ASSUME \A j \in Jobs : job[j].state \in Live =>
           job'[j].ep = job[j].ep /\ job'[j].state \in Live
  PROVE  Wanted \subseteq Wanted' /\ Wanted' \subseteq Episodes
BY DEF Wanted, HasLiveJob, LiveJobs

\* What a fetcher is writing is read off its worker, while it streams.
LEMMA FetchingSame ==
  ASSUME \A w \in Workers :
           \/ worker'[w].pc # "streaming" /\ worker[w].pc # "streaming"
           \/ worker'[w] = worker[w]
  PROVE  Fetching' = Fetching
BY DEF Fetching

LEMMA FetchingFreed ==
  ASSUME NEW w \in Workers, worker \in [Workers -> WorkerState], Free(w)
  PROVE  /\ Fetching' = [Fetching EXCEPT ![w] = None]
         /\ worker[w].pc # "streaming" => Fetching' = Fetching
BY DEF Fetching, Free, IdleWorker

\* A worker at work on an episode that is still there holds its only live job.
LEMMA RunningWanted ==
  ASSUME Core, NEW w \in Workers, Holding(w), worker[w].ep \in present
  PROVE  /\ worker[w].job \in Jobs
         /\ job[worker[w].job].state = "running"
         /\ job[worker[w].job].ep = worker[w].ep
         /\ worker[w].ep \in Wanted
         /\ \A j \in Jobs : job[j].state \in Live /\ job[j].ep = worker[w].ep
              => j = worker[w].job
<1>1. subscribed
  BY DEF Core, FeedTakesRows
<1>2. /\ worker[w].job \in Jobs /\ worker[w].ep \in Episodes
      /\ job[worker[w].job].state = "running"
      /\ job[worker[w].job].ep = worker[w].ep
  BY <1>1 DEF Core, WorkerOwnsJob, Working
<1>3. worker[w].ep \in Wanted
  BY <1>2 DEF Wanted, HasLiveJob, LiveJobs, Live
<1> QED BY <1>2, <1>3 DEF Core, OneLiveJob, Live

\* A failed fetch leaves its episode wanted, unless its attempts are used up.
LEMMA FailFetchWanted ==
  ASSUME Core, NEW w \in Workers, worker[w].pc = "streaming", FailJob(worker[w].job)
  PROVE  Wanted' \in {Wanted, Wanted \ {worker[w].ep}}
<1>0. job \in [Jobs -> JobRow] /\ worker[w].job \in Jobs
  BY OwnedJob DEF Core, TypeOK, Working, Holding
<1> DEFINE own == worker[w].job
<1>1. CASE UNCHANGED job
  BY <1>1, WantedSame
<1>2. CASE ~UNCHANGED job
  <2>1. worker[w].ep \in present
    BY <1>0, <1>2 DEF FailJob, Core, WorkerOwnsJob, FeedTakesRows, Working, Holding
  <2>2. /\ job[own].state = "running" /\ job[own].ep = worker[w].ep
        /\ \A j \in Jobs : job[j].state \in Live /\ job[j].ep = worker[w].ep => j = own
    BY <2>1, RunningWanted DEF Holding
  <2>3. CASE job'[own].state = "queued"
    BY <1>0, <1>2, <2>2, <2>3, WantedSame DEF FailJob, JobRow, Live
  <2>4. CASE job'[own].state = "failed"
    <3>1. \A j \in Jobs : j # own => job'[j] = job[j]
      BY <1>0, <1>2 DEF FailJob
    <3>2. \A e \in Episodes : HasLiveJob(e)' <=> HasLiveJob(e) /\ e # worker[w].ep
      BY <2>2, <2>4, <3>1 DEF HasLiveJob, LiveJobs, Live
    <3> QED BY <3>2 DEF Wanted
  <2> QED BY <1>0, <1>2, <2>3, <2>4 DEF FailJob, JobRow
<1> QED BY <1>1, <1>2

LEMMA StartStep ==
  ASSUME Core, NEW w \in Workers, NEW e \in Episodes, e = worker[w].ep, BeginFetch(w)
  PROVE  F!Start(w, e)
<1>0. worker \in [Workers -> WorkerState] /\ WorkersApart
  BY DEF Core, TypeOK
<1>1. worker[w].pc = "claimed" /\ worker[w].ep \in present /\ Holding(w)
  BY DEF BeginFetch, Holding
<1>2. worker[w].ep \in Wanted /\ worker[w].ep \in Episodes
  BY <1>1, RunningWanted DEF Wanted
<1>3. Fetching[w] = None
  BY <1>1 DEF Fetching
<1>4. \A v \in Workers : Fetching[v] # worker[w].ep
  BY <1>0, <1>1, <1>2, DownloadsAssumption DEF Fetching, WorkersApart, Working, Holding
<1>5. worker'[w].pc = "streaming" /\ worker'[w].ep = worker[w].ep
      /\ \A v \in Workers \ {w} : worker'[v] = worker[v]
  BY <1>0 DEF BeginFetch, WorkerState
<1>6. Fetching' = [Fetching EXCEPT ![w] = worker[w].ep]
  BY <1>5 DEF Fetching
<1>7. Wanted' = Wanted /\ file' = file
  BY WantedSame DEF BeginFetch
<1> QED BY <1>2, <1>3, <1>4, <1>6, <1>7 DEF F!Start, Fetching, Wanted

LEMMA RenameStep ==
  ASSUME Core, NEW w \in Workers, Rename(w)
  PROVE  F!Complete(w)
<1>0. worker \in [Workers -> WorkerState]
  BY DEF Core, TypeOK
<1>1. Fetching[w] = worker[w].ep /\ worker[w].ep # None
  BY OwnedJob, DownloadsAssumption DEF Rename, Fetching, Working, Holding
<1>2. worker'[w].pc = "renamed" /\ \A v \in Workers \ {w} : worker'[v] = worker[v]
  BY <1>0 DEF Rename, WorkerState
<1>3. Fetching' = [Fetching EXCEPT ![w] = None]
  BY <1>2 DEF Fetching
<1>4. Wanted' = Wanted /\ file' = file \cup {worker[w].ep}
  BY WantedSame DEF Rename
<1> QED BY <1>1, <1>3, <1>4 DEF F!Complete, Fetching, Wanted

LEMMA GiveUpStep ==
  ASSUME Core, NEW w \in Workers, worker[w].pc = "streaming",
         FailFetch(w) \/ LoseJob(w)
  PROVE  F!GiveUp(w)
<1>0. worker \in [Workers -> WorkerState]
  BY DEF Core, TypeOK
<1>1. Fetching[w] = worker[w].ep /\ worker[w].ep # None
  BY OwnedJob, DownloadsAssumption DEF Fetching, Working, Holding
<1>2. Fetching' = [Fetching EXCEPT ![w] = None]
  BY <1>0, FetchingFreed DEF FailFetch, LoseJob
<1>3. Wanted' \in {Wanted, Wanted \ {worker[w].ep}}
  BY FailFetchWanted, WantedSame DEF FailFetch, LoseJob
<1>4. file' = file
  BY DEF FailFetch, LoseJob
<1> QED BY <1>1, <1>2, <1>3, <1>4 DEF F!GiveUp, Fetching, Wanted

LEMMA SettleStep ==
  ASSUME Wanted' \subseteq Wanted, Fetching' = Fetching, file' = file
  PROVE  F!Settle
<1> DEFINE es == Wanted \ Wanted'
<1>1. es \in SUBSET Wanted /\ Wanted' = Wanted \ es
  OBVIOUS
<1> HIDE DEF es
<1> QED BY <1>1, Zenon DEF F!Settle, Fetching, Wanted

LEMMA WantStep ==
  ASSUME Wanted \subseteq Wanted', Wanted' \subseteq Episodes,
         Fetching' = Fetching, file' = file
  PROVE  F!Want
<1>1. Wanted' \in SUBSET Episodes /\ Wanted' = Wanted \cup Wanted'
  OBVIOUS
<1> QED BY <1>1, Zenon DEF F!Want, Fetching, Wanted

LEMMA DiscardStep ==
  ASSUME Wanted' = Wanted, Fetching' = Fetching, file' \subseteq file
  PROVE  F!Discard
<1> DEFINE es == file \ file'
<1>1. es \in SUBSET file /\ file' = file \ es
  OBVIOUS
<1> HIDE DEF es
<1> QED BY <1>1, Zenon DEF F!Discard, Fetching, Wanted

LEMMA StutterStep ==
  ASSUME Wanted' = Wanted, Fetching' = Fetching, file' = file
  PROVE  UNCHANGED F!vars
BY DEF F!vars, Fetching, Wanted

LEMMA WorkerRefines ==
  ASSUME Core, NEW w \in Workers, WorkerStep(w)
  PROVE  F!Next \/ UNCHANGED F!vars
<1>0. job \in [Jobs -> JobRow] /\ worker \in [Workers -> WorkerState]
  BY DEF Core, TypeOK
<1> USE DEF F!Next
<1>1. ASSUME NEW j \in Jobs, Claim(w, j) PROVE UNCHANGED F!vars
  <2>1. Wanted' = Wanted
    BY <1>0, <1>1, WantedSame DEF Claim, JobRow, Live
  <2>2. Fetching' = Fetching
    BY <1>0, <1>1, FetchingSame DEF Claim, IdleWorker
  <2> QED BY <1>1, <2>1, <2>2, StutterStep DEF Claim, disk
<1>2. ASSUME CompleteOnDisk(w) PROVE F!Settle
  <2>1. worker[w].job \in Jobs /\ job[worker[w].job].state = "running"
    BY <1>2, RunningWanted DEF CompleteOnDisk, Holding
  <2>2. Wanted' \subseteq Wanted
    BY <1>0, <1>2, <2>1, WantedShrinks DEF CompleteOnDisk, JobRow, Live
  <2>3. Fetching' = Fetching
    BY <1>0, <1>2, FetchingFreed DEF CompleteOnDisk
  <2> QED BY <1>2, <2>2, <2>3, SettleStep DEF CompleteOnDisk, disk
<1>3. ASSUME Abandon(w) \/ RecordRefused(w) \/ Settle(w) PROVE UNCHANGED F!vars
  <2>1. Fetching' = Fetching
    BY <1>0, <1>3, FetchingFreed DEF Abandon, RecordRefused, Settle
  <2>2. Wanted' = Wanted /\ file' = file
    BY <1>3, WantedSame DEF Abandon, RecordRefused, Settle, disk
  <2> QED BY <2>1, <2>2, StutterStep
<1>4. ASSUME BeginFetch(w) PROVE F!Next
  <2>1. PICK e \in Episodes : e = worker[w].ep
    BY <1>4, OwnedJob DEF BeginFetch, Working, Holding
  <2>2. F!Start(w, e)
    BY <1>4, <2>1, StartStep
  <2> QED BY <2>2
<1>5. ASSUME Rename(w) PROVE F!Next
  BY <1>5, RenameStep
<1>6. ASSUME FailFetch(w) PROVE F!Next
  BY <1>6, GiveUpStep DEF FailFetch
<1>7. ASSUME Record(w) PROVE F!Settle
  <2>1. worker[w].job \in Jobs /\ job[worker[w].job].state = "running"
    BY <1>7, RunningWanted DEF Record, Holding
  <2>2. Wanted' \subseteq Wanted
    BY <1>0, <1>7, <2>1, WantedShrinks DEF Record, JobRow, Live
  <2>3. Fetching' = Fetching
    BY <1>0, <1>7, FetchingSame DEF Record, WorkerState
  <2> QED BY <1>7, <2>2, <2>3, SettleStep DEF Record, disk
<1>8. ASSUME LoseJob(w) PROVE F!Next \/ UNCHANGED F!vars
  <2>1. CASE worker[w].pc = "streaming"
    BY <1>8, <2>1, GiveUpStep
  <2>2. CASE worker[w].pc \in {"claimed", "renamed"}
    <3>1. Fetching' = Fetching
      BY <1>0, <1>8, <2>2, FetchingFreed DEF LoseJob
    <3> QED BY <1>8, <3>1, WantedSame, StutterStep DEF LoseJob
  <2> QED BY <1>8, <2>1, <2>2 DEF LoseJob
<1>9. ASSUME FailLate(w) PROVE F!Next
  <2>1. worker[w].job \in Jobs /\ FailJob(worker[w].job) /\ Fetching' = Fetching /\ file' = file
    BY <1>0, <1>9, OwnedJob, FetchingFreed DEF FailLate, Working
  <2>2. job[worker[w].job].state \in {"done", "absent"}
    BY <1>0, <1>9, <2>1 DEF FailLate, Working, Holding, Core, WorkerOwnsJob, FeedTakesRows
  <2>3. Wanted \subseteq Wanted' /\ Wanted' \subseteq Episodes
    <3>1. \A j \in Jobs : job[j].state \in Live => job'[j] = job[j]
      BY <1>0, <2>1, <2>2 DEF FailJob, Live
    <3> QED BY <3>1, WantedGrows
  <2> QED BY <2>1, <2>3, WantStep
<1> QED
  BY <1>1, <1>2, <1>3, <1>4, <1>5, <1>6, <1>7, <1>8, <1>9 DEF WorkerStep

LEMMA HandlerRefines ==
  ASSUME Core, NEW h \in Handlers, HandlerStep(h)
  PROVE  F!Next \/ UNCHANGED F!vars
<1>0. job \in [Jobs -> JobRow]
  BY DEF Core, TypeOK
<1> USE DEF F!Next
<1>1. CASE worker' = worker /\ job' = job /\ file' \subseteq file
  BY <1>1, WantedSame, DiscardStep DEF Fetching
<1>2. ASSUME NEW e \in Episodes, NEW source \in Sources, NEW state \in {"queued", "done"},
             InsertJob(e, source, state), worker' = worker, file' = file
      PROVE  F!Want
  <2>1. Wanted \subseteq Wanted' /\ Wanted' \subseteq Episodes
    BY <1>0, <1>2, WantedGrows DEF InsertJob, FreeJobs, JobRow, Live
  <2> QED BY <1>2, <2>1, WantStep DEF Fetching
<1>3. ASSUME AskHave(h) \/ AskInsert(h) PROVE F!Next \/ UNCHANGED F!vars
  <2>1. handler[h].ep \in Episodes /\ handler[h].source \in Sources
    BY <1>3 DEF AskHave, AskInsert, Core, TypeOK, HandlerState
  <2>2. worker' = worker /\ file' = file
    BY <1>3 DEF AskHave, AskInsert, disk
  <2> QED BY <1>1, <1>2, <1>3, <2>1, <2>2 DEF AskHave, AskInsert
<1>4. ASSUME AskJoin(h) PROVE F!Next
  <2>1. Wanted' = Wanted
    BY <1>0, <1>4, WantedSame DEF AskJoin, LiveJobs, JobRow
  <2> QED BY <1>4, <2>1, DiscardStep DEF AskJoin, Fetching, disk
<1>5. ASSUME FeedDrop(h) PROVE F!Next
  <2>1. Wanted' \subseteq Wanted
    BY <1>5, WantedShrinks DEF FeedDrop, NoJob, Live
  <2> QED BY <1>5, <2>1, SettleStep DEF FeedDrop, Fetching, disk
<1> QED
  BY <1>1, <1>3, <1>4, <1>5
  DEF HandlerStep, Ask, AskNone, PurgeUnlink, PurgeCommit, FeedUnlink, Refuse, disk

LEMMA StepRefines == Core /\ Next => F!Next \/ UNCHANGED F!vars
<1> SUFFICES ASSUME Core, Next PROVE F!Next \/ UNCHANGED F!vars
  OBVIOUS
<1>0. job \in [Jobs -> JobRow]
  BY DEF Core, TypeOK
<1>1. CASE Restart
  <2>1. Wanted' = Wanted
    BY <1>0, <1>1, WantedSame DEF Restart, JobRow, Live
  <2>2. Fetching' = Fetching
    BY <1>1, FetchingSame DEF Restart, IdleWorker
  <2> QED BY <1>1, <2>1, <2>2, StutterStep DEF Restart, disk
<1>2. CASE Crash
  <2>1. Wanted' = Wanted /\ file' = file
    BY <1>2, WantedSame DEF Crash, disk
  <2>2. Fetching' = [w \in Workers |-> None]
    BY <1>2 DEF Crash, Fetching, DownWorker, IdleWorker
  <2> QED BY <2>1, <2>2 DEF F!Next, F!StopAll, Fetching, Wanted
<1>3. ASSUME NEW e \in Episodes, Unqueue(e) \/ Wipe(e) PROVE F!Next
  <2>1. Wanted' = Wanted /\ Fetching' = Fetching /\ file' \subseteq file
    BY <1>3, WantedSame DEF Unqueue, Wipe, Fetching, disk
  <2> QED BY <2>1, DiscardStep DEF F!Next
<1> QED BY <1>1, <1>2, <1>3, WorkerRefines, HandlerRefines DEF Next, Step

LEMMA InitRefines == Init => F!Init
BY DEF Init, F!Init, HasLiveJob, LiveJobs, NoJob, Live, DownWorker, IdleWorker

\* The job table, the workers, the handlers and the files together behave as
\* FetchOnce: an episode is fetched only while wanted, by one worker at a time,
\* and audio appears only at the end of a whole fetch.
THEOREM Implements == Spec => FetchesOnce
<1>1. Consistent /\ [Next]_vars => [F!Next]_F!vars
  <2> SUFFICES ASSUME Consistent, [Next]_vars PROVE F!Next \/ UNCHANGED F!vars
    OBVIOUS
  <2>1. CASE Next
    BY <2>1, StepRefines DEF Consistent
  <2>2. CASE UNCHANGED vars
    BY <2>2 DEF vars, disk, F!vars, HasLiveJob, LiveJobs
  <2> QED BY <2>1, <2>2
<1> QED BY <1>1, InitRefines, AlwaysConsistent, PTL DEF Spec, FetchesOnce, F!Spec
=============================================================================
