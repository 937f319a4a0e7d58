--------------------------- MODULE DownloadsProofs ---------------------------
(* Theorems about Downloads.                                                *)
EXTENDS MCDownloads, FiniteSetTheorems, TLAPS

LEMMA RestingRecords ==
  /\ NoJob \in JobRow
  /\ IdleWorker \in WorkerState /\ DownWorker \in WorkerState
  /\ IdleHandler \in HandlerState
<1>1. 0 \in 0..MaxAttempts
  BY DownloadsAssumption
<1>2. NoJob \in JobRow
  BY <1>1 DEF NoJob, JobRow, Sources
<1>3. IdleWorker \in WorkerState
  BY DEF IdleWorker, WorkerState
<1>4. DownWorker \in WorkerState
  BY DEF DownWorker, IdleWorker, WorkerState
<1>5. IdleHandler \in HandlerState
  BY DEF IdleHandler, HandlerState, Sources
<1> QED BY <1>2, <1>3, <1>4, <1>5

LEMMA InitCore == Init => Consistent
<1> SUFFICES ASSUME Init PROVE Consistent
  OBVIOUS
<1>1. TypeOK
  <2>1. faults \in FaultCounts
    BY DownloadsAssumption DEF Init, FaultCounts
  <2> QED BY <2>1, RestingRecords DEF Init, TypeOK
<1>2. FeedTakesRows /\ AttemptsLeft /\ OneLiveJob
  BY DownloadsAssumption DEF Init, FeedTakesRows, AttemptsLeft, OneLiveJob, NoJob, Live
<1>3. WorkerOwnsJob /\ WorkersApart /\ NobodyElseRecords /\ RenamedStays
  BY DEF Init, WorkerOwnsJob, WorkersApart, Working, Holding, NobodyElseRecords,
         RenamedStays, DownWorker, IdleWorker
<1>4. LocalHasFile
  BY DEF Init, LocalHasFile
<1> QED BY <1>1, <1>2, <1>3, <1>4 DEF Consistent, Core

\* A worker at work never holds a job that failed for good.
LEMMA OwnedJob ==
  ASSUME Core, NEW w \in Workers, Working(w)
  PROVE  /\ worker[w].job \in Jobs /\ worker[w].ep \in Episodes
         /\ job[worker[w].job].state # "failed"
         /\ job[worker[w].job].attempts < MaxAttempts
<1>1. worker[w].job \in Jobs /\ worker[w].ep \in Episodes
  BY DEF Core, WorkerOwnsJob
<1>2. CASE subscribed
  BY <1>1, <1>2 DEF Core, WorkerOwnsJob, AttemptsLeft
<1>3. CASE ~subscribed
  BY <1>1, <1>3 DEF Core, FeedTakesRows, AttemptsLeft
<1> QED BY <1>1, <1>2, <1>3

LEMMA FailJobType ==
  ASSUME TypeOK, NEW j \in Jobs, job[j].attempts < MaxAttempts, FailJob(j)
  PROVE  job' \in [Jobs -> JobRow]
<1>1. job[j].attempts + 1 \in 0..MaxAttempts
  BY DownloadsAssumption DEF TypeOK, JobRow
<1> QED BY <1>1 DEF TypeOK, FailJob, JobRow

LEMMA InsertJobType ==
  ASSUME TypeOK, NEW e \in Episodes, NEW source \in Sources,
         NEW state \in {"queued", "done"}, InsertJob(e, source, state)
  PROVE  job' \in [Jobs -> JobRow]
<1>1. 0 \in 0..MaxAttempts
  BY DownloadsAssumption
<1> QED BY <1>1 DEF TypeOK, InsertJob, FreeJobs, JobRow

\* What a worker remembers of the row it read is a record of its kind.
LEMMA StreamingRecord ==
  ASSUME NEW r \in WorkerState, NEW l \in BOOLEAN, NEW p \in BOOLEAN
  PROVE  [r EXCEPT !.pc = "streaming", !.local = l, !.purged = p] \in WorkerState
BY DEF WorkerState

LEMMA StepType == Core /\ Next => TypeOK'
<1> SUFFICES ASSUME Core, Next PROVE TypeOK'
  OBVIOUS
<1>0. TypeOK
  BY DEF Core
<1> USE <1>0 DEF TypeOK, rows, disk
<1>1. CASE Restart
  <2>1. job' \in [Jobs -> JobRow]
    BY <1>1 DEF Restart, JobRow
  <2> QED BY <1>1, <2>1, RestingRecords DEF Restart
<1>2. ASSUME NEW w \in Workers, NEW j \in Jobs, Claim(w, j) PROVE TypeOK'
  <2>1. [IdleWorker EXCEPT !.pc = "claimed", !.job = j, !.ep = job[j].ep] \in WorkerState
    BY RestingRecords DEF WorkerState, IdleWorker, JobRow
  <2>2. job' \in [Jobs -> JobRow]
    BY <1>2 DEF Claim, JobRow
  <2> QED BY <1>2, <2>1, <2>2 DEF Claim
<1>3. ASSUME NEW w \in Workers, CompleteOnDisk(w) PROVE TypeOK'
  <2>1. job' \in [Jobs -> JobRow]
    BY <1>3 DEF CompleteOnDisk, JobRow
  <2> QED BY <1>3, <2>1, RestingRecords DEF CompleteOnDisk, Free
<1>4. ASSUME NEW w \in Workers, Abandon(w) PROVE TypeOK'
  BY <1>4, RestingRecords DEF Abandon, Free
<1>5. ASSUME NEW w \in Workers, BeginFetch(w) PROVE TypeOK'
  <2> DEFINE read == [worker[w] EXCEPT !.pc = "streaming",
                                       !.local = (worker[w].ep \in local),
                                       !.purged = (worker[w].ep \in purged)]
  <2>1. (worker[w].ep \in local) \in BOOLEAN /\ (worker[w].ep \in purged) \in BOOLEAN
    OBVIOUS
  <2>2. read \in WorkerState
    BY <2>1, StreamingRecord
  <2>3. worker' = [worker EXCEPT ![w] = read]
    BY <1>5 DEF BeginFetch
  <2>4. worker' \in [Workers -> WorkerState]
    <3> HIDE DEF read
    <3> QED BY <2>2, <2>3
  <2> QED BY <1>5, <2>4 DEF BeginFetch
<1>6. ASSUME NEW w \in Workers, Rename(w) PROVE TypeOK'
  <2>1. worker' \in [Workers -> WorkerState]
    BY <1>6 DEF Rename, WorkerState
  <2>2. worker[w].ep \in Episodes
    BY <1>6, OwnedJob DEF Rename, Working, Holding
  <2> QED BY <1>6, <2>1, <2>2 DEF Rename
<1>7. ASSUME NEW w \in Workers, FailFetch(w) PROVE TypeOK'
  <2>1. job' \in [Jobs -> JobRow]
    BY <1>7, OwnedJob, FailJobType DEF FailFetch, Working, Holding
  <2> QED BY <1>7, <2>1, RestingRecords DEF FailFetch, Free
<1>8. ASSUME NEW w \in Workers, Record(w) PROVE TypeOK'
  <2>1. worker' \in [Workers -> WorkerState]
    BY <1>8 DEF Record, WorkerState
  <2>2. job' \in [Jobs -> JobRow]
    BY <1>8 DEF Record, JobRow
  <2> QED BY <1>8, <2>1, <2>2 DEF Record
<1>9. ASSUME NEW w \in Workers, RecordRefused(w) PROVE TypeOK'
  BY <1>9, RestingRecords DEF RecordRefused, Free
<1>10. ASSUME NEW w \in Workers, LoseJob(w) PROVE TypeOK'
  <2>1. faults' \in FaultCounts
    BY <1>10, DownloadsAssumption DEF LoseJob, FaultCounts
  <2> QED BY <1>10, <2>1, RestingRecords DEF LoseJob, Free
<1>11. ASSUME NEW w \in Workers, Settle(w) PROVE TypeOK'
  BY <1>11, RestingRecords DEF Settle, Free
<1>12. ASSUME NEW w \in Workers, FailLate(w) PROVE TypeOK'
  <2>1. job' \in [Jobs -> JobRow]
    BY <1>12, OwnedJob, FailJobType DEF FailLate, Working
  <2>2. faults' \in FaultCounts
    BY <1>12, DownloadsAssumption DEF FailLate, FaultCounts
  <2> QED BY <1>12, <2>1, <2>2, RestingRecords DEF FailLate, Free
<1>13. ASSUME NEW h \in Handlers, NEW e \in Episodes, NEW source \in {"manual", "queue"},
              Ask(h, e, source)
       PROVE  TypeOK'
  <2>1. handler' \in [Handlers -> HandlerState]
    BY <1>13 DEF Ask, HandlerState, Sources
  <2> QED BY <1>13, <2>1 DEF Ask
<1>14. ASSUME NEW h \in Handlers, AskHave(h) \/ AskJoin(h) \/ AskInsert(h) PROVE TypeOK'
  <2>1. handler[h].source \in Sources
    BY DEF HandlerState
  <2>2. handler' \in [Handlers -> HandlerState]
    BY <1>14, RestingRecords DEF AskHave, AskJoin, AskInsert, Answer
  <2>3. handler[h].ep \in present /\ handler[h].ep \in Episodes
    BY <1>14 DEF AskHave, AskJoin, AskInsert
  <2>4. queue' \subseteq Episodes /\ local' \subseteq Episodes
    BY <1>14, <2>3 DEF AskHave, AskJoin, AskInsert, QueueWith, Forget
  <2>5. job' \in [Jobs -> JobRow]
    <3>1. CASE AskHave(h)
      BY <3>1, <2>1, <2>3, InsertJobType DEF AskHave
    <3>2. CASE AskInsert(h)
      BY <3>2, <2>1, <2>3, InsertJobType DEF AskInsert
    <3>3. CASE AskJoin(h)
      BY <3>3, <2>1 DEF AskJoin, LiveJobs, JobRow
    <3> QED BY <1>14, <3>1, <3>2, <3>3
  <2> QED BY <1>14, <2>2, <2>4, <2>5 DEF AskHave, AskJoin, AskInsert
<1>15. ASSUME NEW h \in Handlers, AskNone(h) PROVE TypeOK'
  BY <1>15 DEF AskNone, HandlerState
<1>16. ASSUME NEW h \in Handlers, NEW e \in Episodes, PurgeUnlink(h, e) PROVE TypeOK'
  <2>1. handler' \in [Handlers -> HandlerState]
    BY <1>16, RestingRecords DEF PurgeUnlink, IdleHandler, HandlerState
  <2> QED BY <1>16, <2>1 DEF PurgeUnlink
<1>17. ASSUME NEW h \in Handlers, PurgeCommit(h) PROVE TypeOK'
  BY <1>17, RestingRecords DEF PurgeCommit, Answer
<1>18. ASSUME NEW h \in Handlers, FeedUnlink(h) PROVE TypeOK'
  <2>1. handler' \in [Handlers -> HandlerState]
    BY <1>18, RestingRecords DEF FeedUnlink, IdleHandler, HandlerState
  <2> QED BY <1>18, <2>1 DEF FeedUnlink
<1>19. ASSUME NEW h \in Handlers, FeedDrop(h) PROVE TypeOK'
  BY <1>19, RestingRecords DEF FeedDrop, Answer
<1>20. ASSUME NEW h \in Handlers, Refuse(h) PROVE TypeOK'
  BY <1>20, RestingRecords DEF Refuse, Answer
<1>21. ASSUME NEW e \in Episodes, Unqueue(e) PROVE TypeOK'
  BY <1>21 DEF Unqueue
<1>22. ASSUME NEW e \in Episodes, Wipe(e) PROVE TypeOK'
  <2>1. faults' \in FaultCounts
    BY <1>22, DownloadsAssumption DEF Wipe, FaultCounts
  <2> QED BY <1>22, <2>1 DEF Wipe
<1>23. CASE Crash
  <2>1. faults' \in FaultCounts
    BY <1>23, DownloadsAssumption DEF Crash, FaultCounts
  <2> QED BY <1>23, <2>1, RestingRecords DEF Crash
<1> QED
  BY <1>1, <1>2, <1>3, <1>4, <1>5, <1>6, <1>7, <1>8, <1>9, <1>10, <1>11, <1>12,
     <1>13, <1>14, <1>15, <1>16, <1>17, <1>18, <1>19, <1>20, <1>21, <1>22, <1>23
  DEF Next, Step, WorkerStep, HandlerStep

\* The index holds: whatever becomes live had no live job beside it.
LEMMA FailJobOneLive ==
  ASSUME TypeOK, OneLiveJob, NEW j \in Jobs, FailJob(j)
  PROVE  OneLiveJob'
<1>1. job \in [Jobs -> JobRow]
  BY DEF TypeOK
<1> QED BY <1>1 DEF OneLiveJob, FailJob, LiveJobs, Live, JobRow

LEMMA StepOneLive == Core /\ Next => OneLiveJob'
<1> SUFFICES ASSUME Core, Next PROVE OneLiveJob'
  OBVIOUS
<1>0. job \in [Jobs -> JobRow] /\ TypeOK /\ OneLiveJob
  BY DEF Core, TypeOK
<1>1. CASE UNCHANGED job
  BY <1>0, <1>1 DEF OneLiveJob
<1>2. CASE Restart
  BY <1>0, <1>2 DEF Restart, OneLiveJob, JobRow, Live
<1>3. ASSUME NEW w \in Workers, NEW j \in Jobs, Claim(w, j) PROVE OneLiveJob'
  BY <1>0, <1>3 DEF Claim, OneLiveJob, JobRow, Live
<1>4. ASSUME NEW w \in Workers, CompleteOnDisk(w) \/ Record(w) PROVE OneLiveJob'
  BY <1>0, <1>4 DEF CompleteOnDisk, Record, OneLiveJob, JobRow, Live
<1>5. ASSUME NEW w \in Workers, FailFetch(w) \/ FailLate(w) PROVE OneLiveJob'
  BY <1>0, <1>5, OwnedJob, FailJobOneLive DEF FailFetch, FailLate, Working, Holding
<1>6. ASSUME NEW h \in Handlers, AskHave(h) PROVE OneLiveJob'
  BY <1>0, <1>6 DEF AskHave, InsertJob, FreeJobs, OneLiveJob, JobRow, Live
<1>7. ASSUME NEW h \in Handlers, AskJoin(h) PROVE OneLiveJob'
  BY <1>0, <1>7 DEF AskJoin, LiveJobs, OneLiveJob, JobRow
<1>8. ASSUME NEW h \in Handlers, AskInsert(h) PROVE OneLiveJob'
  BY <1>0, <1>8 DEF AskInsert, InsertJob, FreeJobs, HasLiveJob, LiveJobs, OneLiveJob,
                    JobRow, Live
<1>9. ASSUME NEW h \in Handlers, FeedDrop(h) PROVE OneLiveJob'
  BY <1>0, <1>9 DEF FeedDrop, NoJob, OneLiveJob, Live
<1> QED
  BY <1>1, <1>2, <1>3, <1>4, <1>5, <1>6, <1>7, <1>8, <1>9
  DEF Next, Step, WorkerStep, HandlerStep, Abandon, BeginFetch, Rename, RecordRefused,
      LoseJob, Settle, Ask, AskNone, PurgeUnlink, PurgeCommit, FeedUnlink, Refuse,
      Unqueue, Crash, Wipe

LEMMA StepAttempts == Core /\ Next => AttemptsLeft'
<1> SUFFICES ASSUME Core, Next PROVE AttemptsLeft'
  OBVIOUS
<1>0. job \in [Jobs -> JobRow] /\ AttemptsLeft /\ MaxAttempts \in Nat \ {0}
  BY DownloadsAssumption DEF Core, TypeOK
<1> USE DEF JobRow
<1>1. CASE UNCHANGED job
  BY <1>0, <1>1 DEF AttemptsLeft
<1>2. CASE Restart
  BY <1>0, <1>2 DEF Restart, AttemptsLeft
<1>3. ASSUME NEW w \in Workers, NEW j \in Jobs, Claim(w, j) PROVE AttemptsLeft'
  BY <1>0, <1>3 DEF Claim, AttemptsLeft
<1>4. ASSUME NEW w \in Workers, CompleteOnDisk(w) \/ Record(w) PROVE AttemptsLeft'
  <2>1. Working(w)
    BY <1>4 DEF CompleteOnDisk, Record, Working, Holding
  <2>2. worker[w].job \in Jobs /\ job[worker[w].job].attempts < MaxAttempts
    BY <2>1, OwnedJob
  <2> QED BY <1>0, <1>4, <2>2 DEF CompleteOnDisk, Record, AttemptsLeft
<1>5. ASSUME NEW w \in Workers, FailFetch(w) \/ FailLate(w) PROVE AttemptsLeft'
  <2>1. FailJob(worker[w].job) /\ worker[w].job \in Jobs
    BY <1>5, OwnedJob DEF FailFetch, FailLate, Working, Holding
  <2> QED BY <1>0, <2>1 DEF FailJob, AttemptsLeft
<1>6. ASSUME NEW h \in Handlers, AskHave(h) \/ AskInsert(h) PROVE AttemptsLeft'
  BY <1>0, <1>6 DEF AskHave, AskInsert, InsertJob, AttemptsLeft
<1>7. ASSUME NEW h \in Handlers, AskJoin(h) PROVE AttemptsLeft'
  BY <1>0, <1>7 DEF AskJoin, LiveJobs, AttemptsLeft
<1>8. ASSUME NEW h \in Handlers, FeedDrop(h) PROVE AttemptsLeft'
  BY <1>0, <1>8 DEF FeedDrop, NoJob, AttemptsLeft
<1> QED
  BY <1>1, <1>2, <1>3, <1>4, <1>5, <1>6, <1>7, <1>8
  DEF Next, Step, WorkerStep, HandlerStep, Abandon, BeginFetch, Rename, RecordRefused,
      LoseJob, Settle, Ask, AskNone, PurgeUnlink, PurgeCommit, FeedUnlink, Refuse,
      Unqueue, Crash, Wipe

LEMMA StepFeedTakes == Core /\ Next => FeedTakesRows'
<1> SUFFICES ASSUME Core, Next PROVE FeedTakesRows'
  OBVIOUS
<1>0. job \in [Jobs -> JobRow] /\ FeedTakesRows
  BY DEF Core, TypeOK
<1> USE DEF JobRow, rows, disk
<1>1. CASE UNCHANGED <<rows, job>>
  BY <1>0, <1>1 DEF FeedTakesRows
<1>2. CASE Restart
  BY <1>0, <1>2 DEF Restart, FeedTakesRows
<1>3. ASSUME NEW w \in Workers, NEW j \in Jobs, Claim(w, j) PROVE FeedTakesRows'
  BY <1>0, <1>3 DEF Claim, FeedTakesRows
<1>4. ASSUME NEW w \in Workers, CompleteOnDisk(w) \/ Record(w) PROVE FeedTakesRows'
  <2>1. worker[w].job \in Jobs /\ Working(w)
    BY <1>4, OwnedJob DEF CompleteOnDisk, Record, Working, Holding
  <2>2. subscribed
    BY <1>0, <1>4 DEF FeedTakesRows, CompleteOnDisk, Record
  <2>3. job[worker[w].job].state = "running"
    BY <1>4, <2>1, <2>2 DEF Core, WorkerOwnsJob, CompleteOnDisk, Record, Holding
  <2> QED BY <1>0, <1>4, <2>1, <2>3 DEF CompleteOnDisk, Record, FeedTakesRows
<1>5. ASSUME NEW w \in Workers, FailFetch(w) \/ FailLate(w) PROVE FeedTakesRows'
  <2>1. FailJob(worker[w].job) /\ worker[w].job \in Jobs
    BY <1>5, OwnedJob DEF FailFetch, FailLate, Working, Holding
  <2> QED BY <1>0, <1>5, <2>1 DEF FailJob, FailFetch, FailLate, FeedTakesRows
<1>6. ASSUME NEW h \in Handlers, AskHave(h) \/ AskInsert(h) PROVE FeedTakesRows'
  BY <1>0, <1>6 DEF AskHave, AskInsert, InsertJob, Forget, FeedTakesRows
<1>7. ASSUME NEW h \in Handlers, AskJoin(h) PROVE FeedTakesRows'
  BY <1>0, <1>7 DEF AskJoin, LiveJobs, Forget, FeedTakesRows
<1>8. ASSUME NEW h \in Handlers, FeedDrop(h) PROVE FeedTakesRows'
  BY <1>0, <1>8 DEF FeedDrop, NoJob, FeedTakesRows
<1>9. ASSUME NEW h \in Handlers, PurgeCommit(h) PROVE FeedTakesRows'
  BY <1>0, <1>9 DEF PurgeCommit, FeedTakesRows
<1>10. ASSUME NEW e \in Episodes, Unqueue(e) PROVE FeedTakesRows'
  BY <1>0, <1>10 DEF Unqueue, FeedTakesRows
<1> QED
  BY <1>1, <1>2, <1>3, <1>4, <1>5, <1>6, <1>7, <1>8, <1>9, <1>10
  DEF Next, Step, WorkerStep, HandlerStep, Abandon, BeginFetch, Rename, RecordRefused,
      LoseJob, Settle, Ask, AskNone, PurgeUnlink, FeedUnlink, Refuse, Crash, Wipe

LEMMA StepOwnsJob == Core /\ Next => WorkerOwnsJob'
<1> SUFFICES ASSUME Core, Next PROVE WorkerOwnsJob'
  OBVIOUS
<1>0. /\ job \in [Jobs -> JobRow] /\ worker \in [Workers -> WorkerState]
      /\ present \subseteq Episodes /\ None \notin Jobs
      /\ FeedTakesRows /\ WorkerOwnsJob /\ WorkersApart
  BY DownloadsAssumption DEF Core, TypeOK
<1> USE DEF JobRow, WorkerState, Working, Holding, WorkerOwnsJob, rows, disk
<1>1. CASE UNCHANGED <<subscribed, present, job, worker>>
  BY <1>0, <1>1
<1>2. CASE Restart \/ Crash
  BY <1>2 DEF Restart, Crash, IdleWorker, DownWorker
<1>3. ASSUME NEW w \in Workers, NEW j \in Jobs, Claim(w, j) PROVE WorkerOwnsJob'
  BY <1>0, <1>3 DEF Claim, FeedTakesRows, IdleWorker
<1>4. ASSUME NEW w \in Workers, CompleteOnDisk(w) \/ Record(w) PROVE WorkerOwnsJob'
  BY <1>0, <1>4 DEF CompleteOnDisk, Record, Free, WorkersApart, IdleWorker
<1>5. ASSUME NEW w \in Workers,
             Abandon(w) \/ RecordRefused(w) \/ LoseJob(w) \/ Settle(w)
      PROVE  WorkerOwnsJob'
  BY <1>0, <1>5 DEF Abandon, RecordRefused, LoseJob, Settle, Free, IdleWorker
<1>6. ASSUME NEW w \in Workers, BeginFetch(w) \/ Rename(w) PROVE WorkerOwnsJob'
  <2>1. UNCHANGED <<subscribed, present, job>>
    BY <1>6 DEF BeginFetch, Rename
  <2>2. \A v \in Workers \ {w} : worker'[v] = worker[v]
    BY <1>0, <1>6 DEF BeginFetch, Rename
  <2>3. /\ worker'[w].job = worker[w].job /\ worker'[w].ep = worker[w].ep
        /\ Holding(w) /\ Holding(w)'
    BY <1>0, <1>6 DEF BeginFetch, Rename
  <2> QED BY <1>0, <2>1, <2>2, <2>3
<1>7. ASSUME NEW w \in Workers, FailFetch(w) \/ FailLate(w) PROVE WorkerOwnsJob'
  <2>1. FailJob(worker[w].job) /\ worker[w].job \in Jobs /\ Free(w)
        /\ UNCHANGED <<subscribed, present>>
    BY <1>0, <1>7 DEF FailFetch, FailLate
  <2>2. \A j \in Jobs : j # worker[w].job => job'[j] = job[j]
    BY <1>0, <2>1 DEF FailJob
  <2>3. \A v \in Workers : Working(v)' => v # w /\ worker'[v] = worker[v]
    BY <1>0, <2>1 DEF Free, IdleWorker
  <2>4. \A v \in Workers : v # w /\ Working(v) => worker[v].job # worker[w].job
    BY <1>0, <1>7 DEF WorkersApart, FailFetch, FailLate
  <2> QED BY <1>0, <2>1, <2>2, <2>3, <2>4
<1>8. ASSUME NEW h \in Handlers, AskHave(h) \/ AskInsert(h) PROVE WorkerOwnsJob'
  BY <1>0, <1>8 DEF AskHave, AskInsert, InsertJob, FreeJobs
<1>9. ASSUME NEW h \in Handlers, AskJoin(h) PROVE WorkerOwnsJob'
  BY <1>0, <1>9 DEF AskJoin, LiveJobs
<1>10. ASSUME NEW h \in Handlers, FeedDrop(h) PROVE WorkerOwnsJob'
  BY <1>0, <1>10 DEF FeedDrop
<1> QED
  BY <1>1, <1>2, <1>3, <1>4, <1>5, <1>6, <1>7, <1>8, <1>9, <1>10
  DEF Next, Step, WorkerStep, HandlerStep, Ask, AskNone, PurgeUnlink, PurgeCommit,
      FeedUnlink, Refuse, Unqueue, Wipe

\* While the show is there a worker's job tells it apart from every other; a
\* worker left over from a show that went starts nothing.
LEMMA StepApart == Core /\ Next => WorkersApart'
<1> SUFFICES ASSUME Core, Next PROVE WorkersApart'
  OBVIOUS
<1>0. /\ job \in [Jobs -> JobRow] /\ worker \in [Workers -> WorkerState]
      /\ FeedTakesRows /\ WorkerOwnsJob /\ WorkersApart /\ OneLiveJob
  BY DEF Core, TypeOK
<1> USE DEF WorkerState, Working, Holding, WorkersApart, rows, disk
<1>1. CASE UNCHANGED worker
  BY <1>0, <1>1
<1>2. CASE Restart \/ Crash
  BY <1>2 DEF Restart, Crash, IdleWorker, DownWorker
<1>3. ASSUME NEW w \in Workers, NEW j \in Jobs, Claim(w, j) PROVE WorkersApart'
  <2>1. subscribed
    BY <1>0, <1>3 DEF Claim, FeedTakesRows
  <2>2. \A v \in Workers : v # w /\ Working(v) =>
          /\ worker[v].job # j
          /\ Holding(v) => worker[v].ep # job[j].ep
    BY <1>0, <1>3, <2>1 DEF Claim, WorkerOwnsJob, OneLiveJob, Live
  <2>3. \A v \in Workers : v # w => worker'[v] = worker[v]
    BY <1>0, <1>3 DEF Claim
  <2>4. worker'[w].job = j /\ worker'[w].ep = job[j].ep
    BY <1>0, <1>3 DEF Claim, IdleWorker
  <2> QED BY <1>0, <2>2, <2>3, <2>4
<1>4. ASSUME NEW w \in Workers, worker' = [worker EXCEPT ![w] = IdleWorker]
      PROVE  WorkersApart'
  BY <1>0, <1>4 DEF IdleWorker
<1>5. ASSUME NEW w \in Workers, BeginFetch(w) \/ Rename(w) \/ Record(w)
      PROVE  WorkersApart'
  BY <1>0, <1>5 DEF BeginFetch, Rename, Record
<1> QED
  BY <1>1, <1>2, <1>3, <1>4, <1>5
  DEF Next, Step, WorkerStep, HandlerStep, CompleteOnDisk, Abandon, FailFetch,
      RecordRefused, LoseJob, Settle, FailLate, Free, Ask, AskHave, AskJoin, AskNone,
      AskInsert, PurgeUnlink, PurgeCommit, FeedUnlink, FeedDrop, Refuse, Unqueue, Wipe

LEMMA StepNobodyElse == Core /\ Next => NobodyElseRecords'
<1> SUFFICES ASSUME Core, Next PROVE NobodyElseRecords'
  OBVIOUS
<1>0. /\ worker \in [Workers -> WorkerState]
      /\ NobodyElseRecords /\ WorkersApart
  BY DEF Core, TypeOK
<1> USE DEF NobodyElseRecords, rows, disk
<1>1. CASE worker' = worker /\ local' \subseteq local
  BY <1>0, <1>1
<1>2. CASE Restart \/ Crash
  BY <1>2 DEF Restart, Crash, IdleWorker, DownWorker
<1>3. ASSUME NEW w \in Workers, NEW j \in Jobs, Claim(w, j) PROVE NobodyElseRecords'
  BY <1>0, <1>3 DEF Claim, WorkerState
<1>4. ASSUME NEW w \in Workers, worker' = [worker EXCEPT ![w] = IdleWorker],
             local' = local
      PROVE  NobodyElseRecords'
  BY <1>0, <1>4 DEF IdleWorker
<1>5. ASSUME NEW w \in Workers, BeginFetch(w) PROVE NobodyElseRecords'
  <2>1. local' = local /\ \A v \in Workers \ {w} : worker'[v] = worker[v]
    BY <1>0, <1>5 DEF BeginFetch
  <2>2. worker'[w].ep = worker[w].ep
    BY <1>0, <1>5 DEF BeginFetch, WorkerState
  <2>3. worker'[w].local = (worker[w].ep \in local)
    BY <1>0, <1>5 DEF BeginFetch, WorkerState
  <2> QED BY <1>0, <2>1, <2>2, <2>3
<1>6. ASSUME NEW w \in Workers, Rename(w) PROVE NobodyElseRecords'
  BY <1>0, <1>6 DEF Rename, WorkerState
<1>7. ASSUME NEW w \in Workers, Record(w) PROVE NobodyElseRecords'
  <2>1. local' \subseteq local \cup {worker[w].ep}
    BY <1>7 DEF Record
  <2>2. \A v \in Workers \ {w} : worker'[v] = worker[v]
    BY <1>0, <1>7 DEF Record
  <2>3. worker'[w].pc = "post"
    BY <1>0, <1>7 DEF Record, WorkerState
  <2>4. \A v \in Workers \ {w} :
          worker[v].pc \in {"streaming", "renamed"} => worker[v].ep # worker[w].ep
    BY <1>0, <1>7 DEF Record, WorkersApart, Working, Holding
  <2> QED BY <1>0, <2>1, <2>2, <2>3, <2>4
<1> QED
  BY <1>1, <1>2, <1>3, <1>4, <1>5, <1>6, <1>7
  DEF Next, Step, WorkerStep, HandlerStep, CompleteOnDisk, Abandon, FailFetch,
      RecordRefused, LoseJob, Settle, FailLate, Free, Ask, AskHave, AskJoin, AskNone,
      AskInsert, Forget, PurgeUnlink, PurgeCommit, FeedUnlink, FeedDrop, Refuse,
      Unqueue, Wipe

LEMMA WipesCount ==
  ASSUME TypeOK, Next
  PROVE  /\ faults'.wipe = 0 => faults.wipe = 0
         /\ faults'.crash = 0 => faults.crash = 0
         /\ \A e \in Episodes : Wipe(e) => faults'.wipe # 0
         /\ Crash => faults'.crash # 0
<1>0. faults \in FaultCounts /\ MaxCrashes \in Nat /\ MaxWipes \in Nat
  BY DownloadsAssumption DEF TypeOK
<1> USE DEF FaultCounts
<1>1. CASE UNCHANGED faults
  BY <1>0, <1>1 DEF Wipe, Crash
<1>2. ASSUME NEW w \in Workers, LoseJob(w) \/ FailLate(w)
      PROVE  faults'.wipe = faults.wipe /\ faults'.crash = faults.crash
  BY <1>0, <1>2 DEF LoseJob, FailLate
<1>3. \A e \in Episodes : Wipe(e) => faults'.wipe # 0 /\ faults'.crash = faults.crash
  BY <1>0 DEF Wipe
<1>4. Crash => faults'.crash # 0 /\ faults'.wipe = faults.wipe
  BY <1>0 DEF Crash
<1> QED
  BY <1>0, <1>1, <1>2, <1>3, <1>4
  DEF Next, Step, WorkerStep, HandlerStep, Restart, Claim, CompleteOnDisk, Abandon,
      BeginFetch, Rename, FailFetch, Record, RecordRefused, Settle, Ask, AskHave,
      AskJoin, AskNone, AskInsert, PurgeUnlink, PurgeCommit, FeedUnlink, FeedDrop,
      Refuse, Unqueue

LEMMA StepRenamedStays == Core /\ Next => RenamedStays'
<1> SUFFICES ASSUME Core, Next, faults'.wipe = 0 PROVE RenamedStays'
  BY DEF RenamedStays
<1>0. /\ worker \in [Workers -> WorkerState]
      /\ NobodyElseRecords /\ RenamedStays /\ faults.wipe = 0
      /\ \A e \in Episodes : ~Wipe(e)
  BY WipesCount DEF Core, TypeOK
<1> USE DEF RenamedStays, rows, disk
<1>1. CASE worker' = worker /\ file \ local \subseteq file'
  BY <1>0, <1>1 DEF NobodyElseRecords
<1>2. CASE Restart \/ Crash
  BY <1>2 DEF Restart, Crash, IdleWorker, DownWorker
<1>3. ASSUME NEW w \in Workers, NEW j \in Jobs, Claim(w, j) PROVE RenamedStays'
  BY <1>0, <1>3 DEF Claim, WorkerState
<1>4. ASSUME NEW w \in Workers, worker' = [worker EXCEPT ![w] = IdleWorker], file' = file
      PROVE  RenamedStays'
  BY <1>0, <1>4 DEF IdleWorker
<1>5. ASSUME NEW w \in Workers, BeginFetch(w) PROVE RenamedStays'
  <2>1. file' = file /\ \A v \in Workers \ {w} : worker'[v] = worker[v]
    BY <1>0, <1>5 DEF BeginFetch
  <2>2. worker'[w].pc = "streaming"
    BY <1>0, <1>5 DEF BeginFetch, WorkerState
  <2> QED BY <1>0, <2>1, <2>2
<1>6. ASSUME NEW w \in Workers, Rename(w) PROVE RenamedStays'
  BY <1>0, <1>6 DEF Rename, WorkerState
<1>7. ASSUME NEW w \in Workers, Record(w) PROVE RenamedStays'
  BY <1>0, <1>7 DEF Record, WorkerState
<1> QED
  BY <1>0, <1>1, <1>2, <1>3, <1>4, <1>5, <1>6, <1>7
  DEF Next, Step, WorkerStep, HandlerStep, CompleteOnDisk, Abandon, FailFetch,
      RecordRefused, LoseJob, Settle, FailLate, Free, Ask, AskHave, AskJoin, AskNone,
      AskInsert, PurgeUnlink, PurgeCommit, FeedUnlink, FeedDrop, Refuse, Unqueue

\* While nothing but the program touches the files, a path without a file
\* appears only under a purge, and stays without one only if it had none.
LEMMA StepLostFiles ==
  ASSUME Core, Next, faults'.crash = 0, faults'.wipe = 0
  PROVE  \A e \in local' \ file' : MidPurge(e)' \/ (e \in local \ file /\ ~MidPurge(e))
<1> SUFFICES ASSUME NEW e \in local' \ file', ~MidPurge(e)'
             PROVE  e \in local \ file /\ ~MidPurge(e)
  OBVIOUS
<1>0. /\ worker \in [Workers -> WorkerState] /\ handler \in [Handlers -> HandlerState]
      /\ FeedTakesRows /\ RenamedStays /\ faults.wipe = 0
      /\ ~Crash /\ \A x \in Episodes : ~Wipe(x)
  BY WipesCount DEF Core, TypeOK
<1> USE DEF MidPurge, rows, disk
<1>1. CASE local' \subseteq local /\ file \subseteq file' /\ handler' = handler
  BY <1>1
<1>2. ASSUME NEW w \in Workers, Record(w) PROVE e \in local \ file /\ ~MidPurge(e)
  BY <1>0, <1>2 DEF Record, RenamedStays
<1>3. ASSUME NEW h \in Handlers, handler[h].pc \notin {"purge", "drop"},
             \A g \in Handlers \ {h} : handler'[g] = handler[g],
             local' \subseteq local, file' = file
      PROVE  e \in local \ file /\ ~MidPurge(e)
  BY <1>3
<1>4. ASSUME NEW h \in Handlers, NEW x \in Episodes, PurgeUnlink(h, x)
      PROVE  e \in local \ file /\ ~MidPurge(e)
  BY <1>0, <1>4 DEF PurgeUnlink, IdleHandler
<1>5. ASSUME NEW h \in Handlers, PurgeCommit(h) PROVE e \in local \ file /\ ~MidPurge(e)
  BY <1>0, <1>5 DEF PurgeCommit, Answer
<1>6. ASSUME NEW h \in Handlers, FeedUnlink(h) PROVE FALSE
  BY <1>0, <1>6 DEF FeedUnlink
<1>7. ASSUME NEW h \in Handlers, FeedDrop(h) PROVE FALSE
  BY <1>7 DEF FeedDrop
<1>8. ASSUME NEW h \in Handlers, Refuse(h) PROVE e \in local \ file /\ ~MidPurge(e)
  BY <1>0, <1>8 DEF Refuse, Answer, FeedTakesRows
<1>9. ASSUME NEW h \in Handlers,
             AskHave(h) \/ AskJoin(h) \/ AskNone(h) \/ AskInsert(h)
      PROVE  e \in local \ file /\ ~MidPurge(e)
  <2>1. handler[h].pc \notin {"purge", "drop"} /\ local' \subseteq local /\ file' = file
    BY <1>9 DEF AskHave, AskJoin, AskNone, AskInsert, Forget
  <2>2. \A g \in Handlers \ {h} : handler'[g] = handler[g]
    BY <1>0, <1>9 DEF AskHave, AskJoin, AskNone, AskInsert, Answer
  <2> QED BY <1>3, <2>1, <2>2
<1>10. ASSUME NEW h \in Handlers, NEW x \in Episodes, NEW source \in {"manual", "queue"},
              Ask(h, x, source)
       PROVE  e \in local \ file /\ ~MidPurge(e)
  <2>1. handler[h].pc \notin {"purge", "drop"} /\ local' = local /\ file' = file
    BY <1>10 DEF Ask
  <2>2. \A g \in Handlers \ {h} : handler'[g] = handler[g]
    BY <1>0, <1>10 DEF Ask
  <2> QED BY <1>3, <2>1, <2>2
<1> QED
  BY <1>0, <1>1, <1>2, <1>4, <1>5, <1>6, <1>7, <1>8, <1>9, <1>10
  DEF Next, Step, WorkerStep, HandlerStep, Restart, Claim, CompleteOnDisk, Abandon,
      BeginFetch, Rename, FailFetch, RecordRefused, LoseJob, Settle, FailLate, Unqueue

LEMMA StutterConsistent == Consistent /\ UNCHANGED vars => Consistent'
<1> SUFFICES ASSUME Consistent, UNCHANGED vars PROVE Consistent'
  OBVIOUS
<1> USE DEF Consistent, Core, vars, rows, disk
<1>1. TypeOK' /\ FeedTakesRows' /\ AttemptsLeft' /\ OneLiveJob'
  BY DEF TypeOK, FeedTakesRows, AttemptsLeft, OneLiveJob
<1>2. WorkerOwnsJob' /\ WorkersApart' /\ NobodyElseRecords' /\ RenamedStays'
  BY DEF WorkerOwnsJob, WorkersApart, NobodyElseRecords, RenamedStays, Working, Holding
<1>3. LocalHasFile'
  BY DEF LocalHasFile, MidPurge
<1> QED BY <1>1, <1>2, <1>3

LEMMA StepCore == Core /\ Next => Core'
BY StepType, StepFeedTakes, StepAttempts, StepOneLive, StepOwnsJob, StepApart,
   StepNobodyElse, StepRenamedStays
DEF Core

LEMMA StepConsistent == Consistent /\ Next => Consistent'
<1> SUFFICES ASSUME Consistent, Next PROVE Consistent'
  OBVIOUS
<1>1. Core
  BY DEF Consistent
<1>2. Core'
  BY <1>1, StepCore
<1>3. LocalHasFile'
  <2> SUFFICES ASSUME faults'.crash = 0, faults'.wipe = 0, NEW e \in local' \ file'
               PROVE  MidPurge(e)'
    BY DEF LocalHasFile
  <2>1. MidPurge(e)' \/ (e \in local \ file /\ ~MidPurge(e))
    BY <1>1, StepLostFiles
  <2>2. faults.crash = 0 /\ faults.wipe = 0
    BY <1>1, WipesCount DEF Core
  <2> QED BY <2>1, <2>2 DEF Consistent, LocalHasFile
<1> QED BY <1>2, <1>3 DEF Consistent

\* Core and LocalHasFile together are inductive, however many episodes, jobs,
\* workers, requests, crashes and faults there are.
THEOREM AlwaysConsistent == Spec => []Consistent
<1>1. Consistent /\ [Next]_vars => Consistent'
  BY StepConsistent, StutterConsistent
<1> QED BY <1>1, InitCore, PTL DEF Spec

\* Each variable keeps the values its column, file set or coroutine may have.
THEOREM TypeCorrect == Spec => []TypeOK
<1>1. Consistent => TypeOK
  BY DEF Consistent, Core
<1> QED BY <1>1, AlwaysConsistent, PTL

\* However requests, retries and restarts interleave, no episode ever has two
\* live jobs.
THEOREM LiveJobUnique == Spec => []OneLiveJob
<1>1. Consistent => OneLiveJob
  BY DEF Consistent, Core
<1> QED BY <1>1, AlwaysConsistent, PTL

\* Two workers never stream into the same .part file: one live job per episode
\* and one worker per running job leave no room for a second writer.
THEOREM WriterUnique == Spec => []OneWriter
<1>1. Consistent => OneWriter
  BY DEF Consistent, Core, WorkersApart, OneWriter, Working, Holding
<1> QED BY <1>1, AlwaysConsistent, PTL

\* With no crash and no accident a local_path always has its file, but for the
\* moment between a purge's unlink and its commit.
THEOREM FileBehindPath == Spec => []LocalHasFile
<1>1. Consistent => LocalHasFile
  BY DEF Consistent
<1> QED BY <1>1, AlwaysConsistent, PTL

LEMMA LatesCount ==
  ASSUME TypeOK, Next
  PROVE  /\ faults'.late = 0 => faults.late = 0
         /\ \A w \in Workers : FailLate(w) => faults'.late # 0
<1>0. faults \in FaultCounts /\ MaxLateFaults \in Nat
  BY DownloadsAssumption DEF TypeOK
<1> USE DEF FaultCounts
<1>1. CASE UNCHANGED faults
  BY <1>0, <1>1 DEF FailLate
<1>2. ASSUME NEW w \in Workers, LoseJob(w) PROVE faults'.late = faults.late
  BY <1>0, <1>2 DEF LoseJob
<1>3. \A w \in Workers : FailLate(w) => faults'.late # 0
  BY <1>0 DEF FailLate
<1>4. \A e \in Episodes : Wipe(e) => faults'.late = faults.late
  BY <1>0 DEF Wipe
<1>5. Crash => faults'.late = faults.late
  BY <1>0 DEF Crash
<1> QED
  BY <1>0, <1>1, <1>2, <1>3, <1>4, <1>5
  DEF Next, Step, WorkerStep, HandlerStep, Restart, Claim, CompleteOnDisk, Abandon,
      BeginFetch, Rename, FailFetch, Record, RecordRefused, Settle, Ask, AskHave,
      AskJoin, AskNone, AskInsert, PurgeUnlink, PurgeCommit, FeedUnlink, FeedDrop,
      Refuse, Unqueue

\* Whoever unlinks a .part file held the job of its episode, and no other worker does.
LEMMA StepPartPresent == Core /\ PartPresent /\ Next => PartPresent'
<1> SUFFICES ASSUME Core, PartPresent, Next, faults'.late = 0 PROVE PartPresent'
  BY DEF PartPresent
<1>0. /\ worker \in [Workers -> WorkerState] /\ WorkersApart
      /\ \A w \in Workers : worker[w].pc = "streaming" => worker[w].ep \in part
      /\ \A w \in Workers : ~FailLate(w)
  BY LatesCount DEF Core, TypeOK, PartPresent
<1> USE DEF PartPresent, rows, disk
<1>1. CASE worker' = worker /\ part' = part
  BY <1>0, <1>1
<1>2. CASE Restart \/ Crash
  BY <1>2 DEF Restart, Crash, IdleWorker, DownWorker
<1>3. ASSUME NEW w \in Workers, NEW j \in Jobs, Claim(w, j) PROVE PartPresent'
  BY <1>0, <1>3 DEF Claim, WorkerState, IdleWorker
<1>4. ASSUME NEW w \in Workers, worker' = [worker EXCEPT ![w] = IdleWorker], part' = part
      PROVE  PartPresent'
  BY <1>0, <1>4 DEF IdleWorker
<1>5. ASSUME NEW w \in Workers, BeginFetch(w) PROVE PartPresent'
  <2>1. part' = part \cup {worker[w].ep} /\ \A v \in Workers \ {w} : worker'[v] = worker[v]
    BY <1>0, <1>5 DEF BeginFetch
  <2>2. worker'[w].ep = worker[w].ep
    BY <1>0, <1>5 DEF BeginFetch, WorkerState
  <2> QED BY <1>0, <2>1, <2>2
<1>6. ASSUME NEW w \in Workers, Holding(w), part \ {worker[w].ep} \subseteq part',
             worker'[w].pc # "streaming",
             \A v \in Workers \ {w} : worker'[v] = worker[v]
      PROVE  PartPresent'
  <2>1. \A v \in Workers \ {w} : worker[v].pc = "streaming" => worker[v].ep # worker[w].ep
    BY <1>0, <1>6 DEF WorkersApart, Working, Holding
  <2> QED BY <1>0, <1>6, <2>1
<1>7. ASSUME NEW w \in Workers, Rename(w) \/ FailFetch(w) \/ RecordRefused(w) \/ LoseJob(w)
      PROVE  PartPresent'
  <2>1. /\ Holding(w) /\ part \ {worker[w].ep} \subseteq part'
        /\ worker'[w].pc # "streaming"
        /\ \A v \in Workers \ {w} : worker'[v] = worker[v]
    BY <1>0, <1>7
    DEF Rename, FailFetch, RecordRefused, LoseJob, Free, Holding, IdleWorker, WorkerState
  <2> QED BY <1>6, <2>1
<1>8. ASSUME NEW w \in Workers, Record(w) PROVE PartPresent'
  BY <1>0, <1>8 DEF Record, WorkerState
<1> QED
  BY <1>0, <1>1, <1>2, <1>3, <1>4, <1>5, <1>7, <1>8
  DEF Next, Step, WorkerStep, HandlerStep, CompleteOnDisk, Abandon, Settle, Free, Ask,
      AskHave, AskJoin, AskNone, AskInsert, PurgeUnlink, PurgeCommit, FeedUnlink, FeedDrop,
      Refuse, Unqueue, Wipe

\* No retry, abandoned job or restart takes the .part file from under a worker that streams
\* into it, as long as nothing fails after its commit.
THEOREM PartUnderItsWriter == Spec => []PartPresent
<1>1. Init => PartPresent
  BY DEF Init, PartPresent, DownWorker, IdleWorker
<1>2. Consistent /\ PartPresent /\ [Next]_vars => PartPresent'
  <2>1. PartPresent /\ UNCHANGED vars => PartPresent'
    BY DEF PartPresent, vars, disk
  <2> QED BY <2>1, StepPartPresent DEF Consistent
<1> QED BY <1>1, <1>2, AlwaysConsistent, PTL DEF Spec

\* Rows die with the feed, together: no path and no job outlives its episode.
THEOREM RowsDieTogether == Spec => []FeedTakesRows
<1>1. Consistent => FeedTakesRows
  BY DEF Consistent, Core
<1> QED BY <1>1, AlwaysConsistent, PTL

\* With one request at a time, the path a purge is about to clear is still there, and an
\* episode read as neither downloaded nor purged is not purged meanwhile.
PurgesWhatIsThere ==
  \A h \in Handlers : handler[h].pc = "purge" => handler[h].ep \in local
ReadAsPurged ==
  \A w \in Workers :
    worker[w].pc \in {"streaming", "renamed"} /\ ~worker[w].local
      => (worker[w].ep \in purged => worker[w].purged)
OneRequest == PurgesWhatIsThere /\ ReadAsPurged /\ LocalNotPurged

\* A step that reads and writes none of it.
LEMMA RequestsApart ==
  ASSUME OneRequest, local' = local, purged' = purged,
         \A h \in Handlers : handler'[h].pc = "purge" =>
           handler[h].pc = "purge" /\ handler'[h].ep = handler[h].ep,
         \A w \in Workers : worker'[w].pc \in {"streaming", "renamed"} =>
           /\ worker[w].pc \in {"streaming", "renamed"}
           /\ worker'[w].ep = worker[w].ep
           /\ worker'[w].local = worker[w].local /\ worker'[w].purged = worker[w].purged
  PROVE  OneRequest'
BY DEF OneRequest, PurgesWhatIsThere, ReadAsPurged, LocalNotPurged

LEMMA StepOneRequest ==
  ASSUME NEW h, \A o \in Handlers \ {h} : handler[o] = IdleHandler, Core, OneRequest,
         \/ Restart \/ Crash
         \/ \E w \in Workers : WorkerStep(w)
         \/ h \in Handlers /\ HandlerStep(h)
         \/ \E e \in Episodes : Unqueue(e) \/ Wipe(e)
  PROVE  OneRequest'
<1>0. /\ worker \in [Workers -> WorkerState] /\ handler \in [Handlers -> HandlerState]
      /\ PurgesWhatIsThere /\ ReadAsPurged /\ LocalNotPurged /\ NobodyElseRecords
  BY DEF Core, TypeOK, OneRequest
<1> USE DEF rows, disk
<1>1. CASE Restart \/ Crash
  BY <1>0, <1>1, RequestsApart DEF Restart, Crash, IdleWorker, DownWorker, IdleHandler
<1>2. ASSUME NEW w \in Workers, NEW j \in Jobs, Claim(w, j) PROVE OneRequest'
  BY <1>0, <1>2, RequestsApart DEF Claim, WorkerState, IdleWorker
<1>3. ASSUME NEW w \in Workers, worker' = [worker EXCEPT ![w] = IdleWorker],
             UNCHANGED <<local, purged, handler>>
      PROVE  OneRequest'
  BY <1>0, <1>3, RequestsApart DEF IdleWorker
<1>4. ASSUME NEW w \in Workers, BeginFetch(w) PROVE OneRequest'
  <2>1. /\ UNCHANGED <<local, purged, handler>>
        /\ \A v \in Workers \ {w} : worker'[v] = worker[v]
    BY <1>0, <1>4 DEF BeginFetch
  <2>2. worker'[w].ep = worker[w].ep
    BY <1>0, <1>4 DEF BeginFetch, WorkerState
  <2>3. worker'[w].purged = (worker[w].ep \in purged)
    BY <1>0, <1>4 DEF BeginFetch, WorkerState
  <2>4. ReadAsPurged'
    BY <1>0, <2>1, <2>2, <2>3 DEF ReadAsPurged
  <2> QED BY <1>0, <2>1, <2>4 DEF OneRequest, PurgesWhatIsThere, LocalNotPurged
<1>5. ASSUME NEW w \in Workers, Rename(w) PROVE OneRequest'
  BY <1>0, <1>5, RequestsApart DEF Rename, WorkerState
<1>6. ASSUME NEW w \in Workers, Record(w) PROVE OneRequest'
  <2>1. /\ worker'[w].pc = "post" /\ handler' = handler
        /\ \A v \in Workers \ {w} : worker'[v] = worker[v]
    BY <1>0, <1>6 DEF Record, WorkerState
  <2>2. /\ local \subseteq local' /\ purged' \subseteq purged
        /\ local' \subseteq local \cup {worker[w].ep}
    BY <1>6 DEF Record
  <2>3. ~worker[w].local => worker[w].ep \notin purged'
    BY <1>0, <1>6 DEF Record, ReadAsPurged
  <2>4. worker[w].local => local' = local
    BY <1>6 DEF Record
  <2>5. LocalNotPurged'
    BY <1>0, <2>2, <2>3, <2>4 DEF LocalNotPurged
  <2> QED BY <1>0, <2>1, <2>2, <2>5 DEF OneRequest, PurgesWhatIsThere, ReadAsPurged
<1>o. \A o \in Handlers \ {h} : handler[o].pc # "purge"
  BY DEF IdleHandler
<1>7. CASE h \in Handlers /\ PurgeCommit(h)
  <2> DEFINE e == handler[h].ep
  <2>1. /\ e \in local /\ worker' = worker /\ local' = local \ {e}
        /\ purged' = purged \cup {e}
    BY <1>0, <1>7 DEF PurgeCommit, PurgesWhatIsThere
  <2>2. PurgesWhatIsThere'
    BY <1>0, <1>7, <1>o DEF PurgeCommit, Answer, IdleHandler, PurgesWhatIsThere
  <2> HIDE DEF e
  <2>3. ReadAsPurged'
    BY <1>0, <2>1 DEF ReadAsPurged, NobodyElseRecords
  <2>4. LocalNotPurged'
    BY <1>0, <2>1 DEF LocalNotPurged
  <2> QED BY <2>2, <2>3, <2>4 DEF OneRequest
<1>8. ASSUME h \in Handlers, NEW e \in Episodes, PurgeUnlink(h, e) PROVE OneRequest'
  <2>1. PurgesWhatIsThere'
    BY <1>0, <1>8, <1>o DEF PurgeUnlink, IdleHandler, PurgesWhatIsThere
  <2> QED BY <1>0, <1>8, <2>1 DEF PurgeUnlink, OneRequest, ReadAsPurged, LocalNotPurged
<1>9. ASSUME h \in Handlers => handler'[h].pc # "purge",
             \A o \in Handlers \ {h} : handler'[o] = handler[o],
             worker' = worker, local' \subseteq local, purged' \subseteq purged
      PROVE  OneRequest'
  BY <1>0, <1>9, <1>o DEF OneRequest, PurgesWhatIsThere, ReadAsPurged, LocalNotPurged
<1>10. CASE h \in Handlers /\ HandlerStep(h)
  <2>1. ASSUME NEW e \in Episodes, NEW source \in {"manual", "queue"}, Ask(h, e, source)
        PROVE  OneRequest'
    BY <1>0, <1>9, <1>10, <2>1 DEF Ask
  <2>2. CASE AskHave(h) \/ AskJoin(h) \/ AskInsert(h)
    BY <1>0, <1>9, <1>10, <2>2 DEF AskHave, AskJoin, AskInsert, Forget, Answer, IdleHandler
  <2>3. CASE AskNone(h)
    BY <1>0, <1>9, <1>10, <2>3 DEF AskNone, HandlerState
  <2>4. CASE FeedUnlink(h) \/ Refuse(h)
    BY <1>0, <1>9, <1>10, <2>4 DEF FeedUnlink, Refuse, Answer, IdleHandler
  <2>5. CASE FeedDrop(h)
    BY <1>0, <1>9, <1>10, <2>5 DEF FeedDrop, Answer, IdleHandler
  <2>6. CASE \E e \in Episodes, source \in {"manual", "queue"} : Ask(h, e, source)
    BY <2>1, <2>6
  <2>7. CASE \E e \in Episodes : PurgeUnlink(h, e)
    BY <1>8, <1>10, <2>7
  <2> QED BY <1>7, <1>10, <2>2, <2>3, <2>4, <2>5, <2>6, <2>7 DEF HandlerStep
<1>11. CASE UNCHANGED <<local, purged, handler, worker>>
  BY <1>11, RequestsApart
<1> QED
  BY <1>1, <1>2, <1>3, <1>4, <1>5, <1>6, <1>10, <1>11
  DEF WorkerStep, CompleteOnDisk, Abandon, FailFetch, RecordRefused, LoseJob,
      Settle, FailLate, Free, Unqueue, Wipe

\* When requests come one at a time an episode on disk is never marked purged, however long
\* its fetch took and whatever was purged, requested or dropped meanwhile.
THEOREM OnDiskNotPurged ==
  IsFiniteSet(Handlers) /\ Cardinality(Handlers) = 1 /\ Spec => []LocalNotPurged
<1> SUFFICES ASSUME IsFiniteSet(Handlers), Cardinality(Handlers) = 1
             PROVE  Spec => []LocalNotPurged
  OBVIOUS
<1>1. Init => OneRequest
  BY DEF Init, OneRequest, PurgesWhatIsThere, ReadAsPurged, LocalNotPurged, IdleHandler,
         DownWorker, IdleWorker
<1>2. Consistent /\ OneRequest /\ [Next]_vars => OneRequest'
  <2>1. OneRequest /\ UNCHANGED vars => OneRequest'
    BY DEF OneRequest, PurgesWhatIsThere, ReadAsPurged, LocalNotPurged, vars, rows
  <2>2. PICK h : Handlers = {h}
    BY FS_Singleton
  <2>3. Consistent /\ OneRequest /\ Next => OneRequest'
    BY <2>2, StepOneRequest DEF Consistent, Next, Step
  <2> QED BY <2>1, <2>3
<1>3. OneRequest => LocalNotPurged
  BY DEF OneRequest
<1> QED BY <1>1, <1>2, <1>3, AlwaysConsistent, PTL DEF Spec

\* At most one handler is at work.
OneBusy ==
  \A g, h \in Handlers : handler[g] # IdleHandler /\ handler[h] # IdleHandler => g = h
RequestsTakeTurns == Cardinality(present) > 1 => OneBusy /\ OneRequest

\* Rows only ever leave.
LEMMA PresentShrinks ==
  ASSUME Next
  PROVE  present' \subseteq present
<1> USE DEF rows
<1>1. ASSUME NEW w \in Workers, WorkerStep(w) PROVE present' = present
  BY <1>1 DEF WorkerStep, Claim, CompleteOnDisk, Abandon, BeginFetch, Rename, FailFetch,
     Record, RecordRefused, LoseJob, Settle, FailLate
<1>2. ASSUME NEW h \in Handlers, HandlerStep(h) PROVE present' \subseteq present
  BY <1>2 DEF HandlerStep, Ask, AskHave, AskJoin, AskNone, AskInsert, PurgeUnlink,
     PurgeCommit, FeedUnlink, FeedDrop, Refuse
<1> QED BY <1>1, <1>2 DEF Next, Step, Restart, Crash, Unqueue, Wipe

LEMMA StepTakesTurns ==
  ASSUME Core, OneBusy, OneRequest, Cardinality(present) > 1, DownloadsNext
  PROVE  OneBusy' /\ OneRequest'
<1>0. handler \in [Handlers -> HandlerState]
  BY DEF Core, TypeOK
<1>1. ASSUME NEW h \in Handlers, \A o \in Handlers \ {h} : handler[o] = IdleHandler,
             HandlerStep(h)
      PROVE  OneBusy' /\ OneRequest'
  <2>1. \A o \in Handlers \ {h} : handler'[o] = handler[o]
    BY <1>0, <1>1 DEF HandlerStep, Ask, AskHave, AskJoin, AskNone, AskInsert, PurgeUnlink,
       PurgeCommit, FeedUnlink, FeedDrop, Refuse, Answer
  <2>2. OneBusy'
    BY <1>1, <2>1 DEF OneBusy
  <2> QED BY <1>1, <2>2, StepOneRequest
<1>2. ASSUME NEW h \in Handlers, Reply(h) PROVE OneBusy' /\ OneRequest'
  <2>1. handler[h] # IdleHandler
    BY <1>2 DEF Reply, AskHave, AskJoin, AskNone, AskInsert, PurgeCommit, FeedDrop, Refuse,
       IdleHandler
  <2>2. \A o \in Handlers \ {h} : handler[o] = IdleHandler
    BY <2>1 DEF OneBusy
  <2> QED BY <1>1, <1>2, <2>2 DEF Reply, HandlerStep
<1>3. ASSUME NEW h \in Handlers, MayBegin(h), Begin(h) PROVE OneBusy' /\ OneRequest'
  BY <1>1, <1>3 DEF MayBegin, Begin, HandlerStep
<1>4. CASE \/ Restart \/ Crash \/ (\E w \in Workers : WorkerStep(w))
           \/ \E e \in Episodes : Unqueue(e) \/ Wipe(e)
  <2>1. OneBusy'
    <3>1. handler' = handler \/ handler' = [h \in Handlers |-> IdleHandler]
      BY <1>4 DEF Restart, Crash, WorkerStep, Claim, CompleteOnDisk, Abandon, BeginFetch,
         Rename, FailFetch, Record, RecordRefused, LoseJob, Settle, FailLate, Unqueue, Wipe
    <3> QED BY <3>1 DEF OneBusy
  <2>2. PICK h : \A o \in Handlers \ {h} : handler[o] = IdleHandler
    BY DEF OneBusy
  <2> QED BY <1>4, <2>1, <2>2, StepOneRequest
<1> QED BY <1>2, <1>3, <1>4 DEF DownloadsNext

LEMMA DownloadsNextIsNext == DownloadsNext => Next
BY DEF DownloadsNext, Begin, Reply, HandlerStep, Next, Step

\* The same when two episodes or more are there, nothing being asked while another request
\* is under way, and any two requests at once may contend for the one that is left: an
\* episode on disk is not marked purged (downloader.py:195, refresh.py:169).
THEOREM TurnsKeepApart ==
  IsFiniteSet(Episodes) /\ DownloadsSpec => []OneRequestNotPurged
<1> SUFFICES ASSUME IsFiniteSet(Episodes) PROVE DownloadsSpec => []OneRequestNotPurged
  OBVIOUS
<1>1. Init => RequestsTakeTurns
  BY DEF Init, RequestsTakeTurns, OneBusy, OneRequest, PurgesWhatIsThere, ReadAsPurged,
     LocalNotPurged, IdleHandler, DownWorker, IdleWorker
<1>2. Consistent /\ RequestsTakeTurns /\ [DownloadsNext]_vars => RequestsTakeTurns'
  <2>1. RequestsTakeTurns /\ UNCHANGED vars => RequestsTakeTurns'
    BY DEF RequestsTakeTurns, OneBusy, OneRequest, PurgesWhatIsThere, ReadAsPurged,
       LocalNotPurged, vars, rows
  <2>2. ASSUME Consistent, RequestsTakeTurns, DownloadsNext, Cardinality(present') > 1
        PROVE  OneBusy' /\ OneRequest'
    <3>1. present' \subseteq present /\ present \subseteq Episodes
      BY <2>2, PresentShrinks, DownloadsNextIsNext DEF Consistent, Core, TypeOK
    <3>2. /\ IsFiniteSet(present) /\ IsFiniteSet(present')
          /\ Cardinality(present') <= Cardinality(present)
      BY <3>1, FS_Subset
    <3>3. Cardinality(present) \in Nat /\ Cardinality(present') \in Nat
      BY <3>2, FS_CardinalityType
    <3>4. Cardinality(present) > 1
      BY <2>2, <3>2, <3>3
    <3> QED BY <2>2, <3>4, StepTakesTurns DEF Consistent, RequestsTakeTurns
  <2> QED BY <2>1, <2>2 DEF RequestsTakeTurns
<1>3. RequestsTakeTurns => OneRequestNotPurged
  BY DEF RequestsTakeTurns, OneRequestNotPurged, OneRequest
<1>4. DownloadsSpec => Spec
  <2>1. [DownloadsNext]_vars => [Next]_vars
    BY DownloadsNextIsNext
  <2> QED BY <2>1, PTL DEF DownloadsSpec, Spec
<1> QED BY <1>1, <1>2, <1>3, <1>4, AlwaysConsistent, PTL DEF DownloadsSpec

Up == \A w \in Workers : worker[w].pc # "down"
\* The running jobs that are in no worker's hands.
Strays ==
  {j \in Jobs : /\ job[j].state = "running"
                /\ \A w \in Workers : Holding(w) => worker[w].job # j}

\* A worker that held a running job lets go of it only once it is settled.
LEMMA HeldOrSettled ==
  ASSUME Core, NEW w \in Workers, Holding(w), worker[w].ep \notin present
  PROVE  \A j \in Jobs : job[j].state = "absent"
<1>1. ~subscribed
  BY DEF Core, WorkerOwnsJob, Working
<1> QED BY <1>1 DEF Core, FeedTakesRows

\* A failed attempt leaves no job of a worker running.
LEMMA FailJobSettles ==
  ASSUME Core, NEW w \in Workers, Working(w), FailJob(worker[w].job)
  PROVE  /\ job' \in [Jobs -> JobRow]
         /\ \A j \in Jobs : job'[j].state = "running" => job[j].state = "running"
         /\ job'[worker[w].job].state # "running"
<1> DEFINE i == worker[w].job
<1>0. i \in Jobs /\ job \in [Jobs -> JobRow] /\ job[i].attempts < MaxAttempts
  BY OwnedJob DEF Core, TypeOK
<1>1. job' \in [Jobs -> JobRow]
  BY <1>0, FailJobType DEF Core
<1>2. \A j \in Jobs : job'[j].state = "running" => job[j].state = "running"
  BY <1>0 DEF FailJob, JobRow
<1>3. job'[i].state # "running"
  <2>1. CASE ~subscribed
    BY <1>0, <2>1 DEF FailJob, Core, FeedTakesRows, JobRow
  <2>2. CASE subscribed
    <3>1. job[i].ep = worker[w].ep /\ job[i].state \in {"running", "done"}
      BY <2>2 DEF Core, WorkerOwnsJob
    <3>2. job[i].state = "running" => LiveJobs(job[i].ep) \ {i} = {}
      BY <1>0 DEF Core, OneLiveJob, LiveJobs, Live
    <3>3. FailJob(i)
      OBVIOUS
    <3> HIDE DEF i
    <3> QED BY <1>0, <3>1, <3>2, <3>3 DEF FailJob, JobRow
  <2> QED BY <2>1, <2>2
<1> QED BY <1>1, <1>2, <1>3

\* A worker that lets go of its job, or takes up one, as far as the strays are concerned.
LEMMA NoNewStray ==
  ASSUME NEW w \in Workers, worker \in [Workers -> WorkerState],
         \A v \in Workers \ {w} : worker'[v] = worker[v],
         \A j \in Jobs : job'[j].state = "running" =>
           \/ job[j].state = "running" /\ (Holding(w) => worker[w].job # j \/ Holding(w)')
           \/ Holding(w)' /\ worker'[w].job = j,
         Holding(w) /\ Holding(w)' => worker'[w].job = worker[w].job
  PROVE  Strays' \subseteq Strays
BY DEF Strays, Holding

LEMMA StepStrays ==
  ASSUME Core, Next, Up, Up'
  PROVE  Strays' \subseteq Strays \/ \E w \in Workers : LoseJob(w) /\ Strays' \subseteq Strays \cup {worker[w].job}
<1>0. worker \in [Workers -> WorkerState] /\ job \in [Jobs -> JobRow]
  BY DEF Core, TypeOK
<1> USE DEF rows, disk
<1>1. CASE worker' = worker /\ \A j \in Jobs : job'[j].state = "running" => job[j].state = "running"
  BY <1>1 DEF Strays, Holding
<1>2. CASE Restart
  BY <1>0, <1>2 DEF Restart, Strays, JobRow
<1>3. CASE Crash
  <2>1. CASE Workers = {}
    BY <1>3, <2>1 DEF Crash, Strays
  <2>2. CASE Workers # {}
    BY <1>3, <2>2 DEF Crash, Up, DownWorker, IdleWorker
  <2> QED BY <2>1, <2>2
<1>4. ASSUME NEW w \in Workers, NEW j \in Jobs, Claim(w, j) PROVE Strays' \subseteq Strays
  <2>1. /\ \A v \in Workers \ {w} : worker'[v] = worker[v]
        /\ worker'[w].job = j /\ worker'[w].pc = "claimed" /\ worker[w].pc = "idle"
        /\ \A i \in Jobs \ {j} : job'[i] = job[i]
    BY <1>0, <1>4 DEF Claim, IdleWorker
  <2> QED BY <1>0, <2>1, NoNewStray DEF Holding
<1>5. ASSUME NEW w \in Workers, BeginFetch(w) \/ Rename(w) PROVE Strays' \subseteq Strays
  <2>1. /\ \A v \in Workers \ {w} : worker'[v] = worker[v]
        /\ worker'[w].job = worker[w].job /\ Holding(w)' /\ job' = job
    BY <1>0, <1>5 DEF BeginFetch, Rename, Holding, WorkerState
  <2> QED BY <1>0, <2>1, NoNewStray
<1>6. ASSUME NEW w \in Workers, CompleteOnDisk(w) \/ Record(w) PROVE Strays' \subseteq Strays
  <2>1. worker[w].job \in Jobs /\ Holding(w)
    BY <1>6, OwnedJob DEF CompleteOnDisk, Record, Working, Holding
  <2>2. \A v \in Workers \ {w} : worker'[v] = worker[v]
    BY <1>0, <1>6 DEF CompleteOnDisk, Record, Free
  <2>3. \A j \in Jobs : job'[j].state = "running" =>
          job[j].state = "running" /\ worker[w].job # j
    BY <1>0, <1>6, <2>1 DEF CompleteOnDisk, Record, JobRow
  <2>4. ~Holding(w)'
    BY <1>0, <1>6 DEF CompleteOnDisk, Record, Free, Holding, IdleWorker, WorkerState
  <2> QED BY <1>0, <2>2, <2>3, <2>4, NoNewStray
<1>7. ASSUME NEW w \in Workers, Abandon(w) \/ RecordRefused(w) PROVE Strays' \subseteq Strays
  <2>1. \A j \in Jobs : job[j].state = "absent"
    BY <1>7, HeldOrSettled DEF Abandon, RecordRefused, Holding
  <2> QED BY <1>7, <2>1 DEF Abandon, RecordRefused, Strays
<1>8. ASSUME NEW w \in Workers, FailFetch(w) \/ FailLate(w) PROVE Strays' \subseteq Strays
  <2>1. Working(w) /\ FailJob(worker[w].job)
    BY <1>8 DEF FailFetch, FailLate, Working, Holding
  <2>2. \A v \in Workers \ {w} : worker'[v] = worker[v]
    BY <1>0, <1>8 DEF FailFetch, FailLate, Free
  <2>3. ~Holding(w)'
    BY <1>0, <1>8 DEF FailFetch, FailLate, Free, Holding, IdleWorker
  <2>4. \A j \in Jobs : job'[j].state = "running" =>
          job[j].state = "running" /\ worker[w].job # j
    BY <2>1, FailJobSettles
  <2> QED BY <1>0, <2>2, <2>3, <2>4, NoNewStray
<1>9. ASSUME NEW w \in Workers, LoseJob(w) PROVE Strays' \subseteq Strays \cup {worker[w].job}
  BY <1>0, <1>9 DEF LoseJob, Free, IdleWorker, Strays, Holding
<1>10. ASSUME NEW w \in Workers, Settle(w) PROVE Strays' \subseteq Strays
  <2>1. /\ \A v \in Workers \ {w} : worker'[v] = worker[v]
        /\ ~Holding(w) /\ ~Holding(w)' /\ job' = job
    BY <1>0, <1>10 DEF Settle, Free, Holding, IdleWorker
  <2> QED BY <1>0, <2>1, NoNewStray
<1>11. ASSUME NEW h \in Handlers, HandlerStep(h) PROVE Strays' \subseteq Strays
  <2>1. worker' = worker
    BY <1>11
    DEF HandlerStep, Ask, AskHave, AskJoin, AskNone, AskInsert, PurgeUnlink, PurgeCommit,
        FeedUnlink, FeedDrop, Refuse
  <2>2. ASSUME NEW e, NEW source, NEW state \in {"queued", "done"}, InsertJob(e, source, state)
        PROVE  \A j \in Jobs : job'[j].state = "running" => job[j].state = "running"
    BY <1>0, <2>2 DEF InsertJob, FreeJobs
  <2>3. CASE AskHave(h) \/ AskInsert(h)
    BY <1>1, <2>1, <2>2, <2>3 DEF AskHave, AskInsert, Strays, Holding
  <2>4. CASE AskJoin(h)
    <3>1. \A j \in Jobs : job'[j].state = job[j].state
      BY <1>0, <2>4 DEF AskJoin, LiveJobs, JobRow
    <3> QED BY <2>1, <3>1 DEF Strays, Holding
  <2>5. CASE FeedDrop(h)
    BY <2>1, <2>5 DEF FeedDrop, NoJob, Strays, Holding
  <2>6. CASE job' = job
    BY <2>1, <2>6 DEF Strays, Holding
  <2> QED
    BY <1>11, <2>3, <2>4, <2>5, <2>6
    DEF HandlerStep, Ask, AskNone, PurgeUnlink, PurgeCommit, FeedUnlink, Refuse
<1>12. CASE UNCHANGED <<worker, job>>
  BY <1>12 DEF Strays, Holding
<1> QED
  BY <1>2, <1>3, <1>4, <1>5, <1>6, <1>7, <1>8, <1>9, <1>10, <1>11, <1>12
  DEF Next, Step, WorkerStep, Unqueue, Wipe

LEMMA DbFaultsCount ==
  ASSUME TypeOK, Next
  PROVE  /\ faults.db \in Nat /\ faults'.db \in Nat /\ faults.db <= faults'.db
         /\ \A w \in Workers : LoseJob(w) => faults'.db = faults.db + 1
<1>0. faults \in FaultCounts /\ MaxDbFaults \in Nat
  BY DownloadsAssumption DEF TypeOK
<1> USE DEF FaultCounts
<1>1. CASE UNCHANGED faults
  BY <1>0, <1>1 DEF LoseJob
<1>2. ASSUME NEW w \in Workers, FailLate(w) PROVE faults'.db = faults.db
  BY <1>0, <1>2 DEF FailLate
<1>3. \A w \in Workers : LoseJob(w) => faults'.db = faults.db + 1
  BY <1>0 DEF LoseJob
<1>4. \A e \in Episodes : Wipe(e) => faults'.db = faults.db
  BY <1>0 DEF Wipe
<1>5. Crash => faults'.db = faults.db
  BY <1>0 DEF Crash
<1>6. faults'.db = faults.db \/ \E w \in Workers : LoseJob(w)
  BY <1>1, <1>2, <1>4, <1>5
  DEF Next, Step, WorkerStep, HandlerStep, Restart, Claim, CompleteOnDisk, Abandon,
      BeginFetch, Rename, FailFetch, Record, RecordRefused, Settle, Ask, AskHave,
      AskJoin, AskNone, AskInsert, PurgeUnlink, PurgeCommit, FeedUnlink, FeedDrop,
      Refuse, Unqueue
<1>7. faults.db \in Nat
  BY <1>0
<1> QED BY <1>3, <1>6, <1>7

\* Nothing is running when the workers come up.
LEMMA ComingUp ==
  ASSUME Core, Next, ~Up, Up'
  PROVE  Strays' = {}
<1>0. worker \in [Workers -> WorkerState] /\ job \in [Jobs -> JobRow]
  BY DEF Core, TypeOK
<1>1. PICK w \in Workers : worker[w].pc = "down"
  BY DEF Up
<1>2. worker'[w].pc # "down"
  BY DEF Up
<1>3. Restart
  <2>1. ASSUME NEW v \in Workers, WorkerStep(v) PROVE worker'[w] = worker[w]
    BY <1>0, <1>1, <2>1
    DEF WorkerStep, Claim, CompleteOnDisk, Abandon, BeginFetch, Rename, FailFetch, Record,
        RecordRefused, LoseJob, Settle, FailLate, Free
  <2>2. ASSUME NEW h \in Handlers, HandlerStep(h) PROVE worker' = worker
    BY <2>2
    DEF HandlerStep, Ask, AskHave, AskJoin, AskNone, AskInsert, PurgeUnlink, PurgeCommit,
        FeedUnlink, FeedDrop, Refuse
  <2>3. Crash => worker'[w].pc = "down"
    BY DEF Crash, DownWorker, IdleWorker
  <2> QED BY <1>1, <1>2, <2>1, <2>2, <2>3 DEF Next, Step, Unqueue, Wipe
<1>4. \A j \in Jobs : job'[j].state # "running"
  BY <1>0, <1>3 DEF Restart, JobRow
<1> QED BY <1>4 DEF Strays

LEMMA StepRunningHeld ==
  ASSUME IsFiniteSet(Jobs), Core, RunningJobsHeld, Next
  PROVE  RunningJobsHeld'
<1> SUFFICES ASSUME Up' PROVE Cardinality(Strays') <= faults'.db
  BY DEF RunningJobsHeld, Strays, Up
<1>1. /\ faults.db \in Nat /\ faults'.db \in Nat /\ faults.db <= faults'.db
      /\ \A w \in Workers : LoseJob(w) => faults'.db = faults.db + 1
  BY DbFaultsCount DEF Core
<1>2. IsFiniteSet(Strays) /\ Strays' \in SUBSET Jobs
  <2>1. Strays \in SUBSET Jobs
    BY DEF Strays
  <2>2. Strays' \in SUBSET Jobs
    BY DEF Strays
  <2> QED BY <2>1, <2>2, FS_Subset
<1>3. Cardinality(Strays) \in Nat /\ Cardinality(Strays') \in Nat
  BY <1>2, FS_Subset, FS_CardinalityType
<1>4. CASE ~Up
  BY <1>1, <1>4, ComingUp, FS_EmptySet
<1>5. CASE Up
  <2>1. Cardinality(Strays) <= faults.db
    BY <1>5 DEF RunningJobsHeld, Strays, Up
  <2>2. CASE Strays' \subseteq Strays
    <3>1. Cardinality(Strays') <= Cardinality(Strays)
      BY <1>2, <2>2, FS_Subset
    <3> QED BY <1>1, <1>3, <2>1, <3>1
  <2>3. ASSUME NEW w \in Workers, LoseJob(w), Strays' \subseteq Strays \cup {worker[w].job}
        PROVE  Cardinality(Strays') <= faults'.db
    <3> DEFINE i == worker[w].job
               more == Strays \cup {i}
    <3>1. IsFiniteSet(Strays)
      BY <1>2
    <3>2. /\ IsFiniteSet(more)
          /\ Cardinality(more) = IF i \in Strays THEN Cardinality(Strays) ELSE Cardinality(Strays) + 1
      BY <3>1, FS_AddElement
    <3>3. Cardinality(Strays') <= Cardinality(more) /\ Cardinality(more) \in Nat
      BY <2>3, <3>2, FS_Subset, FS_CardinalityType
    <3>4. faults'.db = faults.db + 1
      BY <1>1, <2>3
    <3> HIDE DEF more
    <3> QED BY <1>1, <1>3, <2>1, <3>2, <3>3, <3>4
  <2> QED BY <1>5, <2>2, <2>3, StepStrays
<1> QED BY <1>4, <1>5

\* With the workers up every running job is in a worker's hands, but for one for each time
\* the database failed under run_job and _fail_job, through any number of crashes, retries
\* and feeds dropped under a fetch.
THEOREM RunningIsHeld == IsFiniteSet(Jobs) /\ Spec => []RunningJobsHeld
<1> SUFFICES ASSUME IsFiniteSet(Jobs) PROVE Spec => []RunningJobsHeld
  OBVIOUS
<1>1. Init => RunningJobsHeld
  <2> SUFFICES ASSUME Init PROVE RunningJobsHeld
    OBVIOUS
  <2>1. Strays = {} /\ faults.db = 0
    BY DEF Init, Strays, NoJob
  <2> QED BY <2>1, FS_EmptySet DEF RunningJobsHeld, Strays
<1>2. Consistent /\ RunningJobsHeld /\ [Next]_vars => RunningJobsHeld'
  <2>1. RunningJobsHeld /\ UNCHANGED vars => RunningJobsHeld'
    BY DEF RunningJobsHeld, Holding, vars
  <2> QED BY <2>1, StepRunningHeld DEF Consistent
<1> QED BY <1>1, <1>2, AlwaysConsistent, PTL DEF Spec
=============================================================================
