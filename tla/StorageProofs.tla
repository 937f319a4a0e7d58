---------------------------- MODULE StorageProofs ----------------------------
(* Theorems about Storage, and about StorageClaims at the end.  What the    *)
(* passes do to the rows and the files is shown to keep Core; what the      *)
(* download queue does beside them was shown in DownloadsProofs.            *)
EXTENDS StorageClaims, DownloadsProofs

\* Unlinking downloads disturbs no worker: what a worker renamed and has not
\* recorded is not yet a download.
LEMMA UnlinkKeepsCore ==
  ASSUME Core, file' \subseteq file, file \ file' \subseteq local,
         UNCHANGED <<subscribed, present, local, purged, queue, job, part,
                     worker, handler, faults>>
  PROVE  Core'
<1>1. TypeOK' /\ FeedTakesRows' /\ AttemptsLeft' /\ OneLiveJob'
  BY DEF Core, TypeOK, FeedTakesRows, AttemptsLeft, OneLiveJob
<1>2. WorkerOwnsJob' /\ WorkersApart' /\ NobodyElseRecords'
  BY DEF Core, WorkerOwnsJob, WorkersApart, NobodyElseRecords, Working, Holding
<1>3. RenamedStays'
  BY DEF Core, RenamedStays, NobodyElseRecords
<1> QED BY <1>1, <1>2, <1>3 DEF Core

\* Neither does recording a purge.
LEMMA PurgeKeepsCore ==
  ASSUME Core, local' \subseteq local, purged' \subseteq Episodes,
         UNCHANGED <<subscribed, present, queue, job, file, part,
                     worker, handler, faults>>
  PROVE  Core'
<1>1. TypeOK' /\ FeedTakesRows' /\ AttemptsLeft' /\ OneLiveJob'
  BY DEF Core, TypeOK, FeedTakesRows, AttemptsLeft, OneLiveJob
<1>2. WorkerOwnsJob' /\ WorkersApart' /\ NobodyElseRecords' /\ RenamedStays'
  BY DEF Core, WorkerOwnsJob, WorkersApart, NobodyElseRecords, RenamedStays,
         Working, Holding
<1> QED BY <1>1, <1>2 DEF Core

LEMMA ExpiredOnDisk ==
  ASSUME NEW mode \in Modes, NEW old \in SUBSET local
  PROVE  Expired(mode, old) \subseteq local
<1>1. mode \in RetentionModes
  BY StorageAssumption
<1> QED BY <1>1 DEF Expired, RetentionModes

LEMMA VictimsOnDisk ==
  ASSUME NEW survivors, NEW protected, NEW victims \in CeilingVictims(survivors, protected)
  PROVE  victims \subseteq survivors
BY DEF CeilingVictims

LEMMA InitStorage == StorageInit => StorageConsistent
<1> SUFFICES ASSUME StorageInit PROVE StorageConsistent
  OBVIOUS
<1>1. Core
  BY InitCore DEF StorageInit, Consistent
<1>2. IdlePass \in PassState /\ IdleSweep \in SweepState
  BY DEF IdleSweep, IdlePass, SweepState, PassState
<1>3. StorageTypeOK
  BY <1>1, <1>2 DEF StorageTypeOK, StorageInit, Core
<1>4. PassesHoldRows /\ StorageLocalHasFile
  BY DEF StorageInit, Init, PassesHoldRows, PassHoldsRows, StorageLocalHasFile, IdleSweep,
         IdlePass
<1> QED BY <1>1, <1>3, <1>4 DEF StorageConsistent

\* Rows come with a refresh and go with their feed.
LEMMA StepRows == Next /\ subscribed' => subscribed /\ present' = present
BY DEF Next, Step, WorkerStep, HandlerStep, Restart, Claim, CompleteOnDisk, Abandon,
       BeginFetch, Rename, FailFetch, Record, RecordRefused, LoseJob, Settle, FailLate,
       Ask, AskHave, AskJoin, AskNone, AskInsert, PurgeUnlink, PurgeCommit, FeedUnlink,
       FeedDrop, Refuse, Unqueue, Wipe, Crash, rows

LEMMA QueueKeeps ==
  ASSUME StorageConsistent, QueueStep
  PROVE  StorageConsistent'
<1>1. Core /\ Next
  BY DEF StorageConsistent, QueueStep, Next
<1>2. Core'
  BY <1>1, StepCore
<1>3. UNCHANGED <<sweep, pass>> /\ starred' \subseteq starred /\ played' \subseteq played
  BY DEF QueueStep, passes
<1>4. StorageTypeOK'
  BY <1>2, <1>3 DEF StorageConsistent, StorageTypeOK, Core
<1>5. PassesHoldRows'
  BY <1>1, <1>3, StepRows DEF StorageConsistent, PassesHoldRows, PassHoldsRows
<1>6. StorageLocalHasFile'
  <2> SUFFICES ASSUME faults'.crash = 0, faults'.wipe = 0, NEW e \in local' \ file'
               PROVE  MidPurge(e)' \/ e \in sweep.cut \/ \E p \in Passes : e \in pass[p].cut
    BY <1>3 DEF StorageLocalHasFile
  <2>1. MidPurge(e)' \/ (e \in local \ file /\ ~MidPurge(e))
    BY <1>1, StepLostFiles
  <2>2. faults.crash = 0 /\ faults.wipe = 0
    BY <1>1, WipesCount DEF Core
  <2> QED BY <2>1, <2>2 DEF StorageConsistent, StorageLocalHasFile
<1> QED BY <1>2, <1>4, <1>5, <1>6 DEF StorageConsistent

LEMMA CrashKeeps ==
  ASSUME StorageConsistent, StorageCrash
  PROVE  StorageConsistent'
<1>1. Core /\ Next /\ Crash
  BY DEF StorageConsistent, StorageCrash, Next
<1>2. Core' /\ faults'.crash # 0
  BY <1>1, StepCore, WipesCount DEF Core
<1>3. StorageTypeOK' /\ PassesHoldRows'
  <2>1. IdlePass \in PassState /\ IdleSweep \in SweepState
    BY DEF IdleSweep, IdlePass, SweepState, PassState
  <2>2. sweep' = IdleSweep /\ pass' = [p \in Passes |-> IdlePass]
        /\ UNCHANGED <<starred, played>>
    BY DEF StorageCrash
  <2>3. StorageTypeOK'
    BY <1>2, <2>1, <2>2 DEF StorageConsistent, StorageTypeOK, Core
  <2>4. PassesHoldRows'
    BY <2>2 DEF PassesHoldRows, PassHoldsRows, IdleSweep, IdlePass
  <2> QED BY <2>3, <2>4
<1> QED BY <1>2, <1>3 DEF StorageConsistent, StorageLocalHasFile

LEMMA ListenerKeeps ==
  ASSUME StorageConsistent, NEW e \in Episodes, Star(e) \/ Unstar(e) \/ MarkPlayed(e)
  PROVE  StorageConsistent'
<1>1. /\ UNCHANGED <<subscribed, present, local, purged, job, file, part, worker,
                     handler, faults, sweep, pass>>
      /\ queue' \subseteq queue
      /\ starred' \subseteq Episodes /\ played' \subseteq Episodes
  BY DEF Star, Unstar, MarkPlayed, StorageConsistent, StorageTypeOK, vars, rows, disk, passes
<1>2. Core
  BY DEF StorageConsistent
<1>3. TypeOK' /\ FeedTakesRows' /\ AttemptsLeft' /\ OneLiveJob'
  BY <1>1, <1>2 DEF Core, TypeOK, FeedTakesRows, AttemptsLeft, OneLiveJob
<1>4. WorkerOwnsJob' /\ WorkersApart' /\ NobodyElseRecords' /\ RenamedStays'
  BY <1>1, <1>2 DEF Core, WorkerOwnsJob, WorkersApart, NobodyElseRecords, RenamedStays,
                    Working, Holding
<1>5. StorageTypeOK' /\ PassesHoldRows' /\ StorageLocalHasFile'
  BY <1>1, <1>3 DEF StorageConsistent, StorageTypeOK, PassesHoldRows, PassHoldsRows,
                    StorageLocalHasFile, MidPurge
<1> QED BY <1>3, <1>4, <1>5 DEF StorageConsistent, Core

LEMMA SweepKeeps ==
  ASSUME StorageConsistent, Sweeping
  PROVE  StorageConsistent'
<1>0. /\ Core /\ TypeOK /\ sweep \in SweepState /\ local \subseteq present
      /\ StorageTypeOK /\ PassesHoldRows /\ StorageLocalHasFile
  BY DEF StorageConsistent, StorageTypeOK, Core, FeedTakesRows
<1> USE DEF vars, rows, disk
<1>1. CASE SweepQueue \/ SweepStars
  <2>0. /\ sweep.cut = {} /\ queue \subseteq Episodes /\ starred \subseteq Episodes
        /\ sweep.protected \subseteq Episodes
    BY <1>0, <1>1
    DEF SweepQueue, SweepStars, SweepState, StorageTypeOK, TypeOK, PassesHoldRows
  <2>1. UNCHANGED <<vars, starred, played, pass>> /\ sweep' \in SweepState
        /\ sweep.cut = {} /\ sweep'.cut = {}
    <3>1. CASE SweepQueue
      BY <2>0, <3>1 DEF SweepQueue, SweepState
    <3>2. CASE SweepStars
      BY <1>0, <2>0, <3>2 DEF SweepStars, SweepState
    <3> QED BY <1>1, <3>1, <3>2
  <2>2. Core'
    BY <1>0, <2>1, UnlinkKeepsCore
  <2>3. StorageTypeOK' /\ PassesHoldRows'
    BY <1>0, <2>1, <2>2 DEF StorageTypeOK, PassesHoldRows, PassHoldsRows, Core
  <2> QED BY <1>0, <2>1, <2>2, <2>3 DEF StorageConsistent, StorageLocalHasFile, MidPurge
<1>2. CASE SweepUnlink
  <2>1. PICK mode \in Modes, old \in SUBSET local :
          LET expired == Expired(mode, old) \ sweep.protected IN
          \E victims \in CeilingVictims(local \ expired, sweep.protected) :
            /\ file' = file \ (expired \cup victims)
            /\ sweep' = [sweep EXCEPT !.pc = "unlinked", !.protected = {},
                                    !.cut = expired \cup victims]
    BY <1>2 DEF SweepUnlink
  <2> DEFINE expired == Expired(mode, old) \ sweep.protected
  <2>2. PICK victims \in CeilingVictims(local \ expired, sweep.protected) :
            /\ file' = file \ (expired \cup victims)
            /\ sweep' = [sweep EXCEPT !.pc = "unlinked", !.protected = {},
                                    !.cut = expired \cup victims]
    BY <2>1
  <2> DEFINE cut == expired \cup victims
  <2>3. cut \subseteq local
    BY ExpiredOnDisk, VictimsOnDisk
  <2> HIDE DEF cut
  <2>4. file' = file \ cut /\ sweep'.cut = cut /\ sweep' \in SweepState
    BY <1>0, <2>2, <2>3 DEF cut, SweepState, TypeOK
  <2>5. UNCHANGED <<rows, job, part, worker, handler, faults, starred, played, pass>>
    BY <1>2 DEF SweepUnlink
  <2>6. Core'
    BY <1>0, <2>3, <2>4, <2>5, UnlinkKeepsCore
  <2>7. StorageTypeOK'
    BY <1>0, <2>4, <2>5, <2>6 DEF StorageTypeOK, Core
  <2>8. sweep.cut = {} /\ sweep'.pc = "unlinked"
    BY <1>0, <1>2, <2>2 DEF SweepUnlink, PassesHoldRows, SweepState
  <2>9. StorageLocalHasFile'
    BY <1>0, <2>3, <2>4, <2>5, <2>8 DEF StorageLocalHasFile, MidPurge
  <2>10. PassesHoldRows'
    BY <1>0, <2>3, <2>4, <2>5, <2>8 DEF PassesHoldRows, PassHoldsRows
  <2> QED BY <2>6, <2>7, <2>9, <2>10 DEF StorageConsistent
<1>3. CASE SweepCommit
  <2>1. /\ local' = local \ sweep.cut /\ purged' = purged \cup sweep.cut /\ sweep' = IdleSweep
        /\ UNCHANGED <<subscribed, present, queue, job, file, part, worker, handler, faults,
                       starred, played, pass>>
    BY <1>3 DEF SweepCommit
  <2>2. sweep.cut \subseteq Episodes /\ IdleSweep \in SweepState
    BY <1>0 DEF SweepState, IdleSweep
  <2>3. Core'
    BY <1>0, <2>1, <2>2, PurgeKeepsCore DEF TypeOK
  <2>4. StorageTypeOK' /\ PassesHoldRows'
    BY <1>0, <2>1, <2>2, <2>3 DEF StorageTypeOK, PassesHoldRows, PassHoldsRows, Core, IdleSweep
  <2>5. StorageLocalHasFile'
    BY <1>0, <2>1 DEF StorageLocalHasFile, MidPurge
  <2> QED BY <2>3, <2>4, <2>5 DEF StorageConsistent
<1>4. CASE SweepAbort
  <2>1. UNCHANGED <<vars, starred, played, pass>> /\ sweep' = IdleSweep
    BY <1>4 DEF SweepAbort
  <2>2. ~subscribed /\ local = {}
    BY <1>0, <1>4 DEF SweepAbort, PassesHoldRows, Core, FeedTakesRows
  <2>3. Core'
    BY <1>0, <2>1, UnlinkKeepsCore
  <2>4. StorageTypeOK' /\ PassesHoldRows' /\ StorageLocalHasFile'
    BY <1>0, <2>1, <2>2, <2>3
    DEF StorageTypeOK, PassesHoldRows, PassHoldsRows, StorageLocalHasFile, Core, IdleSweep,
        SweepState
  <2> QED BY <2>3, <2>4 DEF StorageConsistent
<1> QED BY <1>1, <1>2, <1>3, <1>4 DEF Sweeping

\* The jobs a pass inserts are the only live ones of their episodes.
LEMMA CommitJobs ==
  ASSUME Core, NEW new \in SUBSET Episodes, \A e \in new : ~HasLiveJob(e),
         NEW id \in [new -> FreeJobs], \A e, f \in new : id[e] = id[f] => e = f,
         job' = [j \in Jobs |->
                   IF \E e \in new : id[e] = j
                   THEN [state |-> "queued", ep |-> CHOOSE e \in new : id[e] = j,
                         source |-> "auto", attempts |-> 0]
                   ELSE job[j]]
  PROVE  /\ job' \in [Jobs -> JobRow]
         /\ \A j \in Jobs :
              \/ job'[j] = job[j]
              \/ /\ job[j].state = "absent" /\ job'[j].state = "queued"
                 /\ job'[j].ep \in new /\ id[job'[j].ep] = j
                 /\ job'[j].attempts = 0
         /\ OneLiveJob'
<1>0. job \in [Jobs -> JobRow] /\ OneLiveJob
  BY DEF Core, TypeOK
<1>1. \A j \in Jobs :
        \/ job'[j] = job[j]
        \/ /\ job[j].state = "absent" /\ job'[j].state = "queued"
           /\ job'[j].ep \in new /\ id[job'[j].ep] = j
           /\ job'[j].attempts = 0 /\ job'[j].source = "auto"
           /\ job'[j] \in JobRow
  <2> TAKE j \in Jobs
  <2>1. CASE \E e \in new : id[e] = j
    <3> DEFINE e == CHOOSE x \in new : id[x] = j
    <3>1. e \in new /\ id[e] = j
      BY <2>1
    <3> HIDE DEF e
    <3>2. job'[j] = [state |-> "queued", ep |-> e, source |-> "auto", attempts |-> 0]
      BY <2>1 DEF e
    <3>3. job[j].state = "absent"
      BY <3>1 DEF FreeJobs
    <3>4. 0 \in 0..MaxAttempts
      BY DownloadsAssumption
    <3> QED BY <3>1, <3>2, <3>3, <3>4 DEF JobRow, Sources
  <2>2. CASE ~\E e \in new : id[e] = j
    BY <2>2
  <2> QED BY <2>1, <2>2
<1>2. job' \in [Jobs -> JobRow]
  <2>1. \A j \in Jobs : job'[j] \in JobRow
    BY <1>0, <1>1
  <2>2. DOMAIN job' = Jobs /\ job' = [j \in Jobs |-> job'[j]]
    OBVIOUS
  <2> QED BY <2>1, <2>2
<1>3. OneLiveJob'
  <2> SUFFICES ASSUME NEW i \in Jobs, NEW j \in Jobs,
                      job'[i].state \in Live, job'[j].state \in Live,
                      job'[i].ep = job'[j].ep
               PROVE  i = j
    BY DEF OneLiveJob
  <2>1. CASE job'[i] = job[i] /\ job'[j] = job[j]
    BY <1>0, <2>1 DEF OneLiveJob
  <2>2. CASE job'[i] # job[i] /\ job'[j] # job[j]
    BY <1>1, <2>2
  <2>3. CASE job'[i] # job[i] /\ job'[j] = job[j]
    BY <1>1, <2>3 DEF HasLiveJob, LiveJobs
  <2>4. CASE job'[i] = job[i] /\ job'[j] # job[j]
    BY <1>1, <2>4 DEF HasLiveJob, LiveJobs
  <2> QED BY <2>1, <2>2, <2>3, <2>4
<1> QED BY <1>1, <1>2, <1>3

LEMMA CommitKeeps ==
  ASSUME StorageConsistent, NEW p \in Passes, PassCommit(p)
  PROVE  StorageConsistent'
<1>0. /\ Core /\ TypeOK /\ pass \in [Passes -> PassState]
      /\ StorageTypeOK /\ PassesHoldRows /\ StorageLocalHasFile
  BY DEF StorageConsistent, StorageTypeOK, Core
<1> DEFINE new == {e \in pass[p].plan : ~HasLiveJob(e)}
<1>1. /\ subscribed /\ present' = present \cup pass[p].arrivals
      /\ local' = local \ pass[p].cut /\ purged' = purged \cup pass[p].cut
      /\ pass' = [pass EXCEPT ![p] = IdlePass]
      /\ InsertJobs(new)
      /\ UNCHANGED <<subscribed, queue, file, part, worker, handler, faults,
                     starred, played, sweep>>
  BY DEF PassCommit, PassEnds, disk
<1>t. /\ pass[p].arrivals \subseteq Episodes /\ pass[p].cut \subseteq Episodes
      /\ pass[p].plan \subseteq Episodes /\ pass[p].plan \subseteq present \cup pass[p].arrivals
  BY <1>0, <1>1 DEF PassState, PassesHoldRows, PassHoldsRows
<1>2. PICK id \in [new -> FreeJobs] :
        /\ \A e, f \in new : id[e] = id[f] => e = f
        /\ job' = [j \in Jobs |->
             IF \E e \in new : id[e] = j
             THEN [state |-> "queued", ep |-> CHOOSE e \in new : id[e] = j,
                   source |-> "auto", attempts |-> 0]
             ELSE job[j]]
  BY <1>1 DEF InsertJobs
<1>3. new \in SUBSET Episodes /\ \A e \in new : ~HasLiveJob(e)
  BY <1>t
<1>4. /\ job' \in [Jobs -> JobRow] /\ OneLiveJob'
      /\ \A j \in Jobs :
           \/ job'[j] = job[j]
           \/ /\ job[j].state = "absent" /\ job'[j].state = "queued"
              /\ job'[j].ep \in pass[p].plan /\ job'[j].attempts = 0
  <2> HIDE DEF new
  <2>1. /\ job' \in [Jobs -> JobRow] /\ OneLiveJob'
        /\ \A j \in Jobs :
             \/ job'[j] = job[j]
             \/ /\ job[j].state = "absent" /\ job'[j].state = "queued"
                /\ job'[j].ep \in new /\ job'[j].attempts = 0
    BY <1>0, <1>2, <1>3, CommitJobs
  <2> QED BY <2>1 DEF new
<1>5. TypeOK' /\ AttemptsLeft'
  BY <1>0, <1>1, <1>t, <1>4, DownloadsAssumption DEF TypeOK, AttemptsLeft, Core
<1>6. FeedTakesRows'
  BY <1>0, <1>1, <1>t, <1>4 DEF FeedTakesRows, Core
<1>7. WorkerOwnsJob' /\ WorkersApart' /\ NobodyElseRecords' /\ RenamedStays'
  <2>1. WorkerOwnsJob'
    BY <1>0, <1>1, <1>4 DEF Core, WorkerOwnsJob, Working, Holding
  <2>2. WorkersApart' /\ NobodyElseRecords' /\ RenamedStays'
    BY <1>0, <1>1 DEF Core, WorkersApart, NobodyElseRecords, RenamedStays, Working, Holding
  <2> QED BY <2>1, <2>2
<1>8. StorageTypeOK'
  <2>1. IdlePass \in PassState
    BY DEF IdlePass, PassState
  <2> QED BY <1>0, <1>1, <1>5, <2>1 DEF StorageTypeOK
<1>9. PassesHoldRows'
  <2>1. \A q \in Passes : IF q = p THEN pass'[q] = IdlePass ELSE pass'[q] = pass[q]
    BY <1>0, <1>1
  <2>2. \A q \in Passes : PassHoldsRows(q)'
    BY <1>0, <1>1, <2>1 DEF PassesHoldRows, PassHoldsRows, IdlePass
  <2> QED BY <1>0, <1>1, <2>2 DEF PassesHoldRows
<1>10. StorageLocalHasFile'
  <2>1. \A q \in Passes : q # p => pass'[q] = pass[q]
    BY <1>0, <1>1
  <2> QED BY <1>0, <1>1, <2>1 DEF StorageLocalHasFile, MidPurge
<1> QED BY <1>4, <1>5, <1>6, <1>7, <1>8, <1>9, <1>10 DEF StorageConsistent, Core

\* A step of one pass that leaves everything but the pass alone.
LEMMA PassAlone ==
  ASSUME StorageConsistent, NEW p \in Passes, NEW mine \in PassState,
         pass' = [pass EXCEPT ![p] = mine],
         UNCHANGED <<vars, starred, played, sweep>>,
         local = {} \/ mine.cut = pass[p].cut,
         PassHoldsRows(p)'
  PROVE  StorageConsistent'
<1>0. /\ Core /\ TypeOK /\ pass \in [Passes -> PassState]
      /\ StorageTypeOK /\ PassesHoldRows /\ StorageLocalHasFile
  BY DEF StorageConsistent, StorageTypeOK, Core
<1> USE DEF vars, rows, disk
<1>1. Core'
  BY <1>0, UnlinkKeepsCore
<1>2. \A q \in Passes : IF q = p THEN pass'[q] = mine ELSE pass'[q] = pass[q]
  BY <1>0
<1>3. StorageTypeOK'
  BY <1>0, <1>1 DEF StorageTypeOK, Core
<1>4. PassesHoldRows'
  BY <1>0, <1>2 DEF PassesHoldRows, PassHoldsRows
<1>5. StorageLocalHasFile'
  BY <1>0, <1>2 DEF StorageLocalHasFile, MidPurge
<1> QED BY <1>1, <1>3, <1>4, <1>5 DEF StorageConsistent

LEMMA WindowKeeps ==
  ASSUME StorageConsistent, NEW p \in Passes, Windowing(p, Occasions)
  PROVE  StorageConsistent'
<1>0. /\ Core /\ TypeOK /\ pass \in [Passes -> PassState] /\ pass[p] \in PassState
      /\ local \subseteq present
      /\ StorageTypeOK /\ PassesHoldRows /\ StorageLocalHasFile /\ PassHoldsRows(p)
  BY DEF StorageConsistent, StorageTypeOK, Core, FeedTakesRows, PassesHoldRows
<1> USE DEF vars, rows, disk
<1>2. ASSUME NEW occasion \in Occasions, NEW count \in WindowCounts,
             NEW arrivals \in SUBSET (Episodes \ present),
             PassStart(p, occasion, count, arrivals)
      PROVE  StorageConsistent'
  <2> DEFINE window == Newest(count, (present \cup arrivals) \ purged)
             loaded == IF occasion = "document" THEN local ELSE Episodes
             mine == [IdlePass EXCEPT !.pc = "window", !.holds = (occasion # "settings"),
                        !.loaded = loaded, !.arrivals = arrivals, !.window = window]
  <2>1. window \subseteq present \cup arrivals
    BY DEF Newest
  <2>2. loaded \subseteq Episodes
    BY <1>0 DEF TypeOK
  <2>3. pass' = [pass EXCEPT ![p] = mine]
    BY <1>2 DEF PassStart
  <2> HIDE DEF window, loaded
  <2>4. /\ mine \in PassState /\ mine.cut = {} /\ mine.plan = {}
        /\ mine.window = window /\ mine.arrivals = arrivals /\ mine.pc = "window"
    BY <1>0, <2>1, <2>2 DEF IdlePass, PassState, TypeOK
  <2> HIDE DEF mine
  <2>5. pass[p].cut = {} /\ UNCHANGED <<vars, starred, played, sweep>>
    BY <1>0, <1>2 DEF PassStart, PassHoldsRows
  <2>6. pass'[p] = mine
    BY <1>0, <2>3
  <2>7. PassHoldsRows(p)'
    BY <2>1, <2>4, <2>5, <2>6 DEF PassHoldsRows
  <2> QED BY <2>3, <2>4, <2>5, <2>7, PassAlone
<1>3. ASSUME NEW mode \in Modes, PassProtect(p, mode) PROVE StorageConsistent'
  <2> DEFINE mine == IF mode = "never" THEN [pass[p] EXCEPT !.pc = "trimmed", !.loaded = {}]
                     ELSE [pass[p] EXCEPT !.pc = "protected", !.protected = Claimed]
  <2>1. Claimed \subseteq Episodes
    BY <1>0 DEF Claimed, TypeOK, StorageTypeOK
  <2>2. pass' = [pass EXCEPT ![p] = mine]
    BY <1>0, <1>3 DEF PassProtect
  <2>3. /\ mine \in PassState /\ mine.pc \in {"trimmed", "protected"}
        /\ mine.window = pass[p].window /\ mine.plan = pass[p].plan
        /\ mine.cut = pass[p].cut /\ mine.arrivals = pass[p].arrivals
    BY <1>0, <2>1 DEF PassState
  <2> HIDE DEF mine
  <2>4. pass[p].cut = {} /\ UNCHANGED <<vars, starred, played, sweep>>
    BY <1>0, <1>3 DEF PassProtect, PassHoldsRows
  <2>5. pass'[p] = mine
    BY <1>0, <2>2
  <2>6. PassHoldsRows(p)'
    BY <1>0, <2>3, <2>4, <2>5 DEF PassHoldsRows
  <2> QED BY <2>2, <2>3, <2>4, <2>6, PassAlone
<1>4. CASE PassTrim(p)
  <2> DEFINE mine == [pass[p] EXCEPT !.pc = "trimmed", !.loaded = {}, !.protected = {},
                                     !.cut = Stale(p)]
  <2>1. Stale(p) \subseteq local
    BY DEF Stale
  <2>2. /\ file' = file \ Stale(p) /\ pass' = [pass EXCEPT ![p] = mine]
        /\ UNCHANGED <<rows, job, part, worker, handler, faults, starred, played, sweep>>
    BY <1>0, <1>4 DEF PassTrim
  <2>3. /\ mine \in PassState /\ mine.pc = "trimmed" /\ mine.cut = Stale(p)
        /\ mine.window = pass[p].window /\ mine.plan = pass[p].plan
        /\ mine.arrivals = pass[p].arrivals
    BY <1>0, <2>1 DEF PassState, TypeOK
  <2> HIDE DEF mine
  <2>4. pass[p].cut = {}
    BY <1>0, <1>4 DEF PassTrim, PassHoldsRows
  <2>5. Core'
    BY <1>0, <2>1, <2>2, UnlinkKeepsCore
  <2>6. \A q \in Passes : IF q = p THEN pass'[q] = mine ELSE pass'[q] = pass[q]
    BY <1>0, <2>2
  <2>7. StorageTypeOK'
    BY <1>0, <2>2, <2>3, <2>5 DEF StorageTypeOK, Core
  <2>8. PassesHoldRows'
    BY <1>0, <2>1, <2>2, <2>3, <2>6 DEF PassesHoldRows, PassHoldsRows
  <2>9. StorageLocalHasFile'
    BY <1>0, <2>1, <2>2, <2>3, <2>4, <2>6 DEF StorageLocalHasFile, MidPurge
  <2> QED BY <2>5, <2>7, <2>8, <2>9 DEF StorageConsistent
<1>5. CASE PassEnqueue(p)
  <2> DEFINE plan == {e \in pass[p].window : e \notin local /\ ~HasLiveJob(e)}
             mine == [pass[p] EXCEPT !.pc = "enqueued", !.window = {}, !.plan = plan]
  <2>1. pass' = [pass EXCEPT ![p] = mine] /\ UNCHANGED <<vars, starred, played, sweep>>
    BY <1>0, <1>5 DEF PassEnqueue
  <2>2. plan \subseteq pass[p].window
    OBVIOUS
  <2> HIDE DEF plan
  <2>3. /\ mine \in PassState /\ mine.pc = "enqueued" /\ mine.cut = pass[p].cut
        /\ mine.window = {} /\ mine.plan = plan /\ mine.arrivals = pass[p].arrivals
    BY <1>0, <2>2 DEF PassState
  <2> HIDE DEF mine
  <2>4. pass'[p] = mine
    BY <1>0, <2>1
  <2>5. PassHoldsRows(p)'
    BY <1>0, <2>1, <2>2, <2>3, <2>4 DEF PassHoldsRows
  <2> QED BY <2>1, <2>3, <2>5, PassAlone
<1>6. CASE PassAbort(p)
  <2>1. ~subscribed /\ local = {}
    BY <1>0, <1>6 DEF PassAbort, Core, FeedTakesRows
  <2>2. /\ pass' = [pass EXCEPT ![p] = IdlePass] /\ IdlePass \in PassState
        /\ UNCHANGED <<vars, starred, played, sweep>>
    BY <1>6 DEF PassAbort, PassEnds, IdlePass, PassState
  <2>3. PassHoldsRows(p)'
    BY <1>0, <2>1, <2>2 DEF PassHoldsRows, IdlePass
  <2> QED BY <2>1, <2>2, <2>3, PassAlone
<1> QED BY <1>2, <1>3, <1>4, <1>5, <1>6, CommitKeeps DEF Windowing

LEMMA StorageStutters ==
  ASSUME StorageConsistent, UNCHANGED storageVars
  PROVE  StorageConsistent'
<1>1. UNCHANGED <<vars, starred, played, sweep, pass>>
  BY DEF storageVars, passes
<1>2. Core'
  BY <1>1, UnlinkKeepsCore DEF StorageConsistent, vars, rows, disk
<1> QED
  BY <1>1, <1>2
  DEF StorageConsistent, StorageTypeOK, PassesHoldRows, PassHoldsRows, StorageLocalHasFile,
      MidPurge, Core, vars, rows, disk

\* The sweep and the window passes, however many overlap and however they
\* interleave with the workers, the requests, each other and a crash, keep the
\* rows, the jobs and the files in step: for every number of episodes and of
\* passes and every window, mode and ceiling.
THEOREM StorageAlwaysConsistent == StorageSpec => []StorageConsistent
<1>1. StorageConsistent /\ [StorageNext]_storageVars => StorageConsistent'
  BY QueueKeeps, CrashKeeps, ListenerKeeps, SweepKeeps, WindowKeeps, StorageStutters
  DEF StorageNext
<1> QED BY <1>1, InitStorage, PTL DEF StorageSpec

\* The window's own inserts do not disturb the live-job index either.
THEOREM StorageLiveJobUnique == StorageSpec => []OneLiveJob
<1>1. StorageConsistent => OneLiveJob
  BY DEF StorageConsistent, Core
<1> QED BY <1>1, StorageAlwaysConsistent, PTL

\* Rows die with the feed beside the passes too: a window pass that commits its arrivals or
\* its jobs after an unsubscribe brings none of them back (refresh.py:178-262).
THEOREM StorageRowsDieTogether == StorageSpec => []FeedTakesRows
<1>1. StorageConsistent => FeedTakesRows
  BY DEF StorageConsistent, Core
<1> QED BY <1>1, StorageAlwaysConsistent, PTL

-----------------------------------------------------------------------------
(* What each pass spares.  It rests on types only, so it holds whatever else *)
(* goes wrong.                                                               *)

\* Outside its own actions a sweep stands still, or is reset by a crash.
LEMMA SweepStands ==
  ASSUME StorageNext
  PROVE  sweep' = sweep \/ sweep' = IdleSweep \/ SweepQueue \/ SweepStars \/ SweepUnlink
<1>1. CASE QueueStep \/ StorageCrash \/ \E e \in Episodes : Star(e) \/ Unstar(e) \/ MarkPlayed(e)
  BY <1>1 DEF QueueStep, StorageCrash, Star, Unstar, MarkPlayed, passes
<1>2. CASE Sweeping
  BY <1>2 DEF Sweeping, SweepCommit, SweepAbort
<1>3. ASSUME NEW p \in Passes, Windowing(p, Occasions) PROVE sweep' = sweep
  BY <1>3 DEF Windowing, PassStart, PassProtect, PassTrim, PassEnqueue, PassCommit, PassAbort
<1> QED BY <1>1, <1>2, <1>3 DEF StorageNext

\* Neither does a window pass move but by its own actions and a crash.
LEMMA PassStands ==
  ASSUME StorageTypeOK, StorageNext, NEW p \in Passes
  PROVE  \/ pass'[p] = pass[p] \/ pass'[p].pc \notin {"protected", "trimmed"}
         \/ PassTrim(p) \/ \E mode \in Modes : PassProtect(p, mode)
<1>0. pass \in [Passes -> PassState]
  BY DEF StorageTypeOK
<1>1. CASE QueueStep \/ StorageCrash \/ \E e \in Episodes : Star(e) \/ Unstar(e) \/ MarkPlayed(e)
  BY <1>1 DEF QueueStep, StorageCrash, Star, Unstar, MarkPlayed, passes, IdlePass
<1>2. CASE Sweeping
  BY <1>2 DEF Sweeping, SweepQueue, SweepStars, SweepUnlink, SweepCommit, SweepAbort
<1>3. ASSUME NEW q \in Passes, Windowing(q, Occasions), q # p PROVE pass'[p] = pass[p]
  BY <1>0, <1>3
  DEF Windowing, PassStart, PassProtect, PassTrim, PassEnqueue, PassCommit, PassAbort, PassEnds
<1>4. ASSUME NEW occasion \in Occasions, NEW count \in WindowCounts,
             NEW arrivals \in SUBSET (Episodes \ present), PassStart(p, occasion, count, arrivals)
      PROVE  pass'[p].pc = "window"
  BY <1>0, <1>4 DEF PassStart, IdlePass
<1>5. CASE PassEnqueue(p)
  <2>1. PICK plan : pass' = [pass EXCEPT ![p].pc = "enqueued", ![p].window = {}, ![p].plan = plan]
    BY <1>5 DEF PassEnqueue
  <2>2. pass'[p] = [pass[p] EXCEPT !.pc = "enqueued", !.window = {}, !.plan = plan]
    BY <1>0, <2>1
  <2>3. pass'[p].pc = "enqueued"
    BY <1>0, <2>2 DEF PassState
  <2> QED BY <2>3
<1>6. CASE PassCommit(p) \/ PassAbort(p)
  BY <1>0, <1>6 DEF PassCommit, PassAbort, PassEnds, IdlePass
<1> QED BY <1>1, <1>2, <1>3, <1>4, <1>5, <1>6 DEF StorageNext, Windowing

LEMMA StepHeld ==
  ASSUME StorageTypeOK, HeldProtected, StorageNext, Track
  PROVE  HeldProtected'
<1>0. sweep \in SweepState /\ pass \in [Passes -> PassState]
  BY DEF StorageTypeOK
<1>1. /\ held'.queued = IF sweep'.pc \notin {"queue", "protected"} THEN {}
                        ELSE IF sweep.pc = "idle" THEN queue' ELSE held.queued \cap queue'
      /\ held'.starred = IF sweep'.pc # "protected" THEN {}
                         ELSE IF sweep.pc = "queue" THEN starred' ELSE held.starred \cap starred'
      /\ \A p \in Passes :
           held'.pass[p] = IF pass'[p].pc # "protected" THEN {}
                           ELSE IF pass[p].pc = "window" THEN Claimed'
                           ELSE held.pass[p] \cap Claimed'
  BY DEF Track
<1>2. /\ sweep'.pc \in {"queue", "protected"} => held'.queued \subseteq sweep'.protected
      /\ sweep'.pc = "protected" => held'.starred \subseteq sweep'.protected
  <2>1. CASE SweepQueue
    BY <1>1, <2>1 DEF SweepQueue, vars, rows
  <2>2. CASE SweepStars
    <3>1. sweep.pc = "queue" /\ sweep'.pc = "protected"
          /\ sweep'.protected = sweep.protected \cup starred /\ starred' = starred
      BY <1>0, <2>2 DEF SweepStars, SweepState
    <3> QED BY <1>1, <3>1 DEF HeldProtected
  <2>3. CASE sweep' = sweep
    BY <1>1, <2>3 DEF HeldProtected
  <2>4. CASE SweepUnlink
    <3>1. \E cut : sweep' = [sweep EXCEPT !.pc = "unlinked", !.protected = {}, !.cut = cut]
      BY <2>4 DEF SweepUnlink
    <3>2. sweep'.pc = "unlinked"
      BY <1>0, <3>1 DEF SweepState
    <3> QED BY <3>2
  <2>5. CASE sweep' = IdleSweep
    BY <2>5 DEF IdleSweep
  <2> QED BY <2>1, <2>2, <2>3, <2>4, <2>5, SweepStands
<1>3. ASSUME NEW p \in Passes, pass'[p].pc = "protected"
      PROVE  held'.pass[p] \subseteq pass'[p].protected
  <2>1. ASSUME NEW mode \in Modes, PassProtect(p, mode)
        PROVE  held'.pass[p] \subseteq pass'[p].protected
    <3>1. pass[p].pc = "window" /\ UNCHANGED <<queue, starred, job>>
      BY <2>1 DEF PassProtect, vars, rows
    <3>2. Claimed' = Claimed
      BY <3>1 DEF Claimed, Requested
    <3>3. pass'[p] = IF mode = "never" THEN [pass[p] EXCEPT !.pc = "trimmed", !.loaded = {}]
                     ELSE [pass[p] EXCEPT !.pc = "protected", !.protected = Claimed]
      BY <1>0, <2>1 DEF PassProtect
    <3>4. pass'[p].protected = Claimed
      BY <1>0, <1>3, <3>3 DEF PassState
    <3> QED BY <1>1, <1>3, <3>1, <3>2, <3>4
  <2>2. CASE pass'[p] = pass[p]
    BY <1>1, <1>3, <2>2 DEF HeldProtected
  <2>3. CASE PassTrim(p)
    <3>1. pass'[p] = [pass[p] EXCEPT !.pc = "trimmed", !.loaded = {}, !.protected = {},
                                     !.cut = Stale(p)]
      BY <1>0, <2>3 DEF PassTrim
    <3> QED BY <1>0, <1>3, <3>1 DEF PassState
  <2> QED BY <1>3, <2>1, <2>2, <2>3, PassStands
<1> QED BY <1>2, <1>3 DEF HeldProtected

LEMMA AlwaysHeldProtected == ClaimsSpec => [](StorageConsistent /\ HeldProtected)
<1>1. ClaimsInit => StorageConsistent /\ HeldProtected
  BY InitStorage DEF ClaimsInit, StorageInit, HeldProtected, IdleSweep, IdlePass
<1>2. StorageConsistent /\ HeldProtected /\ [ClaimsNext]_claimVars
      => (StorageConsistent /\ HeldProtected)'
  <2> SUFFICES ASSUME StorageConsistent, HeldProtected, [ClaimsNext]_claimVars
               PROVE  StorageConsistent' /\ HeldProtected'
    OBVIOUS
  <2>1. CASE ClaimsNext
    <3>1. StorageConsistent'
      BY <2>1, QueueKeeps, CrashKeeps, ListenerKeeps, SweepKeeps, WindowKeeps
      DEF ClaimsNext, StorageNext
    <3>2. HeldProtected'
      BY <2>1, StepHeld DEF ClaimsNext, StorageConsistent
    <3> QED BY <3>1, <3>2
  <2>2. CASE UNCHANGED claimVars
    BY <2>2, StorageStutters DEF claimVars, storageVars, passes, HeldProtected
  <2> QED BY <2>1, <2>2
<1> QED BY <1>1, <1>2, PTL DEF ClaimsSpec

\* No sweep unlinks what stayed in the queue since it read the queue, or starred
\* since it read the stars.
THEOREM SweepSpares == ClaimsSpec => SweepSparesHeld
<1>1. StorageConsistent /\ HeldProtected /\ [ClaimsNext]_claimVars
      => [sweep.pc = "protected" /\ sweep'.pc = "unlinked"
          => (held.queued \cup held.starred) \cap (file \ file') = {}]_claimVars
  <2> SUFFICES ASSUME HeldProtected, ClaimsNext,
                      sweep.pc = "protected", sweep'.pc = "unlinked"
               PROVE  (held.queued \cup held.starred) \cap (file \ file') = {}
    OBVIOUS
  <2>1. SweepUnlink
    BY SweepStands DEF ClaimsNext, SweepQueue, SweepStars, IdleSweep
  <2>2. (file \ file') \cap sweep.protected = {}
    <3>1. PICK mode \in Modes, old \in SUBSET local :
            \E victims \in CeilingVictims(local \ (Expired(mode, old) \ sweep.protected),
                                          sweep.protected) :
              file' = file \ ((Expired(mode, old) \ sweep.protected) \cup victims)
      BY <2>1 DEF SweepUnlink
    <3>2. \A survivors : \A victims \in CeilingVictims(survivors, sweep.protected) :
            victims \cap sweep.protected = {}
      BY DEF CeilingVictims
    <3> QED BY <3>1, <3>2
  <2> QED BY <2>2 DEF HeldProtected
<1> QED BY <1>1, AlwaysHeldProtected, PTL DEF ClaimsSpec, SweepSparesHeld

\* No window pass trims what stayed starred, queued or requested since it read
\* what is protected, however many other passes run beside it.
THEOREM PassSpares == ClaimsSpec => PassSparesHeld
<1>1. StorageConsistent /\ HeldProtected /\ [ClaimsNext]_claimVars
      => [\A p \in Passes : pass[p].pc = "protected" /\ pass'[p].pc = "trimmed"
            => held.pass[p] \cap (file \ file') = {}]_claimVars
  <2> SUFFICES ASSUME StorageTypeOK, HeldProtected, ClaimsNext, NEW p \in Passes,
                      pass[p].pc = "protected", pass'[p].pc = "trimmed"
               PROVE  held.pass[p] \cap (file \ file') = {}
    BY DEF StorageConsistent
  <2>1. PassTrim(p)
    BY PassStands DEF ClaimsNext, PassProtect
  <2> QED BY <2>1 DEF PassTrim, Stale, HeldProtected
<1> QED BY <1>1, AlwaysHeldProtected, PTL DEF ClaimsSpec, PassSparesHeld
=============================================================================
