------------------------------ MODULE Processing ------------------------------
(***************************************************************************)
(* The processed copy beside each download of one show: a trimmed or       *)
(* levelled MP3 that process_episode makes from the original, called by    *)
(* the download worker after its commit and by the reconciling loop, while *)
(* settings change, downloads are purged and the show is dropped.          *)
(*                                                                         *)
(* Coroutines are cut at their awaits.  A row is written as the ORM does:  *)
(* only the columns that differ from the row the session loaded.           *)
(***************************************************************************)
EXTENDS Naturals, FiniteSets

CONSTANTS
  Episodes,      \* numbers, in the order the pass's query returns them
  Workers,       \* download workers
  Loop,          \* the processing loop, as an encoder
  Recipes,       \* what a copy may be made by
  None,
  MaxChanges, MaxStops   \* bounds: settings changes, restarts

VARIABLES
  wish,      \* recipe(*wanted(feed, settings)) as committed, None for no copy
  alive,     \* the show is subscribed
  row,       \* the columns of each episode, as committed
  original,  \* episodes whose downloaded file is on disk
  copy,      \* the file at processed_path: the recipes whose encoders wrote into it
  part,      \* the .part beside it, likewise; {} is no file
  pass,      \* reconcile_processing
  task,      \* process_episode, for each caller
  remover,   \* a purge or an unsubscribe between its unlinks and its commit
  backoff,   \* _failed_until
  broken,    \* episodes whose encode always fails
  changes, stops,
  overtaken, \* history: episodes that lost their download, or the server, during an encode
  doubled    \* history: episodes encoded while another's copy was in the making, or made unseen

vars == <<wish, alive, row, original, copy, part, pass, task, remover, backoff, broken,
          changes, stops, overtaken, doubled>>

Encoders == Workers \cup {Loop}

\* local_path, processed_path, processed_recipe, and whether the durations are there.
Row == [local : BOOLEAN, path : BOOLEAN, recipe : Recipes \cup {None}, measured : BOOLEAN]
Bare == [local |-> FALSE, path |-> FALSE, recipe |-> None, measured |-> FALSE]

\* A row whose file has come, and drop_processed on a loaded row.
Downloaded(r) == [local |-> TRUE, path |-> r.path, recipe |-> r.recipe, measured |-> r.measured]
Dropped(r) == [local |-> r.local, path |-> FALSE, recipe |-> None, measured |-> FALSE]

\* A flush: what the session changed of what it loaded, over the row as it now is.
Column(now, seen, new) == IF new # seen THEN new ELSE now
Flush(now, seen, new) ==
  [local |-> Column(now.local, seen.local, new.local),
   path |-> Column(now.path, seen.path, new.path),
   recipe |-> Column(now.recipe, seen.recipe, new.recipe),
   measured |-> Column(now.measured, seen.measured, new.measured)]

IdleTask == [at |-> "idle", ep |-> None, seen |-> Bare, want |-> None]
IdlePass == [at |-> "idle", want |-> None, seen |-> [e \in Episodes |-> Bare], touched |-> {}]
IdleRemover == [at |-> "idle", eps |-> {}, seen |-> [e \in Episodes |-> Bare], all |-> FALSE]

Init ==
  /\ wish \in Recipes \cup {None}
  /\ alive = TRUE
  /\ row \in [Episodes -> {Bare, Downloaded(Bare)}]
  /\ original = {e \in Episodes : row[e].local}
  /\ copy = [e \in Episodes |-> {}] /\ part = copy
  /\ pass = IdlePass
  /\ task = [x \in Encoders |-> IdleTask]
  /\ remover = IdleRemover
  /\ backoff = {}
  /\ broken \in SUBSET Episodes
  /\ changes = 0 /\ stops = 0
  /\ overtaken = {} /\ doubled = {}

-----------------------------------------------------------------------------
(* process_episode                                                          *)

Encoding(e) == {x \in Encoders : task[x].at = "encoding" /\ task[x].ep = e}
Involved(e) == {x \in Encoders : task[x].at \in {"encoding", "accepted"} /\ task[x].ep = e}

\* The loop's pass goes on, or dies of the exception, when its encode is over; a worker
\* goes back to its queue.
Over(x) ==
  /\ task' = [task EXCEPT ![x] = IdleTask]
  /\ pass' = IF x = Loop THEN IdlePass ELSE pass

\* The worker reads the settings after its commit, the loop brings its own.
Wanted(x) == IF x = Loop THEN task[x].want ELSE wish

Encodable(x) ==
  LET t == task[x] IN
  /\ Wanted(x) # None
  /\ x \in Workers => alive
  /\ t.seen.local /\ t.ep \in original
  /\ ~(t.seen.path /\ copy[t.ep] # {})

\* The early returns.  Only here does the loop come to set the back-off.
Decline(x) ==
  /\ task[x].at = "chosen" /\ ~Encodable(x)
  /\ Over(x)
  /\ backoff' = IF x = Loop THEN backoff \cup {task[x].ep} ELSE backoff
  /\ UNCHANGED <<wish, alive, row, original, copy, part, remover, broken, changes, stops,
                 overtaken, doubled>>

\* ffmpeg -y truncates the .part; whoever was writing it goes on writing.
BeginEncode(x) ==
  LET e == task[x].ep IN
  /\ task[x].at = "chosen" /\ Encodable(x)
  /\ task' = [task EXCEPT ![x].at = "encoding", ![x].want = Wanted(x)]
  /\ part' = [part EXCEPT ![e] = {Wanted(x)} \cup {task[y].want : y \in Encoding(e)}]
  /\ doubled' = doubled \cup
       {o \in {e} : Involved(e) # {} \/ row[e].path \/ e \in pass.touched}
  /\ UNCHANGED <<wish, alive, row, original, copy, pass, remover, backoff, broken, changes,
                 stops, overtaken>>

\* The output is plausible and takes the target's name; the silence map is measured next.
Accept(x) ==
  LET e == task[x].ep IN
  /\ task[x].at = "encoding" /\ e \notin broken /\ part[e] # {}
  /\ copy' = [copy EXCEPT ![e] = part[e]]
  /\ part' = [part EXCEPT ![e] = {}]
  /\ task' = [task EXCEPT ![x].at = "accepted"]
  /\ UNCHANGED <<wish, alive, row, original, pass, remover, backoff, broken, changes, stops,
                 overtaken, doubled>>

\* ffmpeg fails, or its output is implausible, or another encoder took the .part away.  The
\* session is rolled back, and the loop's next line reads the expired row and raises.
Fail(x) ==
  LET e == task[x].ep IN
  /\ task[x].at = "encoding"
  /\ e \in broken \/ part[e] = {}
  /\ part' = [part EXCEPT ![e] = {}]
  /\ Over(x)
  /\ UNCHANGED <<wish, alive, row, original, copy, remover, backoff, broken, changes, stops,
                 overtaken, doubled>>

\* The commit.  ffprobe may have failed on one of the files.
Record(x) ==
  LET t == task[x] IN
  /\ t.at = "accepted" /\ alive
  /\ \E measured \in BOOLEAN :
       row' = [row EXCEPT ![t.ep] = Flush(@, t.seen,
         [local |-> t.seen.local, path |-> TRUE, recipe |-> t.want, measured |-> measured])]
  /\ Over(x)
  /\ UNCHANGED <<wish, alive, original, copy, part, remover, backoff, broken, changes,
                 stops, overtaken, doubled>>

\* The row is gone, so the commit fails: what is unlinked is the .part, not the copy.
RecordRefused(x) ==
  /\ task[x].at = "accepted" /\ ~alive
  /\ part' = [part EXCEPT ![task[x].ep] = {}]
  /\ overtaken' = overtaken \cup {task[x].ep}
  /\ Over(x)
  /\ UNCHANGED <<wish, alive, row, original, copy, remover, backoff, broken, changes, stops,
                 doubled>>

-----------------------------------------------------------------------------
(* reconcile_processing                                                     *)

UnwantedIfOff(r, want) ==   \* mutant: what the copy was made by is not compared
  r.local /\ r.path /\ want = None

\* Copies the settings do not ask for are unlinked as the rows are gone through.
Unwanted(r, want) == r.local /\ r.path /\ r.recipe # want

Look ==
  LET drop == {e \in Episodes : Unwanted(row[e], wish)} IN
  /\ pass.at = "idle" /\ alive
  /\ \E e \in Episodes : row[e].local
  /\ pass' = [at |-> IF drop = {} THEN "measuring" ELSE "dropping",
              want |-> wish, seen |-> row, touched |-> drop]
  /\ copy' = [e \in Episodes |-> IF e \in drop THEN {} ELSE copy[e]]
  /\ UNCHANGED <<wish, alive, row, original, part, task, remover, backoff, broken, changes,
                 stops, overtaken, doubled>>

CommitDrops ==
  LET new == [e \in Episodes |-> IF e \in pass.touched THEN Dropped(pass.seen[e])
                                                       ELSE pass.seen[e]] IN
  /\ pass.at = "dropping" /\ alive
  /\ row' = [e \in Episodes |-> Flush(row[e], pass.seen[e], new[e])]
  /\ pass' = [pass EXCEPT !.at = "measuring", !.seen = new, !.touched = {}]
  /\ UNCHANGED <<wish, alive, original, copy, part, task, remover, backoff, broken, changes,
                 stops, overtaken, doubled>>

\* The durations of copies that lack them, while both files are there, committed together.
Lacking == {e \in Episodes : pass.seen[e].local /\ pass.seen[e].path /\ ~pass.seen[e].measured
                             /\ e \in original /\ copy[e] # {}}

Backfill ==
  /\ pass.at = "measuring" /\ (alive \/ Lacking = {})
  /\ \E done \in SUBSET Lacking :
       LET new == [e \in Episodes |-> [pass.seen[e] EXCEPT !.measured = @ \/ e \in done]] IN
       /\ row' = [e \in Episodes |-> Flush(row[e], pass.seen[e], new[e])]
       /\ pass' = [pass EXCEPT !.at = "choosing", !.seen = new]
  /\ UNCHANGED <<wish, alive, original, copy, part, task, remover, backoff, broken, changes,
                 stops, overtaken, doubled>>

\* A commit on rows that are gone raises; the loop tries again later.
PassRefused ==
  /\ pass.at = "dropping" \/ (pass.at = "measuring" /\ Lacking # {})
  /\ ~alive
  /\ pass' = IdlePass
  /\ UNCHANGED <<wish, alive, row, original, copy, part, task, remover, backoff, broken,
                 changes, stops, overtaken, doubled>>

Pending == {e \in Episodes : pass.want # None /\ pass.seen[e].local /\ ~pass.seen[e].path
                             /\ e \notin backoff}

\* One encode a pass, the first in the query's order.
Choose ==
  /\ pass.at = "choosing" /\ task[Loop].at = "idle"
  /\ \/ /\ Pending = {}
        /\ pass' = IdlePass /\ task' = task
     \/ \E e \in Pending :
          /\ \A o \in Pending : e <= o
          /\ task' = [task EXCEPT ![Loop] =
               [at |-> "chosen", ep |-> e, seen |-> pass.seen[e], want |-> pass.want]]
          /\ pass' = pass
  /\ UNCHANGED <<wish, alive, row, original, copy, part, remover, backoff, broken, changes,
                 stops, overtaken, doubled>>

\* Six hours later.
BackoffEnds ==
  /\ backoff # {}
  /\ backoff' = {}
  /\ UNCHANGED <<wish, alive, row, original, copy, part, pass, task, remover, broken,
                 changes, stops, overtaken, doubled>>

-----------------------------------------------------------------------------
(* Around it: the worker's download, the settings, the ways to lose a file  *)

Claim(w, e) ==
  /\ task[w].at = "idle" /\ alive /\ ~row[e].local
  /\ \A v \in Workers : task[v].at = "fetching" => task[v].ep # e
  /\ task' = [task EXCEPT ![w] = [at |-> "fetching", ep |-> e, seen |-> row[e], want |-> None]]
  /\ UNCHANGED <<wish, alive, row, original, copy, part, pass, remover, backoff, broken,
                 changes, stops, overtaken, doubled>>

\* run_job's rename and commit, after which it calls process_episode.
Fetched(w) ==
  LET t == task[w]
      new == Downloaded(t.seen) IN
  /\ t.at = "fetching" /\ alive
  /\ original' = original \cup {t.ep}
  /\ row' = [row EXCEPT ![t.ep] = Flush(@, t.seen, new)]
  /\ task' = [task EXCEPT ![w].at = "chosen", ![w].seen = new]
  /\ UNCHANGED <<wish, alive, copy, part, pass, remover, backoff, broken, changes, stops,
                 overtaken, doubled>>

FetchRefused(w) ==
  /\ task[w].at = "fetching" /\ ~alive
  /\ task' = [task EXCEPT ![w] = IdleTask]
  /\ UNCHANGED <<wish, alive, row, original, copy, part, pass, remover, backoff, broken,
                 changes, stops, overtaken, doubled>>

\* update_settings or update_feed.
Change(r) ==
  /\ alive /\ changes < MaxChanges /\ r # wish
  /\ wish' = r
  /\ changes' = changes + 1
  /\ UNCHANGED <<alive, row, original, copy, part, pass, task, remover, backoff, broken,
                 stops, overtaken, doubled>>

RemoveFilesButCopy(E, all) ==   \* mutant: only the download is unlinked
  /\ remover.at = "idle" /\ alive
  /\ remover' = [at |-> "removed", eps |-> E, seen |-> row, all |-> all]
  /\ original' = original \ E
  /\ overtaken' = overtaken \cup {e \in E : Involved(e) # {}}
  /\ UNCHANGED <<wish, alive, row, copy, part, pass, task, backoff, broken, changes, stops,
                 doubled>>

\* purge_episode, for one download or for all of them when the show goes: the files at once.
RemoveFiles(E, all) ==
  /\ remover.at = "idle" /\ alive
  /\ remover' = [at |-> "removed", eps |-> E, seen |-> row, all |-> all]
  /\ original' = original \ E
  /\ copy' = [e \in Episodes |-> IF e \in E /\ row[e].path THEN {} ELSE copy[e]]
  /\ overtaken' = overtaken \cup {e \in E : Involved(e) # {}}
  /\ UNCHANGED <<wish, alive, row, part, pass, task, backoff, broken, changes, stops,
                 doubled>>

Purge(e) == row[e].local /\ RemoveFiles({e}, FALSE)
Unsubscribe == RemoveFiles({e \in Episodes : row[e].local}, TRUE)

\* Then the rows: the columns purge_episode changed, or no rows at all.
CommitRemoval ==
  /\ remover.at = "removed"
  /\ remover' = IdleRemover
  /\ alive' = ~remover.all
  /\ row' = [e \in Episodes |->
       IF remover.all THEN Bare
       ELSE IF e \in remover.eps THEN Flush(row[e], remover.seen[e], Bare)
       ELSE row[e]]
  /\ overtaken' = overtaken \cup
       {e \in (IF remover.all THEN Episodes ELSE remover.eps) :
          Involved(e) # {} \/ (e \notin remover.eps /\ copy[e] # {})}
  /\ UNCHANGED <<wish, original, copy, part, pass, task, backoff, broken, changes, stops,
                 doubled>>

\* The process ends: cancelled encoders unlink their .part, killed ones do not.
Stop(killed) ==
  /\ stops < MaxStops
  /\ stops' = stops + 1
  /\ part' = IF killed THEN part
             ELSE [e \in Episodes |-> IF Involved(e) = {} THEN part[e] ELSE {}]
  /\ overtaken' = overtaken \cup {e \in Episodes : Involved(e) # {}}
                    \cup remover.eps \cup pass.touched
  /\ task' = [x \in Encoders |-> IdleTask]
  /\ pass' = IdlePass
  /\ remover' = IdleRemover
  /\ backoff' = {}
  /\ UNCHANGED <<wish, alive, row, original, copy, broken, changes, doubled>>

-----------------------------------------------------------------------------
Encode(x) == Decline(x) \/ BeginEncode(x) \/ Accept(x) \/ Fail(x) \/ Record(x) \/ RecordRefused(x)

Reconcile == Look \/ CommitDrops \/ Backfill \/ PassRefused \/ Choose

Next ==
  \/ \E x \in Encoders : Encode(x)
  \/ Reconcile
  \/ BackoffEnds
  \/ \E w \in Workers : (\E e \in Episodes : Claim(w, e)) \/ Fetched(w) \/ FetchRefused(w)
  \/ \E r \in Recipes \cup {None} : Change(r)
  \/ (\E e \in Episodes : Purge(e)) \/ Unsubscribe \/ CommitRemoval
  \/ \E killed \in BOOLEAN : Stop(killed)

Spec == Init /\ [][Next]_vars

\* The loop repeats for ever, and every transfer, encode and commit ends.
Fairness ==
  /\ WF_vars(Reconcile) /\ WF_vars(BackoffEnds) /\ WF_vars(CommitRemoval)
  /\ \A x \in Encoders : WF_vars(Encode(x))
  /\ \A w \in Workers : WF_vars(Fetched(w) \/ FetchRefused(w))

FairSpec == Spec /\ Fairness

-----------------------------------------------------------------------------
(* Properties                                                               *)

Tasks == [at : {"idle", "fetching", "chosen", "encoding", "accepted"},
          ep : Episodes \cup {None}, seen : Row, want : Recipes \cup {None}]

ProcessingTypeOK ==
  /\ wish \in Recipes \cup {None} /\ alive \in BOOLEAN
  /\ row \in [Episodes -> Row]
  /\ original \subseteq Episodes
  /\ copy \in [Episodes -> SUBSET Recipes] /\ part \in [Episodes -> SUBSET Recipes]
  /\ pass.at \in {"idle", "dropping", "measuring", "choosing"}
  /\ task \in [Encoders -> Tasks]
  /\ remover.at \in {"idle", "removed"} /\ remover.eps \subseteq Episodes
  /\ backoff \subseteq Episodes /\ broken \subseteq Episodes
  /\ overtaken \subseteq Episodes /\ doubled \subseteq Episodes

\* No encode met another one, a purge, an unsubscribe or a restart.
Undisturbed == Episodes \ (overtaken \cup doubled)

(* retention.py:47: the processed copy goes with its download.  So it does, settings        *)
(* changed or not, unless an encode was under way; no copy is on disk that no row names.    *)
CopyFollowsDownload ==
  \A e \in Undisturbed :
    /\ row[e].path => row[e].local
    /\ copy[e] # {} => row[e].path \/ Involved(e) # {}

(* models.py:241: processed_recipe tells how the copy was made, though the settings may     *)
(* have changed during the encode, or between it and its commit.                            *)
RecipeTellsCopy ==
  \A e \in Undisturbed : row[e].path /\ copy[e] # {} => copy[e] = {row[e].recipe}

ProcessingConsistent == ProcessingTypeOK /\ CopyFollowsDownload /\ RecipeTellsCopy

Processable(e) == alive /\ row[e].local /\ e \in original /\ e \notin broken

(* reconcile_processing: once the settings are left alone every download has the copy they  *)
(* ask for, and none has another, whatever crossed before.                                  *)
InPeace(e) == Processable(e) /\ broken = {}
AsWished(e) == row[e].recipe = wish
SettingsTakeEffect == \A e \in Episodes : <>[]InPeace(e) => <>[]AsWished(e)
=============================================================================
