----------------------------- MODULE MCDownloads -----------------------------
(* Instances of Downloads for TLC.                                          *)
EXTENDS Downloads, TLC

Symmetry ==
  Permutations(Episodes) \cup Permutations(Jobs)
    \cup Permutations(Workers) \cup Permutations(Handlers)

\* Two requests at once contend for one episode; of two episodes, only one is asked for at
\* a time.
MayBegin(h) == Cardinality(present) > 1 => \A o \in Handlers \ {h} : handler[o] = IdleHandler

Begin(h) ==
  \/ \E e \in Episodes, source \in {"manual", "queue"} : Ask(h, e, source)
  \/ \E e \in Episodes : PurgeUnlink(h, e)
  \/ FeedUnlink(h)

DownloadsNext ==
  \/ Restart \/ Crash
  \/ \E w \in Workers : WorkerStep(w)
  \/ \E h \in Handlers : Reply(h) \/ (MayBegin(h) /\ Begin(h))
  \/ \E e \in Episodes : Unqueue(e) \/ Wipe(e)

\* Downloads.LocalNotPurged, of the behaviours whose requests come one at a time: an episode
\* on disk is not marked purged (downloader.py:195, refresh.py:169).
OneRequestNotPurged == Cardinality(present) > 1 => LocalNotPurged

DownloadsSpec == Init /\ [][DownloadsNext]_vars
=============================================================================
