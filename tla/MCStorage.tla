------------------------------ MODULE MCStorage ------------------------------
(***************************************************************************)
(* Instances of Storage and StorageClaims for TLC.  A behaviour of Bounded *)
(* has one of two casts.  In the one an episode, there or yet to arrive, is*)
(* fetched, asked for, starred and purged beside a sweep and a window pass.*)
(* In the other two episodes are on disk, where the window and the ceiling *)
(* leave room for one or none, and two window passes overlap each other,   *)
(* the sweep, a delete, an unsubscribe and a crash.                        *)
(***************************************************************************)
EXTENDS StorageClaims, TLC

Symmetry ==
  Permutations(Jobs) \cup Permutations(Workers) \cup Permutations(Handlers)
  \cup Permutations(Passes)

First == CHOOSE e \in Episodes : \A f \in Episodes : e <= f

OneEpisode == ClaimsInit /\ present \subseteq {First}

\* Each episode was fetched by an automatic job of its own, as StorageSpec comes to
\* once a window of as many has worked.
AllOnDisk ==
  /\ subscribed = TRUE
  /\ present = Episodes /\ local = Episodes /\ purged = {} /\ queue = {}
  /\ \E by \in [Episodes -> Jobs] :
       /\ \A e, f \in Episodes : by[e] = by[f] => e = f
       /\ job = [j \in Jobs |->
            IF \E e \in Episodes : by[e] = j
            THEN [state |-> "done", ep |-> CHOOSE e \in Episodes : by[e] = j,
                  source |-> "auto", attempts |-> 0]
            ELSE NoJob]
  /\ file = Episodes /\ part = {}
  /\ worker = [w \in Workers |-> IdleWorker]
  /\ handler = [h \in Handlers |-> IdleHandler]
  /\ faults = [crash |-> 0, wipe |-> 0, db |-> 0, late |-> 0]
  /\ starred = {} /\ played = {}
  /\ sweep = IdleSweep /\ pass = [p \in Passes |-> IdlePass]
  /\ held = [queued |-> {}, starred |-> {}, pass |-> [p \in Passes |-> {}]]

Solo == Cardinality(present) < 2

Listener ==
  IF Solo THEN \E e \in Episodes : Star(e) \/ Unstar(e) ELSE MarkPlayed(First)

\* One pass at a time, of one episode.
Alone(p) ==
  /\ Windowing(p, {"document"})
  /\ \A q \in Passes \ {p} : pass[q] = IdlePass
  /\ pass'[p].arrivals \subseteq {First}

BoundedNext ==
  /\ \/ QueueStep \/ Sweeping \/ Listener
     \/ ~Solo /\ StorageCrash
     \/ \E p \in Passes : IF Solo THEN Alone(p) ELSE Windowing(p, Occasions)
  /\ Track

Bounded == (OneEpisode \/ AllOnDisk) /\ [][BoundedNext]_claimVars
=============================================================================
