---------------------------- MODULE StorageClaims ----------------------------
(***************************************************************************)
(* Storage with a history of the claims on the episodes.  A sweep reads the*)
(* queue first and the stars after it: which episodes were queued the whole*)
(* time from the one, which were starred the whole time from the other.  A *)
(* window pass: which were starred, queued or requested the whole time from*)
(* its reading.  A claim that comes and goes in between is not in the      *)
(* history, and neither is one that comes after the reading.               *)
(***************************************************************************)
EXTENDS Storage

VARIABLE held   \* [queued, starred, pass]: episodes claimed ever since the reading

claimVars == <<storageVars, held>>

ClaimsInit ==
  /\ StorageInit
  /\ held = [queued |-> {}, starred |-> {}, pass |-> [p \in Passes |-> {}]]

Track ==
  held' = [queued  |-> IF sweep'.pc \notin {"queue", "protected"} THEN {}
                       ELSE IF sweep.pc = "idle" THEN queue'
                       ELSE held.queued \cap queue',
           starred |-> IF sweep'.pc # "protected" THEN {}
                       ELSE IF sweep.pc = "queue" THEN starred'
                       ELSE held.starred \cap starred',
           pass    |-> [p \in Passes |->
                          IF pass'[p].pc # "protected" THEN {}
                          ELSE IF pass[p].pc = "window" THEN Claimed'
                          ELSE held.pass[p] \cap Claimed']]

ClaimsNext == StorageNext /\ Track
ClaimsSpec == ClaimsInit /\ [][ClaimsNext]_claimVars

\* What is held was there when the pass read, so the pass knows of it.
HeldProtected ==
  /\ sweep.pc \in {"queue", "protected"} => held.queued \subseteq sweep.protected
  /\ sweep.pc = "protected" => held.starred \subseteq sweep.protected
  /\ \A p \in Passes : pass[p].pc = "protected" => held.pass[p] \subseteq pass[p].protected

\* A sweep unlinks no episode that stayed in the queue from its reading of the
\* queue, or starred from its reading of the stars, to its unlinks, whatever ran
\* in between (retention.py:58-77, 103-161).  What is handed from a star to the
\* queue between the two readings, or joins the queue after both, is not
\* spared: see QueuedNeverPurged.
SweepSparesHeld ==
  [][sweep.pc = "protected" /\ sweep'.pc = "unlinked"
     => (held.queued \cup held.starred) \cap (file \ file') = {}]_claimVars

\* The window trims no episode that stayed starred, queued or requested from
\* its reading of the protected set to its unlinks, though another pass, a
\* sweep and the workers run beside it (refresh.py:178-209, 229-254).
PassSparesHeld ==
  [][\A p \in Passes :
       pass[p].pc = "protected" /\ pass'[p].pc = "trimmed"
       => held.pass[p] \cap (file \ file') = {}]_claimVars
=============================================================================
