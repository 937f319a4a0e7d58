-------------------------------- MODULE Queue --------------------------------
(***************************************************************************)
(* The order of the play queue.  Handlers read positions, await, renumber  *)
(* what they read and commit, each in a transaction of its own under READ  *)
(* COMMITTED: a statement sees what was committed before it, a row that    *)
(* another transaction has written is waited for, and a flush writes only  *)
(* the positions that differ from those that were loaded.                  *)
(***************************************************************************)
EXTENDS Naturals, FiniteSets, SequencesExt

CONSTANTS
  Episodes,
  Show,        \* those of a show that may be unsubscribed
  Requests,
  Targets,     \* positions an episode is inserted at
  None,
  MaxListed,   \* bound: ids in a new order
  MaxItems     \* bound: rows ever inserted

VARIABLES
  item,     \* queue: each episode's row, committed, or None
  ids,      \* ids given out; a later row has the greater one
  task,     \* add_to_queue, remove_from_queue, drop_from_queue, reorder_queue
  crossed   \* history: requests that met another's commit between reading and committing

vars == <<item, ids, task, crossed>>

Queued(q) == {e \in DOMAIN q : q[e] # None}

\* ORDER BY position, id.
Precedes(q, x, y) == \/ q[x].position < q[y].position
                     \/ q[x].position = q[y].position /\ q[x].id < q[y].id
Place(q, e) == Cardinality({x \in Queued(q) : Precedes(q, x, e)})

Positions == 0..(MaxListed + Cardinality(Episodes))

\* A transaction: what was asked, the row to insert, the rows to delete, the positions to
\* write, and the rows it has flushed, which nobody else can write before it ends.
Job(at, wanted, list, new, gone, write) ==
  [at |-> at, wanted |-> wanted, list |-> list, new |-> new, id |-> 0, gone |-> gone,
   write |-> write, locks |-> {}]
Idle == Job("idle", None, <<>>, None, {}, <<>>)

Init ==
  /\ item = [e \in Episodes |-> None] /\ ids = 0
  /\ task = [r \in Requests |-> Idle]
  /\ crossed = {}

-----------------------------------------------------------------------------
(* What the handlers read                                                   *)

Begin(r, t) ==
  /\ task[r].at = "idle"
  /\ task' = [task EXCEPT ![r] = t]
  /\ UNCHANGED <<item, ids, crossed>>

Ends(q) == {q[e].position + 1 : e \in Queued(q)} \cup {0}

\* At the tail, or at a position, with everything at or after it one further.
Add(r, e, wanted) ==
  LET shifted == {x \in Queued(item) : wanted # None /\ item[x].position >= wanted}
      position == IF wanted = None THEN Max(Ends(item)) ELSE wanted
  IN  /\ item[e] = None
      /\ Begin(r, Job("read", wanted, <<>>, e, {},
           [x \in shifted \cup {e} |-> IF x = e THEN position ELSE item[x].position + 1]))

\* One episode by request, or those that became played.
Leave(r, E) ==
  /\ E # {} /\ E \subseteq Queued(item)
  /\ Begin(r, Job("read", None, <<>>, None, E, <<>>))

\* Where a sequence has x last.
LastAt(order, x) ==
  CHOOSE i \in DOMAIN order : order[i] = x /\ \A j \in DOMAIN order : order[j] = x => j <= i

\* The list as it was sent, a repeated episode by its last place in it, then what the list
\* leaves out, by position, from the list's length on.
Reorder(r, list) ==
  LET rest == Queued(item) \ ToSet(list) IN
  /\ ToSet(list) \subseteq Queued(item)
  /\ \E tail \in SetToSeqs(rest) :
       /\ \A i, j \in DOMAIN tail :
            item[tail[i]].position < item[tail[j]].position => i < j
       /\ LET order == list \o tail
              moved == {x \in Queued(item) : item[x].position # LastAt(order, x) - 1}
          IN  Begin(r, Job("numbered", None, list, None, {},
                           [x \in moved |-> LastAt(order, x) - 1]))

-----------------------------------------------------------------------------
(* What they write                                                          *)

Locked(r) == UNION {task[q].locks : q \in Requests \ {r}}
Touched(t) == DOMAIN t.write \cup t.gone

\* An UPDATE finds its row; the INSERT finds none for the episode.
Writable(t) ==
  /\ \A e \in DOMAIN t.write : e # t.new => item[e] # None
  /\ t.new # None /\ t.new \notin t.locks => item[t.new] = None

\* What the transaction sees: the committed rows under its own writes.
View(t) ==
  [e \in Episodes |->
     IF e \in t.gone THEN None
     ELSE IF e = t.new THEN [id |-> t.id, position |-> t.write[e]]
     ELSE IF e \in DOMAIN t.write /\ item[e] # None
       THEN [id |-> item[e].id, position |-> t.write[e]]
     ELSE item[e]]

CompactedNot(t, view) == t.write   \* mutant: nothing is renumbered

\* compact_queue_positions: those whose position is not their place.
Compacted(t, view) ==
  LET off == {e \in Queued(view) : view[e].position # Place(view, e)}
  IN  [e \in DOMAIN t.write \cup off |-> IF e \in off THEN Place(view, e) ELSE t.write[e]]

\* The flush, and the reading of the queue after it.
Flush(r) ==
  LET t == [task[r] EXCEPT !.id = ids + 1] IN
  /\ t.at = "read" /\ Touched(t) \cap Locked(r) = {} /\ Writable(t)
  /\ ids' = IF t.new = None THEN ids ELSE ids + 1
  /\ ids' <= MaxItems
  /\ task' = [task EXCEPT ![r] =
       [at |-> "numbered", wanted |-> t.wanted, list |-> t.list, new |-> t.new, id |-> t.id,
        gone |-> t.gone, write |-> Compacted(t, View(t)), locks |-> Touched(t)]]
  /\ UNCHANGED <<item, crossed>>

Meet(r) == crossed' = (crossed \ {r}) \cup {q \in Requests \ {r} : task[q].at # "idle"}

Commit(r) ==
  LET t == task[r] IN
  /\ t.at = "numbered" /\ Touched(t) \cap Locked(r) = {} /\ Writable(t)
  /\ item' = View(t)
  /\ task' = [task EXCEPT ![r] = Idle]
  /\ Meet(r)
  /\ UNCHANGED ids

\* A row that was loaded is gone, the episode has been queued meanwhile, or two transactions
\* wait for each other and the database ends one: nothing is written.
Refused(r) ==
  LET t == task[r] IN
  /\ t.at # "idle"
  /\ \/ Touched(t) \cap Locked(r) = {} /\ ~Writable(t)
     \/ \E q \in Requests \ {r} : /\ Touched(t) \cap task[q].locks # {}
                                  /\ Touched(task[q]) \cap t.locks # {}
  /\ task' = [task EXCEPT ![r] = Idle]
  /\ crossed' = crossed \ {r}
  /\ UNCHANGED <<item, ids>>

\* delete_feed: the rows go by cascade, and nothing is renumbered.
Unsubscribe ==
  /\ Show \cap Queued(item) # {}
  /\ \A r \in Requests : task[r].locks \cap Show = {}
  /\ item' = [e \in Episodes |-> IF e \in Show THEN None ELSE item[e]]
  /\ crossed' = {r \in Requests : task[r].at # "idle"}
  /\ UNCHANGED <<ids, task>>

-----------------------------------------------------------------------------
Next ==
  \/ \E r \in Requests :
       \/ \E e \in Episodes, wanted \in Targets \cup {None} : Add(r, e, wanted)
       \/ \E E \in SUBSET Episodes : Leave(r, E)
       \/ \E list \in BoundedSeq(Episodes, MaxListed) : Reorder(r, list)
       \/ Flush(r) \/ Commit(r) \/ Refused(r)
  \/ Unsubscribe

Spec == Init /\ [][Next]_vars

-----------------------------------------------------------------------------
(* Properties                                                               *)

Dense(q) == {q[e].position : e \in Queued(q)} = 0..(Cardinality(Queued(q)) - 1)

(* services.py:91, queue_routes.py:65, 98: whatever positions earlier requests and an         *)
(* unsubscribe left, equal ones and gaps, a request that meets no other loses nothing, sets  *)
(* no two at one position, keeps the order of what it was not asked to move, puts what it    *)
(* was asked to move where it was asked to, and leaves no gap unless a list repeats an       *)
(* episode; where one is inserted is as asked if there was no gap before.                    *)
Mended ==
  \A r \in Requests \ crossed :
       Commit(r) =>
         LET t == task[r]
             n == Cardinality(Queued(item))
             others == Queued(item) \ (ToSet(t.list) \cup t.gone)
         IN  /\ IsInjective(t.list) => Dense(item')
             /\ \A x, y \in Queued(item') : x # y => item'[x].position # item'[y].position
             /\ Queued(item') = (Queued(item) \ t.gone) \cup ({t.new} \ {None})
             /\ \A x, y \in others : item[x].position < item[y].position
                                      => item'[x].position < item'[y].position
             /\ \A x \in others : item'[x].position >= Len(t.list)
             /\ \A i \in DOMAIN t.list :
                  (\A j \in DOMAIN t.list : j > i => t.list[j] # t.list[i])
                    => item'[t.list[i]].position = i - 1
             /\ t.new # None /\ (t.wanted = None \/ Dense(item)) =>
                  item'[t.new].position =
                    IF t.wanted = None \/ t.wanted > n THEN n ELSE t.wanted
QueueMends == [][Mended]_vars
=============================================================================
