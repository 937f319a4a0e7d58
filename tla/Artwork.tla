------------------------------- MODULE Artwork -------------------------------
(***************************************************************************)
(* One image URL in the artwork cache: requests that fetch it on demand    *)
(* under a lock per URL, searches that only register it, and a publisher   *)
(* who changes the picture or its format, or answers with an error.        *)
(*                                                                         *)
(* A session keeps the row it loaded first, however often it selects it,   *)
(* and a flush writes the columns that differ from what was loaded.        *)
(***************************************************************************)
EXTENDS Naturals, FiniteSets

CONSTANTS
  Requests,
  Formats,
  RetryAfter, RevalidateAfter,   \* ticks
  None,
  MaxPictures                    \* bound: how often the publisher changes it

VARIABLES
  picture,   \* what the publisher serves: a format, or None for an error
  changes,
  row,       \* the artwork_cache row, None before it is registered
  file,      \* the formats on disk; the format gives the file its extension
  table,     \* _locks[digest]
  task,      \* requests: the lock each has, and the row it loaded, as it was and as it is
  early,     \* history: a request fetched by a row that it had read before it waited
  refused    \* history: a commit met another row

vars == <<picture, changes, row, file, table, task, early, refused>>

Locks == 1..Cardinality(Requests)

\* fetched_at counts as far as anyone looks; local_path and content_type are the format.
Row == [format : Formats \cup {None}, age : (0..RevalidateAfter) \cup {None}, failed : BOOLEAN]
Registered == [format |-> None, age |-> None, failed |-> FALSE]

Idle == [at |-> "idle", lock |-> None, seen |-> None, new |-> None]

Init ==
  /\ picture \in Formats \cup {None} /\ changes = 0
  /\ row = None /\ file = {}
  /\ table = None
  /\ task = [r \in Requests |-> Idle]
  /\ early = FALSE /\ refused = FALSE

-----------------------------------------------------------------------------
Older(r) == IF r = None \/ r.age = None \/ r.age = RevalidateAfter THEN r
            ELSE [r EXCEPT !.age = @ + 1]

HeldNever(lock) == FALSE   \* mutant: nobody waits

Held(lock) == \E q \in Requests : task[q].at \in {"fetching", "fetched"} /\ task[q].lock = lock

\* A tick is hours: only a fetch, with those that wait for it, goes on that long.
Tick ==
  /\ \A r \in Requests : task[r].at \in {"idle", "fetching"}
                            \/ (task[r].at = "waiting" /\ Held(task[r].lock))
  /\ row' = Older(row)
  /\ task' = [r \in Requests |-> [at |-> task[r].at, lock |-> task[r].lock,
                                  seen |-> Older(task[r].seen), new |-> Older(task[r].new)]]
  /\ UNCHANGED <<picture, changes, file, table, early, refused>>

Change(p) ==
  /\ p # picture /\ changes < MaxPictures
  /\ picture' = p /\ changes' = changes + 1
  /\ UNCHANGED <<row, file, table, task, early, refused>>

-----------------------------------------------------------------------------
(* register_artwork                                                         *)

Register(r) ==
  /\ task[r].at = "idle" /\ row = None
  /\ task' = [task EXCEPT ![r] =
       [at |-> "writing", lock |-> None, seen |-> None, new |-> Registered]]
  /\ UNCHANGED <<picture, changes, row, file, table, early, refused>>

-----------------------------------------------------------------------------
(* ensure_artwork                                                           *)

\* A lock nobody has; one that is dropped from the table lives while somebody waits on it.
NewLock == CHOOSE l \in Locks : \A r \in Requests : task[r].lock # l

Wait(r, loaded) ==
  LET lock == IF table = None THEN NewLock ELSE table IN
  /\ task[r].at = "idle"
  /\ table' = lock
  /\ task' = [task EXCEPT ![r] = [at |-> "waiting", lock |-> lock, seen |-> loaded, new |-> None]]
  /\ UNCHANGED <<picture, changes, row, file, early, refused>>

Cached(entry) == entry.format # None /\ entry.format \in file

\* Artwork of a show or an episode; or by hash, where the row is loaded before the lock.
EnsureArtwork(r) == Wait(r, None)
ArtworkByHash(r) == row # None /\ ~Cached(row) /\ Wait(r, row)

\* Nothing cached, or too long ago; and not refused a moment ago.
Due(entry) ==
  IF entry = None THEN TRUE
  ELSE /\ Cached(entry) => entry.age = RevalidateAfter
       /\ entry.failed => entry.age >= RetryAfter

\* The one that leaves drops the lock from the table, though others may be waiting on it.
Left(r) ==
  /\ table' = IF table = task[r].lock THEN None ELSE table
  /\ task' = [task EXCEPT ![r] = Idle]

Entry(r) == IF task[r].seen # None THEN task[r].seen ELSE row

Return(r) ==
  /\ task[r].at = "waiting" /\ ~Held(task[r].lock)
  /\ ~Due(Entry(r))
  /\ Left(r)
  /\ UNCHANGED <<picture, changes, row, file, early, refused>>

Fetch(r) ==
  LET entry == Entry(r) IN
  /\ task[r].at = "waiting" /\ ~Held(task[r].lock)
  /\ Due(entry)
  /\ task' = [task EXCEPT ![r] =
       [at |-> "fetching", lock |-> task[r].lock, seen |-> entry,
        new |-> IF entry = None THEN Registered ELSE entry]]
  /\ early' = (early \/ task[r].seen # None)
  /\ UNCHANGED <<picture, changes, row, file, table, refused>>

Fetched(r, entry) ==
  task' = [task EXCEPT ![r] =
    [at |-> "fetched", lock |-> task[r].lock, seen |-> task[r].seen, new |-> entry]]

\* The file takes its name at once, the row is for the commit to write.
Got(r) ==
  /\ task[r].at = "fetching" /\ picture # None
  /\ file' = file \cup {picture}
  /\ Fetched(r, [format |-> picture, age |-> 0, failed |-> FALSE])
  /\ UNCHANGED <<picture, changes, row, table, early, refused>>

\* An error, a picture too large, or none at all: the attempt is noted.
Failed(r) ==
  /\ task[r].at = "fetching"
  /\ Fetched(r, [format |-> task[r].new.format, age |-> 0, failed |-> TRUE])
  /\ UNCHANGED <<picture, changes, row, file, table, early, refused>>

-----------------------------------------------------------------------------
Written(t) ==
  IF t.seen = None THEN t.new
  ELSE [c \in DOMAIN row |-> IF t.new[c] # t.seen[c] THEN t.new[c] ELSE row[c]]

Writing(r) == task[r].at \in {"writing", "fetched"}

Commit(r) ==
  /\ Writing(r)
  /\ task[r].seen = None => row = None
  /\ row' = Written(task[r])
  /\ Left(r)
  /\ UNCHANGED <<picture, changes, file, early, refused>>

\* url_hash is unique: another has inserted the row meanwhile.
Refused(r) ==
  /\ Writing(r)
  /\ task[r].seen = None /\ row # None
  /\ refused' = TRUE
  /\ Left(r)
  /\ UNCHANGED <<picture, changes, row, file, early>>

Next ==
  \/ Tick
  \/ \E p \in Formats \cup {None} : Change(p)
  \/ \E r \in Requests :
       \/ Register(r) \/ EnsureArtwork(r) \/ ArtworkByHash(r)
       \/ Return(r) \/ Fetch(r) \/ Got(r) \/ Failed(r) \/ Commit(r) \/ Refused(r)

Spec == Init /\ [][Next]_vars

-----------------------------------------------------------------------------
(* Properties                                                               *)

ArtworkTypeOK ==
  /\ row = None \/ row \in Row
  /\ file \subseteq Formats
  /\ table \in Locks \cup {None}
  /\ \A r \in Requests : task[r].at \in {"idle", "waiting", "fetching", "fetched", "writing"}

(* artwork.py:105: the picture is fetched once at a time, though the lock leaves the table   *)
(* while others wait on it, unless a request had read the row before it waited, or its       *)
(* commit met a registration.                                                                *)
OneFetchInFlight ==
  ~early /\ ~refused => Cardinality({r \in Requests : task[r].at \in {"fetching", "fetched"}}) <= 1

(* artwork.py:100-103: a refetch that fails leaves the old picture, and a first fetch that  *)
(* fails late does not take away what another one stored: what was got is on disk and named. *)
OldPictureStays ==
  ~refused /\ file # {} /\ (\A r \in Requests : ~Writing(r)) => row.format \in file

ArtworkConsistent == ArtworkTypeOK /\ OneFetchInFlight /\ OldPictureStays
=============================================================================
