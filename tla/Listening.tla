------------------------------- MODULE Listening -------------------------------
(***************************************************************************)
(* One listener's state of one episode: devices report where playback is,  *)
(* what was marked and how much was heard; a report may have waited long   *)
(* to be sent.  update_state and mark_all_played are cut at their          *)
(* statements, under READ COMMITTED: a statement sees what is committed    *)
(* and the transaction's own writes, an UPDATE waits for the row's lock,   *)
(* and the ORM writes the columns that differ from the row it loaded.      *)
(*                                                                         *)
(* Time is in ticks on one clock.  0 is SQL's NULL for a stamp, and a      *)
(* report that does not say when it was made.                              *)
(***************************************************************************)
EXTENDS Naturals

CONSTANTS
  Devices,        \* requests that can be in progress at once
  Positions,      \* what a report may say of the position
  None,
  Tolerance,      \* CONCURRENT_WRITE_TOLERANCE
  MaxClock, MaxReports   \* bounds: ticks, requests

ASSUME ListeningAssumption ==
  /\ None \notin Devices /\ None \notin Positions
  /\ Positions \subseteq Nat
  /\ Tolerance \in Nat
  /\ MaxClock \in Nat /\ MaxReports \in Nat

VARIABLES
  clock,
  row,       \* the episode_state row as committed
  lock,      \* the transaction that holds the row, or has inserted it
  request,
  reports,   \* requests so far
  heard      \* history: the seconds of every report that was answered

vars == <<clock, row, lock, request, reports, heard>>

\* EpisodeStateUpdate.  None is a field that was not sent.
Body == [position : Positions \cup {None}, played : BOOLEAN \cup {None},
         listened : {0, 1}, made : 0..MaxClock]
NoBody == [position |-> None, played |-> None, listened |-> 0, made |-> 0]

Row == [here : BOOLEAN, position : Positions \cup {0}, played : BOOLEAN,
        listened : Nat, changed : Nat, updated : Nat]
NoRow == [here |-> FALSE, position |-> 0, played |-> FALSE, listened |-> 0,
          changed |-> 0, updated |-> 0]
NewRow(now) == [NoRow EXCEPT !.here = TRUE, !.updated = now]

Request == [pc : {"idle", "insert", "count", "judge", "write", "mark"}, body : Body,
            existed : BOOLEAN, began : Nat, loaded : Row, next : Row]
Idle == [pc |-> "idle", body |-> NoBody, existed |-> FALSE, began |-> 0,
         loaded |-> NoRow, next |-> NoRow]

\* A row that exists was left by a report, or by mark_all_played, which dates none.
Left(played, changed) == [NewRow(1) EXCEPT !.played = played, !.changed = changed]

Init ==
  /\ clock = 1
  /\ row \in {NoRow} \cup {Left(p, c) : p \in BOOLEAN, c \in {0, 1}}
  /\ lock = None
  /\ request = [d \in Devices |-> Idle]
  /\ reports = 0
  /\ heard = 0

Tick ==
  /\ clock < MaxClock
  /\ clock' = clock + 1
  /\ UNCHANGED <<row, lock, request, reports, heard>>

-----------------------------------------------------------------------------
(* update_state                                                            *)

Mine(d) == lock = d
CanLock(d) == lock \in {None, d}

\* _get_or_create_state looks.  The transaction begins.
Begin(d, body) ==
  /\ request[d].pc = "idle"
  /\ reports < MaxReports /\ reports' = reports + 1
  /\ request' = [request EXCEPT ![d] = [Idle EXCEPT
       !.pc = IF ~row.here THEN "insert" ELSE IF body.listened > 0 THEN "count" ELSE "judge",
       !.body = body, !.existed = row.here, !.began = clock, !.loaded = row]]
  /\ UNCHANGED <<clock, row, lock, heard>>

\* INSERT ON CONFLICT DO NOTHING, which waits for a rival's insert, and the row
\* is loaded again.
Insert(d) ==
  /\ request[d].pc = "insert"
  /\ row.here \/ CanLock(d)
  /\ lock' = IF row.here THEN lock ELSE d
  /\ request' = [request EXCEPT
       ![d].pc = IF request[d].body.listened > 0 THEN "count" ELSE "judge",
       ![d].loaded = IF row.here THEN row ELSE NewRow(request[d].began)]
  /\ UNCHANGED <<clock, row, reports, heard>>

\* The row as the transaction sees it.
Sees(d) == IF Mine(d) THEN request[d].loaded ELSE row

\* The UPDATE of the total, which stamps the row too.
Added(r, seconds, began) == [r EXCEPT !.listened = @ + seconds, !.updated = began]

CountUnrefreshed(d) ==   \* mutant: judged by the row loaded before the lock
  /\ request[d].pc = "count"
  /\ CanLock(d)
  /\ lock' = d
  /\ request' = [request EXCEPT
       ![d].pc = "judge",
       ![d].loaded = [request[d].loaded EXCEPT
          !.listened = Sees(d).listened + request[d].body.listened,
          !.updated = request[d].began]]
  /\ UNCHANGED <<clock, row, reports, heard>>

\* The database adds the seconds, which locks the row, and the row is refreshed.
Count(d) ==
  /\ request[d].pc = "count"
  /\ CanLock(d)
  /\ lock' = d
  /\ request' = [request EXCEPT
       ![d].pc = "judge",
       ![d].loaded = Added(Sees(d), request[d].body.listened, request[d].began)]
  /\ UNCHANGED <<clock, row, reports, heard>>

Earlier(s, t) == IF s < t THEN s ELSE t

\* The moment a report describes: now if it does not say, and never later.
Moment(body) == IF body.made = 0 THEN clock ELSE Earlier(body.made, clock)

\* _is_stale, against changed_at or updated_at.
Stored(r) == IF r.changed # 0 THEN r.changed ELSE r.updated
Stale(body, r) == body.made # 0 /\ Earlier(body.made, clock) + Tolerance < Stored(r)

Commits(d, committed) ==
  /\ row' = committed
  /\ lock' = IF Mine(d) THEN None ELSE lock
  /\ request' = [request EXCEPT ![d] = Idle]
  /\ heard' = heard + request[d].body.listened
  /\ UNCHANGED <<clock, reports>>

\* Too old: only the seconds are kept.
Discard(d) ==
  /\ request[d].pc = "judge"
  /\ request[d].existed /\ Stale(request[d].body, request[d].loaded)
  /\ Commits(d, Sees(d))

AppliedUnsent(body, r) ==   \* mutant: a field that was not sent is written too
  [r EXCEPT !.position = IF body.position = None THEN @ ELSE body.position,
            !.played   = body.played,
            !.changed  = Moment(body)]

\* What a report makes of a row.
Applied(body, r) ==
  [r EXCEPT !.position = IF body.position = None THEN @ ELSE body.position,
            !.played   = IF body.played = None THEN @ ELSE body.played,
            !.changed  = Moment(body)]

Accept(d) ==
  /\ request[d].pc = "judge"
  /\ ~(request[d].existed /\ Stale(request[d].body, request[d].loaded))
  /\ request' = [request EXCEPT
       ![d].pc = "write", ![d].next = Applied(request[d].body, request[d].loaded)]
  /\ UNCHANGED <<clock, row, lock, reports, heard>>

\* The flush: the columns that differ from the loaded row, over the row as it is.
Flushed(loaded, next, current, began) ==
  IF next = loaded THEN current
  ELSE [current EXCEPT
    !.position = IF next.position # loaded.position THEN next.position ELSE @,
    !.played   = IF next.played # loaded.played THEN next.played ELSE @,
    !.changed  = IF next.changed # loaded.changed THEN next.changed ELSE @,
    !.updated  = began]

WriteReadTotal(d) ==   \* mutant: the total is read, added to and written
  /\ request[d].pc = "write"
  /\ request[d].next # request[d].loaded => CanLock(d)
  /\ Commits(d, [Flushed(request[d].loaded, request[d].next, Sees(d), request[d].began)
                   EXCEPT !.listened = request[d].loaded.listened])

Write(d) ==
  /\ request[d].pc = "write"
  /\ request[d].next # request[d].loaded => CanLock(d)
  /\ Commits(d, Flushed(request[d].loaded, request[d].next, Sees(d), request[d].began))

-----------------------------------------------------------------------------
(* mark_all_played, as it concerns this episode                            *)

BeginMark(d, played) ==
  /\ request[d].pc = "idle"
  /\ reports < MaxReports /\ reports' = reports + 1
  /\ request' = [request EXCEPT ![d] = [Idle EXCEPT
       !.pc = "mark", !.body = [NoBody EXCEPT !.played = played],
       !.existed = row.here, !.began = clock, !.loaded = row]]
  /\ UNCHANGED <<clock, row, lock, heard>>

\* A row is inserted only to mark it played, and fails if a rival inserted it.
Mark(d) ==
  LET played == request[d].body.played
      loaded == request[d].loaded IN
  /\ request[d].pc = "mark"
  /\ loaded.played # played => CanLock(d)
  /\ Commits(d,
       IF request[d].existed
       THEN Flushed(loaded, [loaded EXCEPT !.played = played], row, request[d].began)
       ELSE IF played /\ ~row.here
            THEN [NewRow(request[d].began) EXCEPT !.played = TRUE]
            ELSE row)

\* The client goes, the process dies, the database fails: all is rolled back.
Abort(d) ==
  /\ request[d].pc # "idle"
  /\ request' = [request EXCEPT ![d] = Idle]
  /\ lock' = IF Mine(d) THEN None ELSE lock
  /\ UNCHANGED <<clock, row, reports, heard>>

-----------------------------------------------------------------------------
Update(d) == Insert(d) \/ Count(d) \/ Discard(d) \/ Accept(d) \/ Write(d) \/ Mark(d)

Next ==
  \/ Tick
  \/ \E d \in Devices :
       \/ \E body \in Body : Begin(d, body)
       \/ \E played \in BOOLEAN : BeginMark(d, played)
       \/ Update(d)
       \/ Abort(d)

Spec == Init /\ [][Next]_vars

-----------------------------------------------------------------------------
(* What makes it correct                                                   *)

TypeOK ==
  /\ clock \in Nat /\ reports \in Nat /\ heard \in Nat
  /\ row \in Row
  /\ lock \in Devices \cup {None}
  /\ request \in [Devices -> Request]

\* Every second reported and answered is in the total, once, however reports
\* cross and whichever of them is too old (episode_routes.py:348-364).
CountedOnce == row.listened = heard

Counted(d) == request[d].body.listened > 0 /\ request[d].pc \in {"judge", "write"}

\* Who has locked the row has it as it is, but for what it has written itself.
LockedIsCurrent(d) ==
  /\ Counted(d) => Mine(d)
  /\ Mine(d) =>
       /\ request[d].pc \in {"count", "judge", "write"}
       /\ request[d].pc = "count" => ~row.here
       /\ request[d].loaded =
            IF request[d].pc = "count" THEN NewRow(request[d].began)
            ELSE Added(IF row.here THEN row ELSE NewRow(request[d].began),
                       request[d].body.listened, request[d].began)

\* A report's columns, and no others, over a row dated some moment.
Laid(body, r, moment) ==
  [r EXCEPT !.position = IF body.position = None THEN @ ELSE body.position,
            !.played   = IF body.played = None THEN @ ELSE body.played,
            !.changed  = moment]

\* What is about to be written is the loaded row with the report laid over it,
\* and the report was not judged too old for it.
WritesWhole(d) ==
  request[d].pc = "write" =>
    LET body == request[d].body
        next == request[d].next IN
    /\ next = Laid(body, request[d].loaded, next.changed)
    /\ request[d].existed /\ body.made # 0 =>
         next.changed + Tolerance >= Stored(request[d].loaded)

\* Who found the row, or put it there, still has it; mark_all_played knows
\* what it found.
FoundStays(d) ==
  /\ request[d].existed => row.here
  /\ request[d].pc \in {"count", "judge", "write"} => row.here \/ Mine(d)
  /\ request[d].pc = "mark" =>
       /\ request[d].body.played \in BOOLEAN /\ request[d].body.listened = 0
       /\ ~request[d].existed => ~request[d].loaded.played

\* Together these are inductive (see ListeningProofs).
ListeningConsistent ==
  /\ TypeOK
  /\ CountedOnce
  /\ ~row.here => row = NoRow
  /\ \A d \in Devices : LockedIsCurrent(d) /\ WritesWhole(d) /\ FoundStays(d)

\* A report that carries listening, which a player's nearly always does, is
\* taken as a whole and judged by what stands when it is stored, though the
\* judgement, its row and the write are statements apart; a row that nothing
\* has dated is another matter (episode_routes.py:355-374).
TakenWhole(d) ==
  LET body == request[d].body
      added == Added(row, body.listened, request[d].began)
  IN Counted(d) /\ request[d].existed /\ row.changed # 0
     /\ request'[d].pc = "idle" /\ heard' # heard =>
       IF request[d].pc = "judge" THEN Stale(body, row) /\ row' = added
       ELSE /\ row' = Laid(body, added, row'.changed)
            /\ body.made # 0 => row'.changed + Tolerance >= row.changed

CountedIsAtomic == [][\A d \in Devices : TakenWhole(d)]_vars
=============================================================================
