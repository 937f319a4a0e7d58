---------------------------- MODULE ListeningProofs ----------------------------
(***************************************************************************)
(* No second of listening is lost or counted twice, and a report with      *)
(* listening is taken as a whole: proved for every number of devices,      *)
(* positions, reports, ticks, and every tolerance.                         *)
(***************************************************************************)
EXTENDS Listening, TLAPS

-----------------------------------------------------------------------------
(* Helpers                                                                 *)

\* A flush over the row it was computed from writes the whole of it; over
\* another it leaves presence and the total alone.
LEMMA FlushedType ==
  ASSUME NEW l \in Row, NEW n \in Row, NEW c \in Row, NEW b \in Nat
  PROVE  Flushed(l, n, c, b) \in Row
<1>1. CASE n = l
  BY <1>1 DEF Flushed
<1>2. CASE n # l
  BY <1>2 DEF Flushed, Row
<1> QED BY <1>1, <1>2

LEMMA FlushedTotal ==
  ASSUME NEW l \in Row, NEW n \in Row, NEW c \in Row, NEW b \in Nat
  PROVE  Flushed(l, n, c, b).listened = c.listened
<1>1. CASE n = l
  BY <1>1 DEF Flushed
<1>2. CASE n # l
  BY <1>2 DEF Flushed, Row
<1> QED BY <1>1, <1>2

LEMMA FlushedHere ==
  ASSUME NEW l \in Row, NEW n \in Row, NEW c \in Row, NEW b \in Nat
  PROVE  Flushed(l, n, c, b).here <=> c.here
<1>1. CASE n = l
  BY <1>1 DEF Flushed
<1>2. CASE n # l
  BY <1>2 DEF Flushed, Row
<1> QED BY <1>1, <1>2

LEMMA FlushedOver ==
  ASSUME NEW l \in Row, NEW n \in Row, NEW b \in Nat,
         l.updated = b, n.here = l.here, n.listened = l.listened, n.updated = l.updated
  PROVE  Flushed(l, n, l, b) = n
<1>1. CASE n = l
  BY <1>1 DEF Flushed
<1>2. CASE n # l
  BY <1>2 DEF Flushed, Row
<1> QED BY <1>1, <1>2

\* Applied keeps what a report does not speak of.
LEMMA AppliedFacts ==
  ASSUME NEW body \in Body, NEW r \in Row, clock \in Nat
  PROVE  /\ Applied(body, r) \in Row
         /\ Applied(body, r).changed = Moment(body)
         /\ Moment(body) \in Nat
<1> DEFINE position == IF body.position = None THEN r.position ELSE body.position
           played == IF body.played = None THEN r.played ELSE body.played
<1>1. position \in Positions \cup {0}
  BY DEF Body, Row
<1>2. played \in BOOLEAN
  <2>1. body.played \in BOOLEAN \cup {None} /\ r.played \in BOOLEAN
    BY DEF Body, Row
  <2> QED BY <2>1, Zenon
<1>3. Moment(body) \in Nat
  BY ListeningAssumption DEF Moment, Earlier, Body
<1>4. Applied(body, r) = [r EXCEPT !.position = position, !.played = played,
                                   !.changed = Moment(body)]
  BY Zenon DEF Applied
<1> QED
  <2> HIDE DEF position, played
  <2> QED BY <1>1, <1>2, <1>3, <1>4 DEF Row

LEMMA NewRowFacts ==
  ASSUME NEW n \in Nat
  PROVE  NewRow(n) \in Row /\ NoRow \in Row /\ NewRow(n).here /\ ~NoRow.here
  BY DEF NewRow, NoRow, Row

LEMMA AddedNothing ==
  ASSUME NEW n \in Nat
  PROVE  Added(NewRow(n), 0, n) = NewRow(n)
<1>1. NewRow(n).listened + 0 = NewRow(n).listened /\ NewRow(n).updated = n
  BY DEF NewRow, NoRow
<1>2. ASSUME NEW r \in Row, r.listened + 0 = r.listened, r.updated = n
      PROVE  Added(r, 0, n) = r
  BY <1>2 DEF Added, Row
<1> QED BY <1>1, <1>2, NewRowFacts

USE ListeningAssumption

\* What one request is in, besides its own record.
Sound(d) == LockedIsCurrent(d) /\ WritesWhole(d) /\ FoundStays(d)

LEMMA RequestFields ==
  ASSUME TypeOK, NEW d \in Devices
  PROVE  /\ request[d].body \in Body /\ request[d].body.listened \in {0, 1}
         /\ request[d].began \in Nat /\ request[d].existed \in BOOLEAN
         /\ request[d].loaded \in Row /\ request[d].next \in Row
         /\ request[d].pc \in {"idle", "insert", "count", "judge", "write", "mark"}
  BY DEF TypeOK, Body, Request

LEMMA IdleFacts ==
  /\ Idle.pc = "idle" /\ ~Idle.existed
  /\ Idle \in Request
<1>1. NoRow \in Row
  BY DEF NoRow, Row
<1>2. NoBody \in Body
  BY DEF NoBody, Body
<1> QED BY <1>1, <1>2 DEF Idle, Request

-----------------------------------------------------------------------------
(* Types                                                                   *)

LEMMA TypeStep ==
  ASSUME TypeOK, [Next]_vars, \A d \in Devices : FoundStays(d)
  PROVE  TypeOK'
<1>1. CASE UNCHANGED vars
  BY <1>1 DEF TypeOK, vars
<1>2. CASE Tick
  BY <1>2 DEF TypeOK, Tick
<1>3. ASSUME NEW d \in Devices, NEW body \in Body, Begin(d, body) PROVE TypeOK'
  <2> DEFINE pc == IF ~row.here THEN "insert" ELSE IF body.listened > 0 THEN "count" ELSE "judge"
             q == [Idle EXCEPT !.pc = pc, !.body = body, !.existed = row.here,
                               !.began = clock, !.loaded = row]
  <2>1. pc \in {"insert", "count", "judge"} /\ row.here \in BOOLEAN
    BY DEF TypeOK, Row
  <2>2. q \in Request
    <3> HIDE DEF pc
    <3> QED BY <2>1, IdleFacts DEF TypeOK, Request
  <2>3. request' = [request EXCEPT ![d] = q]
    BY <1>3, Zenon DEF Begin
  <2> HIDE DEF q
  <2> QED BY <1>3, <2>2, <2>3 DEF TypeOK, Begin
<1>4. ASSUME NEW d \in Devices, NEW played \in BOOLEAN, BeginMark(d, played) PROVE TypeOK'
  <2> DEFINE q == [Idle EXCEPT !.pc = "mark", !.body = [NoBody EXCEPT !.played = played],
                               !.existed = row.here, !.began = clock, !.loaded = row]
  <2>1. [NoBody EXCEPT !.played = played] \in Body /\ row.here \in BOOLEAN
    BY DEF NoBody, Body, TypeOK, Row
  <2>2. q \in Request
    BY <2>1, IdleFacts DEF TypeOK, Request
  <2>3. request' = [request EXCEPT ![d] = q]
    BY <1>4, Zenon DEF BeginMark
  <2> HIDE DEF q
  <2> QED BY <1>4, <2>2, <2>3 DEF TypeOK, BeginMark
<1>5. ASSUME NEW d \in Devices, Insert(d) PROVE TypeOK'
  <2> DEFINE pc == IF request[d].body.listened > 0 THEN "count" ELSE "judge"
             loaded == IF row.here THEN row ELSE NewRow(request[d].began)
             q == [request[d] EXCEPT !.pc = pc, !.loaded = loaded]
  <2>1. pc \in {"count", "judge"} /\ loaded \in Row
    BY RequestFields, NewRowFacts DEF TypeOK
  <2>2. q \in Request
    <3> HIDE DEF pc, loaded
    <3> QED BY <2>1 DEF TypeOK, Request
  <2>3. request' = [request EXCEPT ![d] = q]
    BY <1>5, Zenon DEF Insert
  <2>4. lock' \in Devices \cup {None} /\ UNCHANGED <<clock, row, reports, heard>>
    BY <1>5, Zenon DEF TypeOK, Insert
  <2> HIDE DEF q
  <2> QED BY <2>2, <2>3, <2>4 DEF TypeOK
<1>6. ASSUME NEW d \in Devices, Count(d) PROVE TypeOK'
  <2> DEFINE loaded == Added(Sees(d), request[d].body.listened, request[d].began)
             q == [request[d] EXCEPT !.pc = "judge", !.loaded = loaded]
  <2>1. Sees(d) \in Row
    BY RequestFields DEF TypeOK, Sees
  <2>2. loaded \in Row
    <3>1. request[d].body.listened \in Nat /\ request[d].began \in Nat
      BY RequestFields
    <3>2. Sees(d).listened + request[d].body.listened \in Nat
      BY <2>1, <3>1 DEF Row
    <3> QED BY <2>1, <3>1, <3>2 DEF Row, Added
  <2>3. q \in Request
    <3> HIDE DEF loaded
    <3> QED BY <2>2 DEF TypeOK, Request
  <2>4. request' = [request EXCEPT ![d] = q]
    BY <1>6, Zenon DEF Count
  <2> HIDE DEF q
  <2> QED BY <1>6, <2>3, <2>4 DEF TypeOK, Count
<1>7. ASSUME NEW d \in Devices, NEW new \in Row, Commits(d, new) PROVE TypeOK'
  BY <1>7, RequestFields, IdleFacts DEF TypeOK, Commits
<1>8. ASSUME NEW d \in Devices, Discard(d) PROVE TypeOK'
  BY <1>7, <1>8, RequestFields DEF TypeOK, Discard, Sees
<1>9. ASSUME NEW d \in Devices, Accept(d) PROVE TypeOK'
  <2> DEFINE next == Applied(request[d].body, request[d].loaded)
             q == [request[d] EXCEPT !.pc = "write", !.next = next]
  <2>1. next \in Row
    BY RequestFields, AppliedFacts DEF TypeOK
  <2>2. q \in Request
    <3> HIDE DEF next
    <3> QED BY <2>1 DEF TypeOK, Request
  <2>3. request' = [request EXCEPT ![d] = q]
    BY <1>9, Zenon DEF Accept
  <2> HIDE DEF q
  <2> QED BY <1>9, <2>2, <2>3 DEF TypeOK, Accept
<1>10. ASSUME NEW d \in Devices, Write(d) PROVE TypeOK'
  <2>1. Sees(d) \in Row
    BY RequestFields DEF TypeOK, Sees
  <2>2. Flushed(request[d].loaded, request[d].next, Sees(d), request[d].began) \in Row
    BY <2>1, RequestFields, FlushedType
  <2> QED BY <1>7, <1>10, <2>2 DEF Write
<1>11. ASSUME NEW d \in Devices, FoundStays(d), Mark(d) PROVE TypeOK'
  <2> DEFINE loaded == request[d].loaded
             next == [loaded EXCEPT !.played = request[d].body.played]
             new == [NewRow(request[d].began) EXCEPT !.played = TRUE]
  <2>1. next \in Row
    BY <1>11, RequestFields DEF Mark, FoundStays, Row
  <2>2. Flushed(loaded, next, row, request[d].began) \in Row
    BY <2>1, RequestFields, FlushedType DEF TypeOK
  <2>3. new \in Row
    <3>1. request[d].began \in Nat
      BY RequestFields
    <3>2. NewRow(request[d].began) \in Row
      BY <3>1, NewRowFacts
    <3> QED BY <3>2 DEF Row
  <2> DEFINE written == IF request[d].existed THEN Flushed(loaded, next, row, request[d].began)
                        ELSE IF request[d].body.played /\ ~row.here THEN new ELSE row
  <2>4. written \in Row
    BY <2>2, <2>3, Zenon DEF TypeOK
  <2>5. Commits(d, written)
    BY <1>11, Zenon DEF Mark
  <2> HIDE DEF written
  <2> QED BY <1>7, <2>4, <2>5
<1>12. ASSUME NEW d \in Devices, Abort(d) PROVE TypeOK'
  BY <1>12, IdleFacts DEF TypeOK, Abort, Mine
<1> QED
  BY <1>1, <1>2, <1>3, <1>4, <1>5, <1>6, <1>8, <1>9, <1>10, <1>11, <1>12 DEF Next, Update

-----------------------------------------------------------------------------
(* The two kinds of step                                                   *)

\* A step of one request that commits nothing has only itself to answer for.
LEMMA LocalStep ==
  ASSUME ListeningConsistent, TypeOK', NEW d \in Devices, NEW q,
         request' = [request EXCEPT ![d] = q], UNCHANGED <<row, heard>>,
         lock' = lock \/ {lock, lock'} \subseteq {None, d},
         Sound(d)'
  PROVE  ListeningConsistent'
<1>1. CountedOnce' /\ (~row.here => row = NoRow)'
  BY DEF ListeningConsistent, CountedOnce
<1>2. ASSUME NEW e \in Devices, e # d PROVE Sound(e)'
  <2>1. request'[e] = request[e] /\ (Mine(e)' <=> Mine(e))
    BY <1>2 DEF ListeningConsistent, TypeOK, Mine
  <2>2. LockedIsCurrent(e) /\ WritesWhole(e) /\ FoundStays(e)
    BY DEF ListeningConsistent
  <2>3. LockedIsCurrent(e)'
    BY <2>1, <2>2 DEF LockedIsCurrent, Counted
  <2>4. WritesWhole(e)'
    BY <2>1, <2>2, Zenon DEF WritesWhole, Stored, Laid
  <2>5. FoundStays(e)'
    BY <2>1, <2>2 DEF FoundStays
  <2> QED BY <2>3, <2>4, <2>5 DEF Sound
<1> QED BY <1>1, <1>2, Zenon DEF Sound, ListeningConsistent

\* A commit adds the report's seconds, and leaves a row that another holds alone.
LEMMA CommitStep ==
  ASSUME ListeningConsistent, TypeOK', NEW d \in Devices, NEW new \in Row, Commits(d, new),
         new.listened = row.listened + request[d].body.listened,
         new = row \/ CanLock(d),
         row.here => new.here,
         ~new.here => new = NoRow
  PROVE  ListeningConsistent'
<1>1. /\ row' = new
      /\ heard' = heard + request[d].body.listened
      /\ request' = [request EXCEPT ![d] = Idle]
      /\ lock' = IF Mine(d) THEN None ELSE lock
  BY DEF Commits
<1>2. CountedOnce' /\ (~row.here => row = NoRow)'
  BY <1>1 DEF ListeningConsistent, CountedOnce
<1>3. Sound(d)'
  <2>1. request'[d] = Idle /\ ~Mine(d)'
    BY <1>1 DEF ListeningConsistent, TypeOK, Mine
  <2> QED BY <2>1, IdleFacts DEF Sound, LockedIsCurrent, WritesWhole, FoundStays, Counted
<1>4. ASSUME NEW e \in Devices, e # d PROVE Sound(e)'
  <2>1. request'[e] = request[e] /\ (Mine(e)' <=> Mine(e))
    BY <1>1, <1>4 DEF ListeningConsistent, TypeOK, Mine
  <2>2. LockedIsCurrent(e) /\ WritesWhole(e) /\ FoundStays(e)
    BY DEF ListeningConsistent
  <2>3. Mine(e) => row' = row
    BY <1>1, <1>4 DEF Mine, CanLock
  <2>4. LockedIsCurrent(e)'
    BY <2>1, <2>2, <2>3 DEF LockedIsCurrent, Counted
  <2>5. WritesWhole(e)'
    BY <2>1, <2>2, Zenon DEF WritesWhole, Stored, Laid
  <2>6. FoundStays(e)'
    BY <1>1, <2>1, <2>2 DEF FoundStays
  <2> QED BY <2>4, <2>5, <2>6 DEF Sound
<1> QED BY <1>2, <1>3, <1>4, Zenon DEF Sound, ListeningConsistent

-----------------------------------------------------------------------------
(* The actions                                                             *)

LEMMA BeginStep ==
  ASSUME ListeningConsistent, TypeOK', NEW d \in Devices, NEW body \in Body, Begin(d, body)
  PROVE  ListeningConsistent'
<1> DEFINE pc == IF ~row.here THEN "insert" ELSE IF body.listened > 0 THEN "count" ELSE "judge"
           q == [Idle EXCEPT !.pc = pc, !.body = body, !.existed = row.here,
                             !.began = clock, !.loaded = row]
<1>1. request' = [request EXCEPT ![d] = q] /\ UNCHANGED <<row, lock, heard>>
  BY Zenon DEF Begin
<1>2. request[d].pc = "idle" /\ ~Mine(d) /\ ~Mine(d)'
  BY <1>1 DEF Begin, ListeningConsistent, LockedIsCurrent, Mine
<1>3. request'[d] = q
  BY <1>1 DEF ListeningConsistent, TypeOK
<1>4. q.pc = pc /\ q.body = body /\ q.existed = row.here
  BY DEF Idle
<1>5. pc \in {"insert", "count", "judge"} /\ (pc # "insert" => row.here)
      /\ (pc = "judge" => ~(body.listened > 0))
  OBVIOUS
<1>6. Sound(d)'
  <2> HIDE DEF pc, q
  <2> QED BY <1>1, <1>2, <1>3, <1>4, <1>5
          DEF Sound, LockedIsCurrent, WritesWhole, FoundStays, Counted
<1> HIDE DEF q
<1> QED BY <1>1, <1>6, LocalStep

LEMMA BeginMarkStep ==
  ASSUME ListeningConsistent, TypeOK', NEW d \in Devices, NEW played \in BOOLEAN,
         BeginMark(d, played)
  PROVE  ListeningConsistent'
<1> DEFINE q == [Idle EXCEPT !.pc = "mark", !.body = [NoBody EXCEPT !.played = played],
                             !.existed = row.here, !.began = clock, !.loaded = row]
<1>1. request' = [request EXCEPT ![d] = q] /\ UNCHANGED <<row, lock, heard>>
  BY Zenon DEF BeginMark
<1>2. ~Mine(d) /\ ~Mine(d)'
  BY <1>1 DEF BeginMark, ListeningConsistent, LockedIsCurrent, Mine
<1>3. request'[d] = q
  BY <1>1 DEF ListeningConsistent, TypeOK
<1>4. /\ q.pc = "mark" /\ q.existed = row.here /\ q.loaded = row
      /\ q.body.played = played /\ q.body.listened = 0
  BY DEF Idle, NoBody
<1>5. ~row.here => ~row.played
  BY DEF ListeningConsistent, NoRow
<1>6. Sound(d)'
  <2> HIDE DEF q
  <2> QED BY <1>1, <1>2, <1>3, <1>4, <1>5
          DEF Sound, LockedIsCurrent, WritesWhole, FoundStays, Counted
<1> HIDE DEF q
<1> QED BY <1>1, <1>6, LocalStep

LEMMA InsertStep ==
  ASSUME ListeningConsistent, TypeOK', NEW d \in Devices, Insert(d)
  PROVE  ListeningConsistent'
<1> DEFINE pc == IF request[d].body.listened > 0 THEN "count" ELSE "judge"
           loaded == IF row.here THEN row ELSE NewRow(request[d].began)
           q == [request[d] EXCEPT !.pc = pc, !.loaded = loaded]
<1>1. /\ request' = [request EXCEPT ![d] = q] /\ UNCHANGED <<row, heard>>
      /\ lock' = IF row.here THEN lock ELSE d
      /\ row.here \/ CanLock(d)
  BY Zenon DEF Insert
<1>2. ~Mine(d)
  BY DEF Insert, ListeningConsistent, LockedIsCurrent
<1>3. Mine(d)' <=> ~row.here
  BY <1>1, <1>2 DEF Mine
<1>4. request'[d] = q
  BY <1>1 DEF ListeningConsistent, TypeOK
<1>5. /\ q.pc = pc /\ q.loaded = loaded /\ q.body = request[d].body
      /\ q.existed = request[d].existed /\ q.began = request[d].began
  BY DEF ListeningConsistent, TypeOK, Request
<1>6. pc \in {"count", "judge"} /\ (pc = "judge" => request[d].body.listened = 0)
  BY RequestFields DEF ListeningConsistent
<1>7. /\ ~row.here => loaded = NewRow(request[d].began)
      /\ NewRow(request[d].began) = Added(NewRow(request[d].began), 0, request[d].began)
  BY AddedNothing, RequestFields DEF ListeningConsistent
<1>8. request[d].existed => row.here
  BY DEF ListeningConsistent, FoundStays
<1>9. LockedIsCurrent(d)'
  <2> HIDE DEF pc, loaded, q
  <2>1. Counted(d)' => Mine(d)'
    BY <1>4, <1>5, <1>6 DEF Counted
  <2>2. CASE row.here
    BY <2>1, <2>2, <1>3 DEF LockedIsCurrent
  <2>3. CASE ~row.here /\ pc = "count"
    BY <2>1, <2>3, <1>1, <1>4, <1>5, <1>7 DEF LockedIsCurrent
  <2>4. CASE ~row.here /\ pc = "judge"
    BY <2>1, <2>4, <1>1, <1>4, <1>5, <1>6, <1>7 DEF LockedIsCurrent
  <2> QED BY <1>6, <2>2, <2>3, <2>4
<1>10. Sound(d)'
  <2> HIDE DEF pc, q
  <2> QED BY <1>1, <1>3, <1>4, <1>5, <1>6, <1>8, <1>9 DEF Sound, WritesWhole, FoundStays
<1> HIDE DEF q
<1> QED BY <1>1, <1>10, LocalStep DEF CanLock

LEMMA CountStep ==
  ASSUME ListeningConsistent, TypeOK', NEW d \in Devices, Count(d)
  PROVE  ListeningConsistent'
<1> DEFINE loaded == Added(Sees(d), request[d].body.listened, request[d].began)
           q == [request[d] EXCEPT !.pc = "judge", !.loaded = loaded]
<1>1. /\ request' = [request EXCEPT ![d] = q] /\ UNCHANGED <<row, heard>>
      /\ lock' = d /\ CanLock(d) /\ request[d].pc = "count"
  BY Zenon DEF Count
<1>2. request'[d] = q
  BY <1>1 DEF ListeningConsistent, TypeOK
<1>3. /\ q.pc = "judge" /\ q.loaded = loaded /\ q.body = request[d].body
      /\ q.existed = request[d].existed /\ q.began = request[d].began
  BY DEF ListeningConsistent, TypeOK, Request
<1>4. LockedIsCurrent(d) /\ FoundStays(d) /\ row \in Row
  BY DEF ListeningConsistent, TypeOK
<1>5. Sees(d) = IF row.here THEN row ELSE NewRow(request[d].began)
  BY <1>1, <1>4 DEF Sees, LockedIsCurrent, FoundStays
<1>6. Mine(d)'
  BY <1>1 DEF Mine
<1>7. Sound(d)'
  <2> HIDE DEF q
  <2>1. LockedIsCurrent(d)'
    BY <1>1, <1>2, <1>3, <1>5, <1>6 DEF LockedIsCurrent
  <2>2. FoundStays(d)' /\ WritesWhole(d)'
    BY <1>1, <1>2, <1>3, <1>4, <1>6 DEF FoundStays, WritesWhole
  <2> QED BY <2>1, <2>2 DEF Sound
<1> HIDE DEF q
<1> QED BY <1>1, <1>7, LocalStep DEF CanLock

LEMMA AcceptStep ==
  ASSUME ListeningConsistent, TypeOK', NEW d \in Devices, Accept(d)
  PROVE  ListeningConsistent'
<1> DEFINE body == request[d].body
           next == Applied(body, request[d].loaded)
           q == [request[d] EXCEPT !.pc = "write", !.next = next]
<1>1. /\ request' = [request EXCEPT ![d] = q] /\ UNCHANGED <<row, lock, heard>>
      /\ request[d].pc = "judge"
      /\ ~(request[d].existed /\ Stale(body, request[d].loaded))
  BY Zenon DEF Accept
<1>2. request'[d] = q /\ (Mine(d)' <=> Mine(d))
  BY <1>1 DEF ListeningConsistent, TypeOK, Mine
<1>3. /\ q.pc = "write" /\ q.loaded = request[d].loaded /\ q.body = body /\ q.next = next
      /\ q.existed = request[d].existed /\ q.began = request[d].began
  BY DEF ListeningConsistent, TypeOK, Request
<1>4. /\ next.changed = Moment(body)
      /\ next = Laid(body, request[d].loaded, next.changed)
  <2>1. body \in Body /\ request[d].loaded \in Row /\ clock \in Nat
    BY RequestFields DEF ListeningConsistent, TypeOK
  <2>2. next.changed = Moment(body)
    BY <2>1, AppliedFacts
  <2>3. next = Laid(body, request[d].loaded, Moment(body))
    BY Zenon DEF Applied, Laid
  <2> QED BY <2>2, <2>3
<1>5. request[d].existed /\ body.made # 0 =>
        next.changed + Tolerance >= Stored(request[d].loaded)
  <2>1. body.made \in Nat /\ clock \in Nat
    BY RequestFields DEF ListeningConsistent, TypeOK, Body
  <2>2. Stored(request[d].loaded) \in Nat
    BY RequestFields DEF ListeningConsistent, Stored, Row
  <2> HIDE DEF next
  <2> QED BY <1>1, <1>4, <2>1, <2>2 DEF Stale, Moment, Earlier
<1>6. LockedIsCurrent(d) /\ FoundStays(d)
  BY DEF ListeningConsistent
<1>7. LockedIsCurrent(d)'
  <2> HIDE DEF q
  <2> QED BY <1>1, <1>2, <1>3, <1>6 DEF LockedIsCurrent, Counted
<1>8. WritesWhole(d)'
  <2> HIDE DEF q, next
  <2> QED BY <1>2, <1>3, <1>4, <1>5, Zenon DEF WritesWhole, Stored, Laid
<1>9. FoundStays(d)'
  <2> HIDE DEF q
  <2> QED BY <1>1, <1>2, <1>3, <1>6 DEF FoundStays
<1> HIDE DEF q
<1> QED BY <1>1, <1>7, <1>8, <1>9, LocalStep DEF Sound

LEMMA AbortStep ==
  ASSUME ListeningConsistent, TypeOK', NEW d \in Devices, Abort(d)
  PROVE  ListeningConsistent'
<1>1. /\ request' = [request EXCEPT ![d] = Idle] /\ UNCHANGED <<row, heard>>
      /\ lock' = IF Mine(d) THEN None ELSE lock
  BY Zenon DEF Abort
<1>2. request'[d] = Idle /\ ~Mine(d)'
  BY <1>1 DEF ListeningConsistent, TypeOK, Mine
<1>3. Sound(d)'
  BY <1>2, IdleFacts DEF Sound, LockedIsCurrent, WritesWhole, FoundStays, Counted
<1> QED BY <1>1, <1>3, LocalStep DEF Mine

LEMMA AddedType ==
  ASSUME NEW r \in Row, NEW k \in Nat, NEW b \in Nat
  PROVE  Added(r, k, b) \in Row
<1>1. r.listened + k \in Nat
  BY DEF Row
<1> QED BY <1>1 DEF Added, Row

LEMMA AddedFacts ==
  ASSUME NEW r \in Row, NEW k \in Nat, NEW b \in Nat
  PROVE  /\ Added(r, k, b).listened = r.listened + k
         /\ Added(r, k, b).changed = r.changed /\ Added(r, k, b).updated = b
<1>1. r.listened + k \in Nat
  BY DEF Row
<1> QED BY <1>1 DEF Added, Row

LEMMA DatedType ==
  ASSUME NEW r \in Row, NEW p \in BOOLEAN, NEW c \in Nat
  PROVE  [r EXCEPT !.played = p, !.changed = c] \in Row
  BY DEF Row

LEMMA AddedHere ==
  ASSUME NEW r \in Row, NEW k \in Nat, NEW b \in Nat
  PROVE  Added(r, k, b).here <=> r.here
<1>1. r.listened + k \in Nat
  BY DEF Row
<1> QED BY <1>1 DEF Added, Row

\* What a request sees when it commits: the row, there, with its seconds added
\* if it holds it.
LEMMA SeesFacts ==
  ASSUME ListeningConsistent, NEW d \in Devices, request[d].pc \in {"judge", "write"}
  PROVE  /\ Sees(d) \in Row /\ Sees(d).here
         /\ Sees(d).listened = row.listened + request[d].body.listened
         /\ ~Mine(d) => Sees(d) = row
<1> DEFINE base == IF row.here THEN row ELSE NewRow(request[d].began)
<1>1. /\ LockedIsCurrent(d) /\ FoundStays(d) /\ row \in Row
      /\ request[d].body.listened \in {0, 1} /\ request[d].began \in Nat
      /\ request[d].loaded \in Row
  BY RequestFields DEF ListeningConsistent, TypeOK
<1>2. CASE Mine(d)
  <2>1. Sees(d) = Added(base, request[d].body.listened, request[d].began)
    BY <1>1, <1>2 DEF Sees, LockedIsCurrent
  <2>2. base \in Row /\ base.here /\ base.listened = row.listened
    BY <1>1, NewRowFacts DEF ListeningConsistent, NewRow, NoRow
  <2> HIDE DEF base
  <2>3. request[d].body.listened \in Nat
    BY <1>1
  <2>4. /\ Sees(d) \in Row /\ (Sees(d).here <=> base.here)
        /\ Sees(d).listened = base.listened + request[d].body.listened
    <3>1. Sees(d) \in Row
      BY <1>1, <2>1, <2>2, <2>3, AddedType
    <3>2. Sees(d).here <=> base.here
      <4>1. Added(base, request[d].body.listened, request[d].began).here <=> base.here
        BY <1>1, <2>2, <2>3, AddedHere, Zenon
      <4> QED BY <4>1, <2>1, Zenon
    <3>3. Sees(d).listened = base.listened + request[d].body.listened
      BY <1>1, <2>1, <2>2, <2>3, AddedFacts
    <3> QED BY <3>1, <3>2, <3>3
  <2> QED BY <1>2, <2>2, <2>4
<1>3. CASE ~Mine(d)
  <2>1. request[d].body.listened = 0 /\ row.here
    BY <1>1, <1>3 DEF LockedIsCurrent, Counted, FoundStays
  <2> QED BY <1>1, <1>3, <2>1 DEF Sees, Row
<1> QED BY <1>2, <1>3

LEMMA DiscardStep ==
  ASSUME ListeningConsistent, TypeOK', NEW d \in Devices, Discard(d)
  PROVE  ListeningConsistent'
<1>1. request[d].pc = "judge" /\ Commits(d, Sees(d))
  BY DEF Discard
<1>2. Sees(d) = row \/ CanLock(d)
  BY <1>1, SeesFacts DEF Mine, CanLock
<1> QED BY <1>1, <1>2, SeesFacts, CommitStep

LEMMA WriteStep ==
  ASSUME ListeningConsistent, TypeOK', NEW d \in Devices, Write(d)
  PROVE  ListeningConsistent'
<1> DEFINE new == Flushed(request[d].loaded, request[d].next, Sees(d), request[d].began)
<1>1. /\ request[d].pc = "write" /\ Commits(d, new)
      /\ request[d].next # request[d].loaded => CanLock(d)
  BY DEF Write
<1>2. /\ request[d].loaded \in Row /\ request[d].next \in Row /\ request[d].began \in Nat
      /\ Sees(d) \in Row
  BY <1>1, RequestFields, SeesFacts DEF ListeningConsistent
<1>3. new \in Row /\ (new.here <=> Sees(d).here) /\ new.listened = Sees(d).listened
  <2>1. new \in Row
    BY <1>2, FlushedType
  <2>2. new.here <=> Sees(d).here
    BY <1>2, FlushedHere, Zenon
  <2>3. new.listened = Sees(d).listened
    BY <1>2, FlushedTotal
  <2> QED BY <2>1, <2>2, <2>3
<1>4. new = row \/ CanLock(d)
  BY <1>1, SeesFacts DEF Flushed, Mine, CanLock
<1> HIDE DEF new
<1> QED BY <1>1, <1>3, <1>4, SeesFacts, CommitStep

LEMMA MarkStep ==
  ASSUME ListeningConsistent, TypeOK', NEW d \in Devices, Mark(d)
  PROVE  ListeningConsistent'
<1> DEFINE played == request[d].body.played
           loaded == request[d].loaded
           next == [loaded EXCEPT !.played = played]
           flushed == Flushed(loaded, next, row, request[d].began)
           inserted == [NewRow(request[d].began) EXCEPT !.played = TRUE]
           new == IF request[d].existed THEN flushed
                  ELSE IF played /\ ~row.here THEN inserted ELSE row
<1>1. /\ request[d].pc = "mark" /\ Commits(d, new)
      /\ loaded.played # played => CanLock(d)
  BY Zenon DEF Mark
<1>2. /\ played \in BOOLEAN /\ request[d].body.listened = 0
      /\ ~request[d].existed => ~loaded.played
      /\ request[d].existed => row.here
      /\ row \in Row /\ loaded \in Row /\ request[d].began \in Nat
  BY <1>1, RequestFields DEF ListeningConsistent, FoundStays, TypeOK
<1>3. flushed \in Row /\ (flushed.here <=> row.here) /\ flushed.listened = row.listened
  <2>1. next \in Row
    BY <1>2 DEF Row
  <2>2. flushed \in Row
    BY <1>2, <2>1, FlushedType
  <2>3. flushed.here <=> row.here
    BY <1>2, <2>1, FlushedHere, Zenon
  <2>4. flushed.listened = row.listened
    BY <1>2, <2>1, FlushedTotal
  <2> QED BY <2>2, <2>3, <2>4
<1>4. loaded.played = played => flushed = row
  <2>1. loaded.played = played => next = loaded
    BY <1>2 DEF Row
  <2> QED BY <2>1 DEF Flushed
<1>5. inserted \in Row /\ inserted.here /\ inserted.listened = 0
  <2>1. NewRow(request[d].began) \in Row /\ NewRow(request[d].began).here
        /\ NewRow(request[d].began).listened = 0
    BY <1>2, NewRowFacts DEF NewRow, NoRow
  <2> QED BY <2>1 DEF Row
<1>6. ~row.here => row = NoRow /\ row.listened = 0
  BY DEF ListeningConsistent, NoRow
<1> HIDE DEF flushed, inserted
<1>7. new \in Row /\ new.listened = row.listened + request[d].body.listened
  BY <1>2, <1>3, <1>5, <1>6 DEF Row
<1>8. new = row \/ CanLock(d)
  BY <1>1, <1>2, <1>4, Zenon
<1>9. (row.here => new.here) /\ (~new.here => new = NoRow)
  BY <1>2, <1>3, <1>5, <1>6
<1> HIDE DEF new
<1> QED BY <1>1, <1>7, <1>8, <1>9, CommitStep

-----------------------------------------------------------------------------
(* The results                                                             *)

LEMMA ConsistentInit == Init => ListeningConsistent
<1> SUFFICES ASSUME Init PROVE ListeningConsistent
  OBVIOUS
<1>1. row \in Row /\ (~row.here => row = NoRow) /\ row.listened = 0
  <2>1. CASE row = NoRow
    BY <2>1, NewRowFacts DEF NoRow
  <2>2. ASSUME NEW p \in BOOLEAN, NEW c \in {0, 1},
               row = Left(p, c)
        PROVE  row \in Row /\ row.here /\ row.listened = 0
    <3>1. NewRow(1) \in Row /\ NewRow(1).here
      BY NewRowFacts
    <3>2. NewRow(1).listened = 0
      BY DEF NewRow, NoRow
    <3>3. row \in Row
      <4>1. c \in Nat
        OBVIOUS
      <4> QED BY <2>2, <3>1, <4>1, DatedType DEF Left
    <3>4. row.here
      BY <2>2, <3>1 DEF Row, Left
    <3>5. row.listened = 0
      BY <2>2, <3>1, <3>2 DEF Row, Left
    <3> QED BY <3>3, <3>4, <3>5
  <2>3. row = NoRow \/ \E p \in BOOLEAN, c \in {0, 1} : row = Left(p, c)
    BY DEF Init
  <2> QED BY <2>1, <2>2, <2>3, Zenon
<1>2. TypeOK /\ CountedOnce
  BY <1>1, IdleFacts DEF Init, TypeOK, CountedOnce
<1>3. ASSUME NEW d \in Devices PROVE Sound(d)
  <2>1. request[d] = Idle /\ ~Mine(d)
    BY DEF Init, Mine
  <2> QED BY <2>1, IdleFacts DEF Sound, LockedIsCurrent, WritesWhole, FoundStays, Counted
<1> QED BY <1>1, <1>2, <1>3, Zenon DEF ListeningConsistent, Sound

LEMMA ConsistentStep == ListeningConsistent /\ [Next]_vars => ListeningConsistent'
<1> SUFFICES ASSUME ListeningConsistent, [Next]_vars PROVE ListeningConsistent'
  OBVIOUS
<1>1. TypeOK'
  BY TypeStep DEF ListeningConsistent
<1>2. CASE UNCHANGED vars
  BY <1>2 DEF vars, ListeningConsistent, TypeOK, CountedOnce, LockedIsCurrent, WritesWhole,
              FoundStays, Counted, Mine, Stored, Laid
<1>3. CASE Tick
  BY <1>1, <1>3 DEF Tick, ListeningConsistent, CountedOnce, LockedIsCurrent, WritesWhole,
                    FoundStays, Counted, Mine, Stored, Laid
<1> QED
  BY <1>1, <1>2, <1>3, BeginStep, BeginMarkStep, InsertStep, CountStep, DiscardStep, AcceptStep,
     WriteStep, MarkStep, AbortStep DEF Next, Update

\* The inductive invariant: the types, the total, and what each request under
\* way may believe of the row (episode_routes.py:338-412, feed_routes.py:288-354).
THEOREM ListeningAlwaysConsistent == Spec => []ListeningConsistent
  BY ConsistentInit, ConsistentStep, PTL DEF Spec

\* Every second that was reported and answered is in the total, exactly once.
THEOREM ListeningCountsOnce == Spec => []CountedOnce
<1>1. ListeningConsistent => CountedOnce
  BY DEF ListeningConsistent
<1> QED BY <1>1, ListeningAlwaysConsistent, PTL

\* A request that holds the row and found it there has what stands, its own
\* seconds added.
LEMMA HeldFacts ==
  ASSUME ListeningConsistent, NEW d \in Devices, Counted(d), request[d].existed
  PROVE  /\ Mine(d) /\ row \in Row /\ request[d].body.listened \in Nat
         /\ request[d].began \in Nat
         /\ request[d].loaded = Added(row, request[d].body.listened, request[d].began)
         /\ Sees(d) = request[d].loaded
<1>1. LockedIsCurrent(d) /\ FoundStays(d) /\ row \in Row
  BY DEF ListeningConsistent, TypeOK
<1>2. request[d].body.listened \in Nat /\ request[d].began \in Nat
  BY RequestFields DEF ListeningConsistent
<1> QED BY <1>1, <1>2 DEF LockedIsCurrent, FoundStays, Counted, Sees

LEMMA LaidFields ==
  ASSUME NEW body \in Body, NEW r \in Row, NEW n \in Row, n = Laid(body, r, n.changed)
  PROVE  n.listened = r.listened /\ n.updated = r.updated
  BY DEF Laid, Row

LEMMA LaidHere ==
  ASSUME NEW body \in Body, NEW r \in Row, NEW n \in Row, n = Laid(body, r, n.changed)
  PROVE  n.here = r.here
  BY DEF Laid, Row

LEMMA StoredChanged ==
  ASSUME NEW r \in Row, NEW k \in Nat, NEW b \in Nat, r.changed # 0
  PROVE  Stored(Added(r, k, b)) = r.changed /\ Stored(r) = r.changed
  BY AddedFacts DEF Stored

\* What takes a request to its answer is its own commit.
LEMMA AnsweredByItself ==
  ASSUME ListeningConsistent, [Next]_vars, NEW d \in Devices, Counted(d),
         request'[d].pc = "idle", heard' # heard
  PROVE  Discard(d) \/ Write(d)
<1>1. request[d].pc \in {"judge", "write"}
  BY DEF Counted
<1>2. PICK e \in Devices : Discard(e) \/ Write(e) \/ Mark(e)
  BY DEF Next, Update, vars, Tick, Begin, BeginMark, Insert, Count, Accept, Abort
<1>3. request' = [request EXCEPT ![e] = Idle]
  BY <1>2 DEF Discard, Write, Mark, Commits
<1>4. e = d
  BY <1>1, <1>3 DEF ListeningConsistent, TypeOK
<1> QED BY <1>1, <1>2, <1>4 DEF Mark

LEMMA TakenWholeStep == ListeningConsistent /\ [Next]_vars => \A d \in Devices : TakenWhole(d)
<1> SUFFICES ASSUME ListeningConsistent, [Next]_vars, NEW d \in Devices,
                    Counted(d), request[d].existed, row.changed # 0,
                    request'[d].pc = "idle", heard' # heard
             PROVE  LET body == request[d].body
                        added == Added(row, body.listened, request[d].began)
                    IN IF request[d].pc = "judge" THEN Stale(body, row) /\ row' = added
                       ELSE /\ row' = Laid(body, added, row'.changed)
                            /\ body.made # 0 => row'.changed + Tolerance >= row.changed
  BY Zenon DEF TakenWhole
<1> DEFINE body == request[d].body
           added == Added(row, body.listened, request[d].began)
<1>1. request[d].loaded = added /\ Sees(d) = added
  BY HeldFacts
<1>2. Stored(added) = row.changed /\ Stored(row) = row.changed
  BY HeldFacts, StoredChanged
<1>3. CASE Discard(d)
  <2>1. request[d].pc = "judge" /\ Stale(body, added) /\ row' = added
    BY <1>1, <1>3 DEF Discard, Commits
  <2>2. Stale(body, row)
    BY <1>2, <2>1 DEF Stale
  <2> QED BY <2>1, <2>2
<1>4. CASE Write(d)
  <2> DEFINE next == request[d].next
  <2>1. /\ request[d].pc = "write"
        /\ row' = Flushed(added, next, added, request[d].began)
    BY <1>1, <1>4 DEF Write, Commits
  <2>2. /\ next = Laid(body, added, next.changed)
        /\ body.made # 0 => next.changed + Tolerance >= row.changed
    BY <1>1, <1>2, <2>1, Zenon DEF ListeningConsistent, WritesWhole
  <2>3. /\ added \in Row /\ next \in Row /\ body \in Body /\ request[d].began \in Nat
        /\ added.updated = request[d].began
    BY <1>1, HeldFacts, RequestFields, AddedFacts DEF ListeningConsistent
  <2> HIDE DEF added, next, body
  <2>4. next.listened = added.listened /\ next.updated = added.updated
    BY <2>2, <2>3, LaidFields
  <2>5. next.here = added.here
    BY <2>2, <2>3, LaidHere
  <2>6. row' = next
    BY <2>1, <2>3, <2>4, <2>5, FlushedOver
  <2> QED BY <2>1, <2>2, <2>6, Zenon DEF added, body
<1> QED BY <1>3, <1>4, AnsweredByItself

\* A report with listening is discarded or laid over the row as a whole, by
\* what stands when it is stored: the judgement, the load and the write are
\* separate statements, but the total's UPDATE has locked the row before them.
THEOREM ListeningIsAtomic == Spec => CountedIsAtomic
  BY ListeningAlwaysConsistent, TakenWholeStep, PTL DEF Spec, CountedIsAtomic
=============================================================================
