------------------------------- MODULE Serving -------------------------------
(***************************************************************************)
(* One episode's audio behind its stream URL, while its copies come and    *)
(* go and a player asks for ranges of bytes.  The player remembers a       *)
(* length, and the URL it was given when it loaded the episode.            *)
(***************************************************************************)
EXTENDS Integers, FiniteSets

CONSTANTS
  OriginalSize, UpstreamSize,   \* bytes
  MadeSizes,                    \* what a processed copy may come to
  None,
  MaxMakes, MaxSeeks, MaxLosses \* bounds

VARIABLES
  disk,    \* what is at local_path ("o") and processed_path ("p"): which file, how long
  named,   \* which of the two columns are set
  player,  \* URL, next byte, the length it believes, the files it heard since it loaded
  reply,   \* a response whose headers are out and whose body is not
  lost,    \* history: copies removed or overwritten since the player loaded
  makes, seeks, losses

vars == <<disk, named, player, reply, lost, makes, seeks, losses>>

Versions == {"o", "p"}
Original == [id |-> 0, size |-> OriginalSize]
Upstream == [id |-> -1, size |-> UpstreamSize]

OffPlayer == [url |-> None, at |-> 0, size |-> None, heard |-> {}]

Init ==
  /\ disk = [v \in Versions |-> None] /\ named = {}
  /\ player = OffPlayer /\ reply = None
  /\ lost = {} /\ makes = 0 /\ seeks = 0 /\ losses = 0

-----------------------------------------------------------------------------
(* streaming.py and media_routes.py                                         *)

Served(v) == v \in named /\ disk[v] # None

\* The processed copy where there is one.
PreferredCopy ==
  IF Served("p") THEN "p" ELSE IF Served("o") THEN "o" ELSE None

CopyOfTheDay(url) == PreferredCopy   \* mutant: the token is not looked at

\* The copy the URL names, or the preferred one: a copy since deleted falls back.
CopyForToken(url) == IF url \in Versions /\ Served(url) THEN url ELSE PreferredCopy

StreamUrl == IF PreferredCopy = None THEN "bare" ELSE PreferredCopy

\* A header as its two numbers, None where the client wrote none; no header at all has neither.
Headers(size) == [first : (0..size) \cup {None}, last : (0..size) \cup {None}]
NoRange == [first |-> None, last |-> None]

\* The status and the bytes, first to last.
Whole(size) == [status |-> 200, first |-> 0, last |-> size - 1]
Partial(start, end) == [status |-> 206, first |-> start, last |-> end]
Refused(status) == [status |-> status, first |-> 0, last |-> -1]

\* Where a range begins and ends by its header, the file's end where the header names none.
StartOf(h, size) == IF h.first # None THEN h.first
                    ELSE IF h.last > size THEN 0 ELSE size - h.last
EndOf(h, size) == IF h.first = None \/ h.last = None THEN size - 1 ELSE h.last

ParseRangeUncapped(h, size) ==   \* mutant: the end asked for, there or not
  IF h = NoRange THEN None
  ELSE IF h.first = None /\ h.last = 0 THEN Refused(416)
  ELSE IF StartOf(h, size) >= size \/ StartOf(h, size) > EndOf(h, size) THEN None
  ELSE Partial(StartOf(h, size), EndOf(h, size))

\* What parse_range hands back: None for a header it leaves to the response.
ParseRange(h, size) ==
  IF h = NoRange THEN None
  ELSE IF h.first = None /\ h.last = 0 THEN Refused(416)
  ELSE IF StartOf(h, size) >= size \/ StartOf(h, size) > EndOf(h, size) THEN None
  ELSE Partial(StartOf(h, size), IF EndOf(h, size) < size - 1 THEN EndOf(h, size) ELSE size - 1)

\* Starlette's response for a file reads the Range header for itself.
FileResponse(h, size) ==
  IF h = NoRange THEN Whole(size)
  ELSE IF h.first >= size THEN Refused(416) ELSE Refused(400)

\* _serve_local: the size is read now, the file opened when the body starts.
LocalPart(h, size) ==
  IF ParseRange(h, size) = None THEN FileResponse(h, size) ELSE ParseRange(h, size)
ServeLocal(v, h) == [from |-> v, size |-> disk[v].size, part |-> LocalPart(h, disk[v].size)]

\* _proxy_origin: whatever the publisher answers; a refusal becomes a 502.
ProxyOrigin(h) ==
  {[from |-> "u", size |-> UpstreamSize, part |-> part] :
     part \in {Whole(UpstreamSize), Refused(502)}
       \cup {Partial(f, UpstreamSize - 1) : f \in {h.first} \cap (0..(UpstreamSize - 1))}}

Answers(url, h) ==
  LET v == CopyForToken(url) IN IF v = None THEN ProxyOrigin(h) ELSE {ServeLocal(v, h)}

-----------------------------------------------------------------------------
(* The files: a worker's download, an encode, and what removes them         *)

Download ==
  /\ disk["o"] = None
  /\ disk' = [disk EXCEPT !["o"] = Original]
  /\ UNCHANGED <<named, player, reply, lost, makes, seeks, losses>>

\* process_episode puts a copy under the target's name, over the one before it if any.
MakeCopy(size) ==
  /\ disk["o"] # None /\ makes < MaxMakes
  /\ disk' = [disk EXCEPT !["p"] = [id |-> makes + 1, size |-> size]]
  /\ makes' = makes + 1
  /\ lost' = lost \cup {v \in {"p"} : disk[v] # None}
  /\ UNCHANGED <<named, player, reply, seeks, losses>>

Name(v) ==
  /\ disk[v] # None /\ v \notin named
  /\ named' = named \cup {v}
  /\ UNCHANGED <<disk, player, reply, lost, makes, seeks, losses>>

\* drop_processed and purge_episode unlink, and the row is committed after.
Remove(v) ==
  /\ disk[v] # None /\ losses < MaxLosses
  /\ v = "o" => disk["p"] = None
  /\ disk' = [disk EXCEPT ![v] = None]
  /\ lost' = lost \cup {v}
  /\ losses' = losses + 1
  /\ UNCHANGED <<named, player, reply, makes, seeks>>

Forget(v) ==
  /\ v \in named /\ disk[v] = None
  /\ named' = named \ {v}
  /\ UNCHANGED <<disk, player, reply, lost, makes, seeks, losses>>

-----------------------------------------------------------------------------
(* The player                                                               *)

Load ==
  /\ player.url = None
  /\ player' = [OffPlayer EXCEPT !.url = StreamUrl]
  /\ lost' = {}
  /\ UNCHANGED <<disk, named, reply, makes, seeks, losses>>

Ended == player.url # None /\ player.size # None /\ player.at >= player.size

\* From the next byte on, or only a probe of it, or at the start with no range at all.
Asks == {[first |-> player.at, last |-> last] : last \in {None, player.at}}
        \cup (IF player.at = 0 THEN {NoRange} ELSE {})

Request ==
  /\ player.url # None /\ reply = None /\ ~Ended
  /\ \E h \in Asks : \E r \in Answers(player.url, h) : reply' = r
  /\ UNCHANGED <<disk, named, player, lost, makes, seeks, losses>>

\* The body is read from whatever is under the name by then.
Source == IF reply.from = "u" THEN Upstream ELSE disk[reply.from]

Heard(src) == [player EXCEPT !.heard = @ \cup {src.id}]

Receive ==
  /\ reply # None /\ reply.part.status = 206 /\ Source # None
  /\ LET n == IF reply.part.last < Source.size THEN reply.part.last ELSE Source.size - 1
     IN  player' = [Heard(Source) EXCEPT !.size = reply.size,
                      !.at = IF n >= reply.part.first THEN n + 1 ELSE @]
  /\ reply' = None
  /\ UNCHANGED <<disk, named, lost, makes, seeks, losses>>

\* The whole file: a length to believe, and the audio up to the end of what is there by then.
ReceiveWhole ==
  /\ reply # None /\ reply.part.status = 200 /\ Source # None
  /\ player' = [Heard(Source) EXCEPT !.size = reply.size,
                   !.at = IF Source.size < reply.size THEN Source.size ELSE reply.size]
  /\ reply' = None
  /\ UNCHANGED <<disk, named, lost, makes, seeks, losses>>

\* The file went before its first byte was read; or iOS, as media_routes.py:77 describes it, on
\* a refusal: no new length, and the same request again.
Again ==
  /\ reply # None
  /\ reply.part.status \in {400, 416} \/ (reply.part.status \in {200, 206} /\ Source = None)
  /\ reply' = None
  /\ UNCHANGED <<disk, named, player, lost, makes, seeks, losses>>

\* The publisher failed: the player gives up and may load the episode again.
Unavailable ==
  /\ reply # None /\ reply.part.status = 502
  /\ reply' = None /\ player' = OffPlayer /\ lost' = {}
  /\ UNCHANGED <<disk, named, makes, seeks, losses>>

Seek(n) ==
  /\ player.url # None /\ reply = None /\ player.size # None
  /\ seeks < MaxSeeks /\ n < player.size
  /\ player' = [player EXCEPT !.at = n]
  /\ seeks' = seeks + 1
  /\ UNCHANGED <<disk, named, reply, lost, makes, losses>>

Unload ==
  /\ Ended /\ reply = None
  /\ player' = OffPlayer /\ lost' = {}
  /\ UNCHANGED <<disk, named, reply, makes, seeks, losses>>

-----------------------------------------------------------------------------
Transfer == Request \/ Receive \/ ReceiveWhole \/ Again \/ Unavailable

Files == \/ Download \/ (\E s \in MadeSizes : MakeCopy(s))
         \/ \E v \in Versions : Name(v) \/ Remove(v) \/ Forget(v)

Next == Transfer \/ Files \/ Load \/ Unload \/ (\E n \in 0..UpstreamSize : Seek(n))

Spec == Init /\ [][Next]_vars

\* A player that is on asks for more, and every exchange ends.
Fairness == WF_vars(Transfer)
FairSpec == Spec /\ Fairness

-----------------------------------------------------------------------------
(* Properties                                                               *)

ServingTypeOK ==
  /\ named \subseteq Versions
  /\ \A v \in Versions : disk[v] = None \/ disk[v].size \in MadeSizes \cup {OriginalSize}
  /\ player.url \in Versions \cup {"bare", None} /\ player.at \in 0..UpstreamSize
  /\ reply = None \/ reply.part.status \in {200, 206, 400, 416, 502}

(* media_routes.py:42, 110: of whatever file is there, a range gets the bytes that were      *)
(* asked for and exist, no header gets the whole file, and a range that asks for nothing     *)
(* that exists is refused.                                                                   *)
RangeIsWhatWasAsked ==
  \A v \in Versions : disk[v] # None =>
    LET size == disk[v].size IN
    \A h \in Headers(UpstreamSize) :
      LET asked == {b \in 0..(size - 1) :
                      IF h.first = None THEN h.last # None /\ b >= size - h.last
                      ELSE b >= h.first /\ (h.last # None => b <= h.last)}
          r == LocalPart(h, size)
      IN  /\ r.status = 200 <=> h = NoRange
          /\ r.status \in {400, 416} <=> h # NoRange /\ asked = {}
          /\ r.status = 206 => asked = r.first..r.last /\ asked # {}

ServingConsistent == ServingTypeOK /\ RangeIsWhatWasAsked

(* streaming.py:21: a player that started on one copy keeps being handed that copy, though   *)
(* another lands, until the one it was loaded from is itself removed or made anew.           *)
NothingChangesUnderneath ==
  player.url \in Versions /\ Cardinality(player.heard) > 1 => player.url \in lost

AtRest == player.url = None \/ Ended

\* What it was loaded from is not what it is sent now, and is shorter.
Stranded ==
  /\ player.url \in lost \cup {"bare"}
  /\ \E v \in Versions : v = CopyForToken(player.url) /\ player.at >= disk[v].size

(* streaming.py:21, media_routes.py:42: whatever else happens to the files, a player gets to *)
(* the end of what it plays, unless the copy it was loaded from is removed or made anew, or  *)
(* it was loaded from none, and what is there in its place ends before where the player is.  *)
PlaybackGoesOn == []<>(AtRest \/ Stranded)

(* media_routes.py:74: a player with a stale length is handed the whole current file, which  *)
(* is a length it can believe, and it recovers on its own.                                   *)
RecoversOnItsOwn == []<>AtRest
=============================================================================
