------------------------------- MODULE Timeline -------------------------------
(***************************************************************************)
(* One listener's place in one episode, stored on the original's clock and *)
(* handed to a player on the clock of the copy it is served.  Audio is     *)
(* measured in ticks, of which Second make a second; positions are whole   *)
(* seconds, as in the tables and the API.                                  *)
(***************************************************************************)
EXTENDS Integers, Sequences, FiniteSets

CONSTANTS
  Second,      \* ticks
  Length,      \* of the original, in ticks
  Survives,    \* SILENCE_SURVIVES_SECONDS
  Window,      \* DETECTION_WINDOW_SECONDS
  Slack,       \* what map_is_credible forgives
  None,
  MaxSilences, \* bound: silences in an episode
  MaxMakes     \* bound: copies made

VARIABLES
  episode,   \* processed_path, trim_map_json and the two durations
  silences,  \* what silencedetect reports of the original, (start, end) in order
  stored,    \* position_seconds
  player,    \* audio_version and the second it shows; None with nothing loaded
  cuts,      \* history: what is missing from the copy the player holds
  makes

vars == <<episode, silences, stored, player, cuts, makes>>

\* Silences in the order the file has them, apart from one another.
Silences == UNION {[1..n -> (0..Length) \X (0..Length)] : n \in 0..MaxSilences}
InOrder(s) == \A i \in DOMAIN s : /\ s[i][1] < s[i][2]
                                  /\ i > 1 => s[i-1][2] < s[i][1]

-----------------------------------------------------------------------------
(* jobs/audio.py: the map                                                   *)

\* A leading silence is left whole, any other loses what does not survive.
IsCut(s) == s[1] > Window /\ s[2] - s[1] > Survives
RemovedFromSilences(sil) ==
  LET cut[i \in 0..Len(sil)] ==
        IF i = 0 THEN <<>>
        ELSE IF IsCut(sil[i]) THEN Append(cut[i-1], <<sil[i][1] + Survives, sil[i][2]>>)
        ELSE cut[i-1]
  IN  cut[Len(sil)]

Total(ns) ==
  LET sum[i \in 0..Len(ns)] == IF i = 0 THEN 0 ELSE sum[i-1] + ns[i]
  IN  sum[Len(ns)]
RemovedInAll(removed) == Total([i \in DOMAIN removed |-> removed[i][2] - removed[i][1]])

Distance(m, n) == IF m > n THEN m - n ELSE n - m

MapIsCredible(removed, source, processed) ==
  /\ source # None /\ processed # None
  /\ Distance(source - RemovedInAll(removed), processed) <= Slack

-----------------------------------------------------------------------------
(* timeline.py                                                              *)

GoneOrKept(t, cut) ==   \* mutant: a moment inside a cut keeps its place
  IF cut[2] <= t THEN cut[2] - cut[1] ELSE 0

\* How much of a cut comes before a moment: one inside it lands where the cut was.
Gone(t, cut) ==
  IF cut[2] <= t THEN cut[2] - cut[1] ELSE IF cut[1] < t THEN t - cut[1] ELSE 0

ToProcessed(t, removed) == t - Total([i \in DOMAIN removed |-> Gone(t, removed[i])])

ToOriginal(t, removed) ==
  LET gone[i \in 0..Len(removed)] ==
        IF i = 0 THEN 0
        ELSE IF t <= removed[i][1] - gone[i-1] THEN gone[i-1]
        ELSE gone[i-1] + removed[i][2] - removed[i][1]
  IN  t + gone[Len(removed)]

ServedVersion(e) == IF e.path THEN "p" ELSE "o"

HasRatio(e) ==
  /\ e.source # None /\ e.processed # None
  /\ e.source > 0 /\ e.processed > 0 /\ e.processed < e.source

\* Python's round: to the nearest, a half to the even one.
Round(m, n) ==
  LET q == m \div n
      r == 2 * (m % n)
  IN  IF r < n \/ (r = n /\ q % 2 = 0) THEN q ELSE q + 1

OutboundRounded(e, s) ==   \* mutant: to the nearest second
  IF ServedVersion(e) # "p" THEN s
  ELSE IF e.map # None THEN Round(ToProcessed(s * Second, e.map), Second)
  ELSE IF HasRatio(e) THEN Round(s * e.processed, e.source)
  ELSE s

Outbound(e, s) ==
  IF ServedVersion(e) # "p" THEN s
  ELSE IF e.map # None THEN ToProcessed(s * Second, e.map) \div Second
  ELSE IF HasRatio(e) THEN (s * e.processed) \div e.source
  ELSE s

InboundFloor(e, s, version) ==   \* mutant: cut off, not rounded
  IF version # "p" \/ ~e.path THEN s
  ELSE IF e.map # None THEN ToOriginal(s * Second, e.map) \div Second
  ELSE IF HasRatio(e) THEN (s * e.source) \div e.processed
  ELSE s

\* A player that names no copy is taken to hold the one served; this one names it.
Inbound(e, s, version) ==
  IF version # "p" \/ ~e.path THEN s
  ELSE IF e.map # None THEN Round(ToOriginal(s * Second, e.map), Second)
  ELSE IF HasRatio(e) THEN Round(s * e.source, e.processed)
  ELSE s

\* The two migrations: positions went to the trimmed clock, then back.
Rescaled(e, s) == IF e.path /\ HasRatio(e) THEN (s * e.processed) \div e.source ELSE s
Restored(e, s) == IF e.path /\ HasRatio(e) THEN (s * e.source) \div e.processed ELSE s

-----------------------------------------------------------------------------
(* The player and the processing around it                                  *)

Plain == [path |-> FALSE, map |-> None, source |-> None, processed |-> None]

Init ==
  /\ silences \in {s \in Silences : InOrder(s)}
  /\ episode = Plain
  /\ stored \in 0..(Length \div Second)
  /\ player = None /\ cuts = <<>>
  /\ makes = 0

\* process_episode: the file's length is what it is; silencedetect and the filter are two
\* filters and may disagree, and ffprobe or silencedetect may not answer.
Make ==
  LET removed == RemovedFromSilences(silences) IN
  /\ makes < MaxMakes
  /\ makes' = makes + 1
  /\ \E processed \in {None, Length - RemovedInAll(removed), Length} :
       episode' = [path |-> TRUE, source |-> Length, processed |-> processed,
                   map |-> IF MapIsCredible(removed, Length, processed) THEN removed ELSE None]
  /\ UNCHANGED <<silences, stored, player, cuts>>

\* drop_processed: the measured source is kept.
Drop ==
  /\ episode.path
  /\ episode' = [Plain EXCEPT !.source = episode.source]
  /\ UNCHANGED <<silences, stored, player, cuts, makes>>

\* A player that is asked to start past the end starts at the end.
Load ==
  LET missing == IF episode.path THEN RemovedFromSilences(silences) ELSE <<>>
      last == (Length - RemovedInAll(missing)) \div Second
      asked == Outbound(episode, stored)
  IN
  /\ player' = [version |-> ServedVersion(episode), at |-> IF asked <= last THEN asked ELSE last]
  /\ cuts' = missing
  /\ UNCHANGED <<episode, silences, stored, makes>>

Play ==
  /\ player # None
  /\ (player.at + 1) * Second <= Length - RemovedInAll(cuts)
  /\ player' = [player EXCEPT !.at = @ + 1]
  /\ UNCHANGED <<episode, silences, stored, cuts, makes>>

Report ==
  /\ player # None
  /\ stored' = Inbound(episode, player.at, player.version)
  /\ UNCHANGED <<episode, silences, player, cuts, makes>>

Next == Make \/ Drop \/ Load \/ Play \/ Report

Spec == Init /\ [][Next]_vars

-----------------------------------------------------------------------------
(* Properties.  The reference is the audio itself: the ticks of the original *)
(* that are in the copy.                                                     *)

Kept(removed) == {t \in 0..(Length - 1) : \A i \in DOMAIN removed :
                                            t < removed[i][1] \/ t >= removed[i][2]}

\* How much of the copy comes before a moment of the original.
Before(removed, t) == Cardinality({u \in Kept(removed) : u < t})

TimelineTypeOK ==
  /\ episode.path \in BOOLEAN
  /\ episode.map # None => InOrder(episode.map)
  /\ stored \in 0..(Length \div Second + 1)
  /\ player # None => player.version \in {"o", "p"} /\ player.at \in 0..(Length \div Second)
  /\ makes \in 0..MaxMakes

(* timeline.py: the two clocks are those of the audio that was kept, there and back.         *)
ClocksAgree ==
  LET removed == RemovedFromSilences(silences) IN
  \A t \in 0..Length :
    /\ ToProcessed(t, removed) = Before(removed, t)
    /\ t <= Cardinality(Kept(removed)) => Before(removed, ToOriginal(t, removed)) = t

Trusted == episode.path /\ episode.map # None

(* Opening an episode where it was left replays less than a second of it and skips none.     *)
OpenedWhereLeft ==
  Load /\ Trusted => LET there == player'.at * Second
                         left == Before(cuts', stored * Second)
                     IN  there <= left /\ left < there + Second
OpensWhereLeft == [][OpenedWhereLeft]_vars

(* timeline.py: a report is stored on the original's clock, within half a second of what was *)
(* heard, if the copy it was heard on is still the one the row describes.                    *)
KeptWhereHeard ==
  Report /\ player.version = "p" /\ Trusted
    => 2 * Distance(Before(cuts, stored' * Second), player.at * Second) <= Second
StoredWhereHeard == [][KeptWhereHeard]_vars

(* a3c6e9f2d581: what a client is handed moves by at most a second when the positions the    *)
(* first migration moved are moved back.                                                     *)
MigrationsKeepPlace ==
  \A s \in 0..(Length \div Second) :
    LET unmapped == [episode EXCEPT !.map = None]
        handed == Rescaled(unmapped, s)
    IN  episode.path /\ s * Second <= Length
          => Distance(Outbound(unmapped, Restored(unmapped, handed)), handed) <= 1

TimelineConsistent == TimelineTypeOK /\ ClocksAgree /\ MigrationsKeepPlace
=============================================================================
