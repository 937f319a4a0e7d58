------------------------------ MODULE MediaProofs ------------------------------
(***************************************************************************)
(* Proofs about Serving, Processing and Timeline: what is sent of an       *)
(* episode's audio while its copies come and go, which recipe a processed  *)
(* copy is made by, and where a listener is on its clock.  For files of    *)
(* any size, any number of copies, workers, episodes, recipes, silences.   *)
(***************************************************************************)
EXTENDS Parts, FiniteSetTheorems, SequenceTheorems, WellFoundedInduction, TLAPS

LEMMA WhoseStays == Next => whose' = whose
BY DEF Next, OnlyProcessing, OnlyTimeline, OnlyServing, OnlyRefreshing, OnlySubscribing,
       OnlySignIn, OnlyQueue, OnlyArtwork, OnlyNotifying

-----------------------------------------------------------------------------
(* Serving                                                                  *)

\* What EXCEPT needs to know.
PlayerShapes ==
  /\ disk = [v \in V!Versions |-> disk[v]]
  /\ player = [url |-> player.url, at |-> player.at, size |-> player.size, heard |-> player.heard]

\* While the copy its URL names has not been lost, a player is served it and nothing else.
KeepsToItsCopy ==
  player.url # None /\ player.url \in V!Versions \ lost =>
    /\ V!Served(player.url)
    /\ player.heard \subseteq {disk[player.url].id}
    /\ reply # None => reply.from = player.url

Attached ==
  /\ PlayerShapes
  /\ player.url = None => reply = None /\ player.heard = {}
  /\ KeepsToItsCopy

LEMMA AttachedInit == V!Init => Attached
BY DEF V!Init, Attached, PlayerShapes, KeepsToItsCopy, V!OffPlayer

\* The files under a player: what is done to another copy, or to one that is not there.
LEMMA FilesKeepAttached ==
  ASSUME Attached, V!Files
  PROVE  Attached'
<1>1. CASE V!Download
  BY <1>1 DEF V!Download, Attached, PlayerShapes, KeepsToItsCopy, V!Served, V!Versions
<1>2. ASSUME NEW s \in MadeSizes, V!MakeCopy(s) PROVE Attached'
  BY <1>2 DEF V!MakeCopy, Attached, PlayerShapes, KeepsToItsCopy, V!Served, V!Versions
<1>3. ASSUME NEW v \in V!Versions, V!Name(v) PROVE Attached'
  BY <1>3 DEF V!Name, Attached, PlayerShapes, KeepsToItsCopy, V!Served, V!Versions
<1>4. ASSUME NEW v \in V!Versions, V!Remove(v) PROVE Attached'
  BY <1>4 DEF V!Remove, Attached, PlayerShapes, KeepsToItsCopy, V!Served, V!Versions
<1>5. ASSUME NEW v \in V!Versions, V!Forget(v) PROVE Attached'
  BY <1>5 DEF V!Forget, Attached, PlayerShapes, KeepsToItsCopy, V!Served, V!Versions
<1> QED
  BY <1>1, <1>2, <1>3, <1>4, <1>5 DEF V!Files

\* A player that names a copy that is there is answered from it.
LEMMA AnsweredFromItsCopy ==
  ASSUME NEW url \in V!Versions, url # None, V!Served(url), NEW h, NEW r \in V!Answers(url, h)
  PROVE  r.from = url
BY DEF V!Answers, V!CopyForToken, V!ServeLocal

LEMMA PlayerKeepsAttached ==
  ASSUME Attached, V!Transfer \/ V!Load \/ V!Unload \/ \E n \in 0..UpstreamSize : V!Seek(n)
  PROVE  Attached'
<1>1. CASE V!Load
  <2>1. V!StreamUrl \in V!Versions => V!Served(V!StreamUrl)
    BY DEF V!StreamUrl, V!PreferredCopy, V!Versions
  <2> QED
    BY <1>1, <2>1 DEF V!Load, Attached, PlayerShapes, KeepsToItsCopy, V!Served, V!OffPlayer
<1>2. CASE V!Request
  <2>1. PICK h, r : r \in V!Answers(player.url, h) /\ reply' = r
    BY <1>2 DEF V!Request
  <2>2. player.url # None /\ player.url \in V!Versions \ lost => r.from = player.url
    BY <1>2, <2>1, AnsweredFromItsCopy DEF V!Request, Attached, KeepsToItsCopy
  <2> QED
    BY <1>2, <2>1, <2>2 DEF V!Request, Attached, PlayerShapes, KeepsToItsCopy, V!Served
<1>3. CASE V!Receive
  <2>1. player'.url = player.url /\ player'.heard = player.heard \cup {V!Source.id}
    BY <1>3 DEF V!Receive, V!Heard, Attached, PlayerShapes
  <2>2. player' = [url |-> player'.url, at |-> player'.at, size |-> player'.size, heard |-> player'.heard]
    BY <1>3 DEF V!Receive, V!Heard, Attached, PlayerShapes
  <2>3. player.url # None /\ player.url \in V!Versions \ lost => V!Source = disk[player.url]
    BY <1>3 DEF V!Receive, V!Source, Attached, KeepsToItsCopy, V!Versions
  <2> QED
    BY <1>3, <2>1, <2>2, <2>3 DEF V!Receive, Attached, PlayerShapes, KeepsToItsCopy, V!Served
<1>4. CASE V!ReceiveWhole
  <2>1. player'.url = player.url /\ player'.heard = player.heard \cup {V!Source.id}
    BY <1>4 DEF V!ReceiveWhole, V!Heard, Attached, PlayerShapes
  <2>2. player' = [url |-> player'.url, at |-> player'.at, size |-> player'.size, heard |-> player'.heard]
    BY <1>4 DEF V!ReceiveWhole, V!Heard, Attached, PlayerShapes
  <2>3. player.url # None /\ player.url \in V!Versions \ lost => V!Source = disk[player.url]
    BY <1>4 DEF V!ReceiveWhole, V!Source, Attached, KeepsToItsCopy, V!Versions
  <2> QED
    BY <1>4, <2>1, <2>2, <2>3 DEF V!ReceiveWhole, Attached, PlayerShapes, KeepsToItsCopy, V!Served
<1>5. CASE V!Again
  BY <1>5 DEF V!Again, Attached, PlayerShapes, KeepsToItsCopy, V!Served
<1>6. CASE V!Unavailable
  BY <1>6 DEF V!Unavailable, Attached, PlayerShapes, KeepsToItsCopy, V!Served, V!OffPlayer
<1>7. ASSUME NEW n \in 0..UpstreamSize, V!Seek(n) PROVE Attached'
  BY <1>7 DEF V!Seek, Attached, PlayerShapes, KeepsToItsCopy, V!Served
<1>8. CASE V!Unload
  BY <1>8 DEF V!Unload, Attached, PlayerShapes, KeepsToItsCopy, V!Served, V!OffPlayer
<1> QED
  BY <1>1, <1>2, <1>3, <1>4, <1>5, <1>6, <1>7, <1>8 DEF V!Transfer

LEMMA AttachedHearsOne == Attached => V!NothingChangesUnderneath
<1> SUFFICES ASSUME Attached, player.url \in V!Versions, player.url \notin lost
             PROVE  ~(Cardinality(player.heard) > 1)
  BY DEF V!NothingChangesUnderneath, V!Cardinality, Cardinality
<1>1. CASE player.url = None
  BY <1>1, FS_EmptySet DEF Attached
<1>2. CASE player.url # None
  <2>1. player.heard \subseteq {disk[player.url].id}
    BY <1>2 DEF Attached, KeepsToItsCopy
  <2>2. player.heard = {} \/ player.heard = {disk[player.url].id}
    BY <2>1
  <2>3. Cardinality({}) = 0 /\ Cardinality({disk[player.url].id}) = 1
    BY FS_EmptySet, FS_Singleton
  <2> QED BY <2>2, <2>3
<1> QED BY <1>1, <1>2

-----------------------------------------------------------------------------
(* Ranges                                                                   *)

LEMMA SizesOnDisk ==
  ASSUME NEW size \in MadeSizes \cup {OriginalSize}
  PROVE  size \in 1..UpstreamSize /\ size \in Nat \ {0}
<1>1. size \in 1..UpstreamSize
  BY ServingAssumption
<1> QED BY <1>1, ServingAssumption

\* What an answer is, of a header that asks for those bytes.
AsAsked(r, h, asked) ==
  /\ r.status = 200 <=> h = V!NoRange
  /\ r.status \in {400, 416} <=> h # V!NoRange /\ asked = {}
  /\ r.status = 206 => asked = r.first..r.last /\ asked # {}

\* media_routes.py:43, 110: parse_range and the response, of any file and any header.
LEMMA RangeOfAnyFile ==
  ASSUME NEW size \in Nat \ {0}, NEW h \in V!Headers(UpstreamSize),
         NEW asked, NEW r, r = V!LocalPart(h, size),
         asked = {b \in 0..(size - 1) :
                    IF h.first = None THEN h.last # None /\ b >= size - h.last
                    ELSE b >= h.first /\ (h.last # None => b <= h.last)}
  PROVE  /\ AsAsked(r, h, asked)
         /\ r.status \in {200, 206, 400, 416} /\ r.first \in Nat /\ r.last \in Int
<1> DEFINE range == V!ParseRange(h, size)
           portions == [status : {206, 416}, first : Nat, last : Int]
<1>0. r = IF range = None THEN V!FileResponse(h, size) ELSE range
  BY DEF V!LocalPart
<1>1. /\ h.first \in Nat \/ h.first = None
      /\ h.last \in Nat \/ h.last = None
      /\ h = [first |-> h.first, last |-> h.last]
  BY ServingAssumption DEF V!Headers
<1>2. CASE h = V!NoRange
  <2>1. h.first = None /\ h.last = None /\ 0 # None
    BY <1>2, ServingAssumption DEF V!NoRange
  <2>2. range = None
    BY <1>2 DEF V!ParseRange
  <2>3. r = V!Whole(size)
    BY <1>0, <1>2, <2>2 DEF V!FileResponse
  <2>4. asked = {}
    BY <2>1
  <2> QED BY <1>2, <2>3, <2>4 DEF V!Whole, AsAsked
<1>3. CASE h.first = None /\ h.last \in Nat
  <2>1. h # V!NoRange
    BY <1>3, ServingAssumption DEF V!NoRange
  <2>2. CASE h.last = 0
    <3>1. range = V!Refused(416) /\ range \in portions
      BY <1>3, <2>1, <2>2 DEF V!ParseRange, V!Refused
    <3>2. r = V!Refused(416)
      BY <1>0, <3>1, ServingAssumption
    <3>3. asked = {}
      BY <1>3, <2>2, ServingAssumption
    <3> QED BY <2>1, <3>2, <3>3 DEF V!Refused, AsAsked
  <2>3. CASE h.last > 0
    <3> DEFINE start == IF h.last > size THEN 0 ELSE size - h.last
    <3>1. V!StartOf(h, size) = start /\ V!EndOf(h, size) = size - 1
      BY <1>3 DEF V!StartOf, V!EndOf
    <3>2. start \in 0..(size - 1)
      BY <1>3, <2>3
    <3>3. range = [status |-> 206, first |-> start, last |-> size - 1]
      BY <1>3, <2>1, <2>3, <3>1, <3>2 DEF V!ParseRange, V!Partial
    <3>4. range \in portions
      BY <3>2, <3>3
    <3>5. r = range
      BY <1>0, <3>4, ServingAssumption
    <3>6. asked = start..(size - 1) /\ size - 1 \in asked
      BY <1>3, <2>3, ServingAssumption
    <3> HIDE DEF start, range
    <3> QED BY <2>1, <3>2, <3>3, <3>5, <3>6 DEF AsAsked
  <2> QED BY <1>3, <2>2, <2>3
<1>4. CASE h.first \in Nat
  <2> DEFINE end == IF h.last = None THEN size - 1 ELSE h.last
             last == IF end < size - 1 THEN end ELSE size - 1
  <2>1. h # V!NoRange /\ h.first # None
    BY <1>4, ServingAssumption DEF V!NoRange
  <2>2. end \in Int /\ last \in Int /\ V!StartOf(h, size) = h.first /\ V!EndOf(h, size) = end
    BY <1>1, <2>1 DEF V!StartOf, V!EndOf
  <2>3. CASE h.first >= size \/ h.first > end
    <3>1. range = None
      BY <2>1, <2>2, <2>3 DEF V!ParseRange
    <3>2. r = V!Refused(416) \/ r = V!Refused(400)
      BY <1>0, <2>1, <3>1 DEF V!FileResponse
    <3>3. asked = {}
      BY <1>1, <1>4, <2>1, <2>3
    <3> QED BY <2>1, <3>2, <3>3 DEF V!Refused, AsAsked
  <2>4. CASE ~(h.first >= size \/ h.first > end)
    <3>1. range = [status |-> 206, first |-> h.first, last |-> last]
      BY <2>1, <2>2, <2>4 DEF V!ParseRange, V!Partial
    <3>2. range \in portions
      BY <1>4, <2>2, <3>1
    <3>3. r = range
      BY <1>0, <3>2, ServingAssumption
    <3>4. asked = h.first..last
      BY <1>1, <1>4, <2>1, <2>4
    <3>5. h.first \in asked
      BY <1>4, <2>2, <2>4, <3>4
    <3> HIDE DEF end, last, range
    <3> QED BY <1>4, <2>1, <2>2, <3>1, <3>3, <3>4, <3>5 DEF AsAsked
  <2> QED BY <2>3, <2>4
<1> QED BY <1>1, <1>2, <1>3, <1>4 DEF V!NoRange

LEMMA RangeTyped ==
  ASSUME NEW size \in Nat \ {0}, NEW h \in V!Headers(UpstreamSize)
  PROVE  LET r == V!LocalPart(h, size)
         IN  r.status \in {200, 206, 400, 416} /\ r.first \in Nat /\ r.last \in Int
<1> DEFINE r == V!LocalPart(h, size)
           asked == {b \in 0..(size - 1) :
                    IF h.first = None THEN h.last # None /\ b >= size - h.last
                    ELSE b >= h.first /\ (h.last # None => b <= h.last)}
<1>1. r = V!LocalPart(h, size)
  OBVIOUS
<1>2. asked = {b \in 0..(size - 1) :
                    IF h.first = None THEN h.last # None /\ b >= size - h.last
                    ELSE b >= h.first /\ (h.last # None => b <= h.last)}
  OBVIOUS
<1> HIDE DEF r, asked
<1>3. r.status \in {200, 206, 400, 416} /\ r.first \in Nat /\ r.last \in Int
  BY <1>1, <1>2, RangeOfAnyFile
<1> QED BY <1>1, <1>3

LEMMA RangeAsked ==
  ASSUME NEW size \in Nat \ {0}, NEW h \in V!Headers(UpstreamSize)
  PROVE  LET asked == {b \in 0..(size - 1) :
                    IF h.first = None THEN h.last # None /\ b >= size - h.last
                    ELSE b >= h.first /\ (h.last # None => b <= h.last)}
             r == V!LocalPart(h, size)
         IN  /\ r.status = 200 <=> h = V!NoRange
             /\ r.status \in {400, 416} <=> h # V!NoRange /\ asked = {}
             /\ r.status = 206 => asked = r.first..r.last /\ asked # {}
<1> DEFINE r == V!LocalPart(h, size)
           asked == {b \in 0..(size - 1) :
                    IF h.first = None THEN h.last # None /\ b >= size - h.last
                    ELSE b >= h.first /\ (h.last # None => b <= h.last)}
<1>1. r = V!LocalPart(h, size)
  OBVIOUS
<1>2. asked = {b \in 0..(size - 1) :
                    IF h.first = None THEN h.last # None /\ b >= size - h.last
                    ELSE b >= h.first /\ (h.last # None => b <= h.last)}
  OBVIOUS
<1> HIDE DEF r, asked
<1>3. AsAsked(r, h, asked)
  BY <1>1, <1>2, RangeOfAnyFile
<1> QED BY <1>1, <1>2, <1>3 DEF AsAsked

\* ServingTypeOK with what a reply is made of.
PlayerTyped ==
  /\ named \subseteq V!Versions
  /\ \A v \in V!Versions : disk[v] = None \/ disk[v].size \in MadeSizes \cup {OriginalSize}
  /\ player.url \in V!Versions \cup {"bare", None} /\ player.at \in 0..UpstreamSize
  /\ reply = None \/ /\ reply.part.status \in {200, 206, 400, 416, 502}
                     /\ reply.part.first \in Nat /\ reply.part.last \in Int
                     /\ reply.from \in V!Versions \cup {"u"} /\ reply.size \in 1..UpstreamSize

LEMMA TypedInit == V!Init => PlayerTyped
BY ServingAssumption DEF V!Init, PlayerTyped, V!OffPlayer, V!Versions

LEMMA FilesKeepTyped ==
  ASSUME PlayerTyped, PlayerShapes, V!Files
  PROVE  PlayerTyped'
<1>1. CASE V!Download
  BY <1>1 DEF V!Download, PlayerTyped, PlayerShapes, V!Original, V!Versions
<1>2. ASSUME NEW s \in MadeSizes, V!MakeCopy(s) PROVE PlayerTyped'
  BY <1>2 DEF V!MakeCopy, PlayerTyped, PlayerShapes, V!Versions
<1>3. ASSUME NEW v \in V!Versions, V!Name(v) PROVE PlayerTyped'
  BY <1>3 DEF V!Name, PlayerTyped
<1>4. ASSUME NEW v \in V!Versions, V!Remove(v) PROVE PlayerTyped'
  BY <1>4 DEF V!Remove, PlayerTyped, PlayerShapes, V!Versions
<1>5. ASSUME NEW v \in V!Versions, V!Forget(v) PROVE PlayerTyped'
  BY <1>5 DEF V!Forget, PlayerTyped
<1> QED
  BY <1>1, <1>2, <1>3, <1>4, <1>5 DEF V!Files

\* Whatever is asked, from the file or from the publisher.
LEMMA AnswersTyped ==
  ASSUME PlayerTyped, NEW url, NEW h \in V!Headers(UpstreamSize), NEW r \in V!Answers(url, h)
  PROVE  /\ r.part.status \in {200, 206, 400, 416, 502}
         /\ r.part.first \in Nat /\ r.part.last \in Int
         /\ r.from \in V!Versions \cup {"u"} /\ r.size \in 1..UpstreamSize
<1> DEFINE v == V!CopyForToken(url)
<1>1. CASE v = None
  <2>1. r \in V!ProxyOrigin(h)
    BY <1>1 DEF V!Answers
  <2>2. PICK portion : /\ r = [from |-> "u", size |-> UpstreamSize, part |-> portion]
                    /\ portion \in {V!Whole(UpstreamSize), V!Refused(502)}
                         \cup {V!Partial(f, UpstreamSize - 1) : f \in {h.first} \cap (0..(UpstreamSize - 1))}
    BY <2>1 DEF V!ProxyOrigin
  <2>3. portion.status \in {200, 206, 400, 416, 502} /\ portion.first \in Nat /\ portion.last \in Int
    BY <2>2, ServingAssumption DEF V!Whole, V!Refused, V!Partial
  <2>4. UpstreamSize \in 1..UpstreamSize
    BY ServingAssumption
  <2> QED BY <2>2, <2>3, <2>4
<1>2. CASE v # None
  <2>1. v \in V!Versions /\ disk[v] # None
    BY <1>2 DEF V!CopyForToken, V!PreferredCopy, V!Served, V!Versions
  <2>2. r = [from |-> v, size |-> disk[v].size, part |-> V!LocalPart(h, disk[v].size)]
    BY <1>2 DEF V!Answers, V!ServeLocal
  <2>3. disk[v].size \in MadeSizes \cup {OriginalSize}
    BY <2>1 DEF PlayerTyped
  <2>4. disk[v].size \in 1..UpstreamSize /\ disk[v].size \in Nat \ {0}
    BY <2>3, SizesOnDisk
  <2> DEFINE portion == V!LocalPart(h, disk[v].size)
  <2>5. portion.status \in {200, 206, 400, 416} /\ portion.first \in Nat /\ portion.last \in Int
    BY <2>4, RangeTyped
  <2> HIDE DEF v, portion
  <2>6. r.from = v /\ r.size = disk[v].size /\ r.part = portion
    BY <2>2 DEF portion
  <2> QED BY <2>1, <2>4, <2>5, <2>6
<1> QED BY <1>1, <1>2

LEMMA SourceSize ==
  ASSUME PlayerTyped, reply # None, V!Source # None
  PROVE  V!Source.size \in 1..UpstreamSize
<1>1. CASE reply.from = "u"
  BY <1>1, ServingAssumption DEF V!Source, V!Upstream
<1>2. CASE reply.from # "u"
  <2>1. reply.from \in V!Versions /\ V!Source = disk[reply.from]
    BY <1>2 DEF PlayerTyped, V!Source
  <2>2. V!Source.size \in MadeSizes \cup {OriginalSize}
    BY <2>1 DEF PlayerTyped
  <2> QED BY <2>2, ServingAssumption
<1> QED BY <1>1, <1>2

LEMMA PlayerKeepsTyped ==
  ASSUME PlayerTyped, PlayerShapes, V!Transfer \/ V!Load \/ V!Unload \/ \E n \in 0..UpstreamSize : V!Seek(n)
  PROVE  PlayerTyped'
<1>1. CASE V!Load
  BY <1>1, ServingAssumption DEF V!Load, PlayerTyped, V!OffPlayer, V!StreamUrl, V!PreferredCopy, V!Versions
<1>2. CASE V!Request
  <2>1. PICK h \in V!Asks : \E r \in V!Answers(player.url, h) : reply' = r
    BY <1>2 DEF V!Request
  <2>2. h \in V!Headers(UpstreamSize)
    BY DEF V!Asks, V!NoRange, V!Headers, PlayerTyped
  <2>3. /\ reply'.part.status \in {200, 206, 400, 416, 502}
        /\ reply'.part.first \in Nat /\ reply'.part.last \in Int
        /\ reply'.from \in V!Versions \cup {"u"} /\ reply'.size \in 1..UpstreamSize
    BY <2>1, <2>2, AnswersTyped
  <2> QED BY <1>2, <2>3 DEF V!Request, PlayerTyped
<1>3. CASE V!Receive
  <2> DEFINE n == IF reply.part.last < V!Source.size THEN reply.part.last ELSE V!Source.size - 1
  <2>1. player'.url = player.url
        /\ player'.at = IF n >= reply.part.first THEN n + 1 ELSE player.at
    BY <1>3 DEF V!Receive, V!Heard, PlayerShapes
  <2>2. V!Source.size \in 1..UpstreamSize /\ reply.part.first \in Nat /\ reply.part.last \in Int
    BY <1>3, SourceSize DEF V!Receive, PlayerTyped
  <2>3. n >= reply.part.first => n + 1 \in 0..UpstreamSize
    BY <2>2, ServingAssumption
  <2>4. player'.at \in 0..UpstreamSize
    BY <2>1, <2>3 DEF PlayerTyped
  <2> QED BY <1>3, <2>1, <2>4 DEF V!Receive, PlayerTyped
<1>4. CASE V!ReceiveWhole
  <2>1. player'.url = player.url
        /\ player'.at = IF V!Source.size < reply.size THEN V!Source.size ELSE reply.size
    BY <1>4 DEF V!ReceiveWhole, V!Heard, PlayerShapes
  <2>2. reply.size \in 1..UpstreamSize /\ V!Source.size \in 1..UpstreamSize
    BY <1>4, SourceSize DEF V!ReceiveWhole, PlayerTyped
  <2>3. player'.at \in 0..UpstreamSize
    BY <2>1, <2>2, ServingAssumption
  <2> QED BY <1>4, <2>1, <2>3 DEF V!ReceiveWhole, PlayerTyped
<1>5. CASE V!Again
  BY <1>5 DEF V!Again, PlayerTyped
<1>6. CASE V!Unavailable
  BY <1>6, ServingAssumption DEF V!Unavailable, PlayerTyped, V!OffPlayer
<1>7. ASSUME NEW n \in 0..UpstreamSize, V!Seek(n) PROVE PlayerTyped'
  BY <1>7 DEF V!Seek, PlayerTyped, PlayerShapes
<1>8. CASE V!Unload
  BY <1>8, ServingAssumption DEF V!Unload, PlayerTyped, V!OffPlayer
<1> QED
  BY <1>1, <1>2, <1>3, <1>4, <1>5, <1>6, <1>7, <1>8 DEF V!Transfer

LEMMA TypedIsConsistent == PlayerTyped => V!ServingConsistent
<1> SUFFICES ASSUME PlayerTyped PROVE V!ServingConsistent
  OBVIOUS
<1>1. V!ServingTypeOK
  BY DEF PlayerTyped, V!ServingTypeOK
<1>2. V!RangeIsWhatWasAsked
  <2>1. ASSUME NEW v \in V!Versions, disk[v] # None
        PROVE  disk[v].size \in Nat \ {0}
    <3>1. disk[v].size \in MadeSizes \cup {OriginalSize}
      BY <2>1 DEF PlayerTyped
    <3> QED BY <3>1, SizesOnDisk
  <2> QED BY <2>1, RangeAsked DEF V!RangeIsWhatWasAsked
<1> QED BY <1>1, <1>2 DEF V!ServingConsistent

PlayerCore == Attached /\ PlayerTyped

LEMMA PlayerSteps ==
  ASSUME PlayerCore, V!Next \/ UNCHANGED V!vars
  PROVE  PlayerCore'
<1>1. CASE V!Next
  BY <1>1, FilesKeepAttached, PlayerKeepsAttached, FilesKeepTyped, PlayerKeepsTyped
  DEF PlayerCore, Attached, V!Next
<1>2. CASE UNCHANGED V!vars
  BY <1>2 DEF PlayerCore, Attached, PlayerShapes, KeepsToItsCopy, PlayerTyped, V!Served, V!vars
<1> QED BY <1>1, <1>2

\* media_routes.py:226: what the player is being sent is the copy its URL names, and a copy that
\* was never lost is one file to whoever is listening to it.
THEOREM PlayerInvariant == Spec => [](whose = "serving" => PlayerCore)
<1> DEFINE Inv == whose = "serving" => PlayerCore
<1>1. Init => Inv
  BY AttachedInit, TypedInit DEF Init, PlayerCore
<1>2. Inv /\ [Next]_vars => Inv'
  <2> SUFFICES ASSUME Inv, [Next]_vars, whose' = "serving" PROVE PlayerCore'
    OBVIOUS
  <2>1. CASE Next
    <3>1. whose = "serving"
      BY <2>1, WhoseStays
    <3>2. V!Next
      BY <2>1, <3>1
      DEF Next, OnlyProcessing, OnlyTimeline, OnlyServing, OnlyRefreshing, OnlySubscribing,
          OnlySignIn, OnlyQueue, OnlyArtwork, OnlyNotifying
    <3> QED BY <3>1, <3>2, PlayerSteps
  <2>2. CASE UNCHANGED vars
    <3>1. whose = "serving" /\ UNCHANGED V!vars
      BY <2>2 DEF vars, servingVars, V!vars
    <3> QED BY <3>1, PlayerSteps
  <2> QED BY <2>1, <2>2
<1> QED BY <1>1, <1>2, PTL DEF Spec

\* streaming.py:21: whatever copies land and go, a player hears one file until the one it
\* was loaded from is itself removed or made anew.
THEOREM ServingNothingChanges == Spec => []NothingChangesUnderneath
<1>1. (whose = "serving" => PlayerCore) => NothingChangesUnderneath
  BY AttachedHearsOne DEF PlayerCore, NothingChangesUnderneath
<1> QED BY <1>1, PlayerInvariant, PTL

\* media_routes.py:42, 110: a range gets the bytes that were asked for and exist, whatever file
\* is there by then and however long it is; one that asks for nothing that exists is refused,
\* and the whole file goes only to who asked for no range.
THEOREM ServingAlwaysConsistent == Spec => []ServingConsistent
<1>1. (whose = "serving" => PlayerCore) => ServingConsistent
  BY TypedIsConsistent DEF PlayerCore, ServingConsistent
<1> QED BY <1>1, PlayerInvariant, PTL

-----------------------------------------------------------------------------
(* Processing                                                               *)

\* What the passes keep between their awaits is typed too.
CopiesTyped ==
  /\ P!ProcessingTypeOK
  /\ pass = [at |-> pass.at, want |-> pass.want, seen |-> pass.seen, touched |-> pass.touched]
  /\ pass.want \in Recipes \cup {None} /\ pass.seen \in [Episodes -> P!Row]
  /\ pass.touched \subseteq Episodes /\ (pass.at # "dropping" => pass.touched = {})
  /\ remover.seen \in [Episodes -> P!Row] /\ remover.all \in BOOLEAN
  /\ \A x \in P!Encoders :
       /\ task[x].at # "idle" => task[x].ep \in Episodes
       /\ task[x].at \in {"encoding", "accepted"} => task[x].want # None

\* One worker at most fetches an episode, while its row says it has no file; what is being
\* removed was on disk, and is not there again before the removal is committed.
OneDownload ==
  /\ \A x \in P!Encoders : task[x].at = "fetching" =>
       /\ x \in Workers /\ ~row[task[x].ep].local /\ ~task[x].seen.local
       /\ \A y \in P!Encoders : task[y].at = "fetching" /\ task[y].ep = task[x].ep => x = y
  /\ alive => \A e \in original : row[e].local
  /\ remover.at = "idle" => remover.eps = {}
  /\ remover.at = "removed" => alive
  /\ \A e \in remover.eps : row[e].local /\ e \notin original /\ remover.seen[e].local

\* A row has a recipe if and only if it has a copy.
Coherent(r) == r.path <=> r.recipe # None

\* Of an episode nothing has disturbed: one encode at a time, of a file that has no copy, by an
\* encoder that knows of none, whose recipe is all that goes into the copy; and what is being
\* dropped or removed has no copy any more.
CopyOK(e) ==
  /\ Coherent(row[e]) /\ Coherent(pass.seen[e]) /\ Coherent(remover.seen[e])
  /\ row[e].path => row[e].local
  /\ copy[e] # {} => row[e].path \/ P!Involved(e) # {}
  /\ row[e].path /\ copy[e] # {} => copy[e] = {row[e].recipe}
  /\ \A x \in P!Encoders : task[x].ep = e => ~task[x].seen.path /\ task[x].seen.recipe = None
  /\ \A x \in P!Involved(e) :
       /\ ~row[e].path /\ e \in original /\ \A y \in P!Involved(e) : y = x
       /\ task[x].at = "encoding" => part[e] = {task[x].want} /\ copy[e] = {}
       /\ task[x].at = "accepted" => copy[e] = {task[x].want}
  /\ e \in pass.touched => P!Involved(e) = {} /\ copy[e] = {} /\ pass.seen[e].path
  /\ e \in remover.eps => /\ P!Involved(e) = {} /\ copy[e] = {}
                          /\ row[e].path => remover.seen[e].path

CopyCore == CopiesTyped /\ OneDownload /\ \A e \in P!Undisturbed : CopyOK(e)

LEMMA BareRow == /\ P!Bare \in P!Row /\ ~P!Bare.local /\ ~P!Bare.path /\ P!Bare.recipe = None
                 /\ Coherent(P!Bare)
BY DEF P!Bare, P!Row, Coherent

LEMMA IdleOnes ==
  /\ P!IdleTask \in P!Tasks /\ P!IdleTask.at = "idle" /\ P!IdleTask.ep = None
  /\ ~P!IdleTask.seen.path /\ P!IdleTask.seen.recipe = None
  /\ P!IdlePass = [at |-> P!IdlePass.at, want |-> P!IdlePass.want, seen |-> P!IdlePass.seen,
                   touched |-> P!IdlePass.touched]
  /\ P!IdlePass.at = "idle" /\ P!IdlePass.want = None /\ P!IdlePass.touched = {}
  /\ P!IdlePass.seen \in [Episodes -> P!Row] /\ \A e \in Episodes : P!IdlePass.seen[e] = P!Bare
  /\ P!IdleRemover.at = "idle" /\ P!IdleRemover.eps = {} /\ P!IdleRemover.all = FALSE
  /\ P!IdleRemover.seen \in [Episodes -> P!Row]
  /\ \A e \in Episodes : P!IdleRemover.seen[e] = P!Bare
BY BareRow DEF P!IdleTask, P!Tasks, P!IdlePass, P!IdleRemover

\* What a flush writes over a row.
LEMMA FlushWrites ==
  ASSUME NEW now \in P!Row, NEW seen \in P!Row, NEW new \in P!Row
  PROVE  /\ P!Flush(now, seen, new) \in P!Row
         /\ P!Flush(now, seen, new).local = IF new.local # seen.local THEN new.local ELSE now.local
         /\ P!Flush(now, seen, new).path = IF new.path # seen.path THEN new.path ELSE now.path
         /\ P!Flush(now, seen, new).recipe =
              IF new.recipe # seen.recipe THEN new.recipe ELSE now.recipe
BY DEF P!Flush, P!Column, P!Row

LEMMA CopyInit == P!Init => CopyCore
<1> SUFFICES ASSUME P!Init PROVE CopyCore
  OBVIOUS
<1>1. row \in [Episodes -> P!Row] /\ \A e \in Episodes : ~row[e].path /\ row[e].recipe = None
  <2>1. P!Downloaded(P!Bare) \in P!Row /\ ~P!Downloaded(P!Bare).path /\ P!Downloaded(P!Bare).recipe = None
    BY BareRow DEF P!Downloaded, P!Row
  <2> QED BY <2>1, BareRow DEF P!Init
<1>2. /\ task = [x \in P!Encoders |-> P!IdleTask] /\ pass = P!IdlePass /\ remover = P!IdleRemover
      /\ copy = [e \in Episodes |-> {}] /\ part = [e \in Episodes |-> {}]
      /\ original = {e \in Episodes : row[e].local} /\ overtaken = {} /\ doubled = {}
      /\ backoff = {} /\ broken \in SUBSET Episodes /\ alive = TRUE /\ wish \in Recipes \cup {None}
  BY DEF P!Init
<1>3. CopiesTyped
  BY <1>1, <1>2, IdleOnes DEF CopiesTyped, P!ProcessingTypeOK
<1>4. OneDownload
  BY <1>2, IdleOnes DEF OneDownload
<1>5. ASSUME NEW e \in Episodes PROVE CopyOK(e)
  <2>1. P!Involved(e) = {}
    BY <1>2, IdleOnes DEF P!Involved
  <2>2. Coherent(row[e]) /\ Coherent(pass.seen[e]) /\ Coherent(remover.seen[e])
    BY <1>1, <1>2, IdleOnes, BareRow DEF Coherent
  <2>3. \A x \in P!Encoders : ~task[x].seen.path /\ task[x].seen.recipe = None
    BY <1>2, IdleOnes
  <2>4. pass.touched = {} /\ remover.eps = {} /\ copy[e] = {} /\ ~row[e].path
    BY <1>1, <1>2, IdleOnes
  <2> QED BY <2>1, <2>2, <2>3, <2>4 DEF CopyOK
<1> QED BY <1>3, <1>4, <1>5 DEF CopyCore, P!Undisturbed

\* Where nothing of an episode changes but that what was kept of it is let go.
LEMMA OthersKeep ==
  ASSUME CopyCore, NEW e \in P!Undisturbed, e \in Episodes,
         row'[e] = row[e], copy'[e] = copy[e], part'[e] = part[e],
         e \in original' <=> e \in original,
         Coherent(pass'.seen[e]), e \in pass'.touched => e \in pass.touched /\ pass'.seen[e] = pass.seen[e],
         Coherent(remover'.seen[e]), e \in remover'.eps => e \in remover.eps /\ remover'.seen[e] = remover.seen[e],
         \A x \in P!Encoders : task'[x].ep = e =>
           task'[x] = task[x] \/ /\ ~task'[x].seen.path /\ task'[x].seen.recipe = None
                                 /\ task'[x].at \notin {"encoding", "accepted"},
         \A x \in P!Involved(e) : task'[x] = task[x]
  PROVE  CopyOK(e)'
<1>1. CopyOK(e)
  BY DEF CopyCore
<1>2. /\ P!Involved(e)' = P!Involved(e)
      /\ \A x \in P!Involved(e) : task'[x] = task[x]
  BY DEF P!Involved
<1>3. \A x \in P!Encoders : task'[x].ep = e => ~task'[x].seen.path /\ task'[x].seen.recipe = None
  BY <1>1 DEF CopyOK
<1> QED BY <1>1, <1>2, <1>3 DEF CopyOK

-----------------------------------------------------------------------------
(* process_episode                                                          *)

LEMMA OverTasks ==
  ASSUME CopyCore, NEW x \in P!Encoders, P!Over(x)
  PROVE  /\ task' \in [P!Encoders -> P!Tasks] /\ task'[x] = P!IdleTask
         /\ \A y \in P!Encoders \ {x} : task'[y] = task[y]
         /\ pass' = pass \/ pass' = P!IdlePass
BY IdleOnes DEF CopyCore, CopiesTyped, P!ProcessingTypeOK, P!Over

\* What the end of an encode does to what is typed and to who fetches.
LEMMA OverKeeps ==
  ASSUME CopyCore, NEW x \in P!Encoders, P!Over(x), UNCHANGED <<original, alive, remover, wish>>,
         row' \in [Episodes -> P!Row], \A e \in Episodes : row'[e].local = row[e].local
  PROVE  /\ task' \in [P!Encoders -> P!Tasks]
         /\ pass'.at \in {"idle", "dropping", "measuring", "choosing"}
         /\ pass' = [at |-> pass'.at, want |-> pass'.want, seen |-> pass'.seen,
                     touched |-> pass'.touched]
         /\ pass'.want \in Recipes \cup {None} /\ pass'.seen \in [Episodes -> P!Row]
         /\ pass'.touched \subseteq Episodes /\ (pass'.at # "dropping" => pass'.touched = {})
         /\ \A y \in P!Encoders :
              /\ task'[y].at # "idle" => task'[y].ep \in Episodes
              /\ task'[y].at \in {"encoding", "accepted"} => task'[y].want # None
         /\ OneDownload'
<1>1. /\ task' \in [P!Encoders -> P!Tasks] /\ task'[x] = P!IdleTask
      /\ \A y \in P!Encoders \ {x} : task'[y] = task[y]
      /\ pass' = pass \/ pass' = P!IdlePass
  BY OverTasks
<1>2. OneDownload'
  <2>1. ASSUME NEW y \in P!Encoders, task'[y].at = "fetching"
        PROVE  y # x /\ task'[y] = task[y] /\ task[y].ep \in Episodes
    BY <1>1, <2>1, IdleOnes DEF CopyCore, CopiesTyped
  <2>2. original \subseteq Episodes /\ remover.eps \subseteq Episodes
    BY DEF CopyCore, CopiesTyped, P!ProcessingTypeOK
  <2> QED BY <2>1, <2>2 DEF CopyCore, OneDownload
<1> QED BY <1>1, <1>2, IdleOnes DEF CopyCore, CopiesTyped, P!ProcessingTypeOK

LEMMA OverElsewhere ==
  ASSUME CopyCore, NEW x \in P!Encoders, P!Over(x), NEW e \in P!Undisturbed, e \in Episodes,
         x \notin P!Involved(e), UNCHANGED <<original, remover>>,
         row'[e] = row[e], copy'[e] = copy[e], part'[e] = part[e]
  PROVE  CopyOK(e)'
<1>1. /\ task'[x] = P!IdleTask /\ \A y \in P!Encoders \ {x} : task'[y] = task[y]
      /\ pass' = pass \/ pass' = P!IdlePass
  BY OverTasks
<1>2. CopyOK(e)
  BY DEF CopyCore
<1>3. /\ Coherent(pass'.seen[e])
      /\ e \in pass'.touched => e \in pass.touched /\ pass'.seen[e] = pass.seen[e]
  BY <1>1, <1>2, IdleOnes, BareRow DEF CopyOK
<1>4. \A y \in P!Encoders : y = x \/ task'[y] = task[y]
  BY <1>1
<1>5. \A y \in P!Involved(e) : task'[y] = task[y]
  BY <1>1 DEF P!Involved
<1>6. Coherent(remover.seen[e])
  BY <1>2 DEF CopyOK
<1> QED BY <1>1, <1>3, <1>4, <1>5, <1>6, IdleOnes, OthersKeep

LEMMA DeclineKeeps ==
  ASSUME CopyCore, NEW x \in P!Encoders, P!Decline(x)
  PROVE  CopyCore'
<1>1. /\ P!Over(x) /\ task[x].at = "chosen" /\ backoff' \subseteq Episodes
      /\ UNCHANGED <<wish, alive, row, original, copy, part, remover, broken, overtaken, doubled>>
  BY DEF P!Decline, CopyCore, CopiesTyped, P!ProcessingTypeOK
<1>2. CopiesTyped' /\ OneDownload'
  BY <1>1, OverKeeps DEF CopyCore, CopiesTyped, P!ProcessingTypeOK
<1>3. ASSUME NEW e \in P!Undisturbed' PROVE CopyOK(e)'
  <2>1. e \in P!Undisturbed /\ e \in Episodes /\ x \notin P!Involved(e)
    BY <1>1, <1>3 DEF P!Undisturbed, P!Involved
  <2> QED BY <1>1, <2>1, OverElsewhere
<1> QED BY <1>2, <1>3 DEF CopyCore

LEMMA BeginEncodeKeeps ==
  ASSUME CopyCore, NEW x \in P!Encoders, P!BeginEncode(x)
  PROVE  CopyCore'
<1> DEFINE d == task[x].ep
           w == P!Wanted(x)
<1>1. /\ task[x].at = "chosen" /\ d \in Episodes /\ w \in Recipes /\ w # None /\ d \in original
      /\ ~(task[x].seen.path /\ copy[d] # {})
      /\ UNCHANGED <<wish, alive, row, original, copy, pass, remover, backoff, broken, overtaken>>
  BY DEF P!BeginEncode, P!Encodable, P!Wanted, CopyCore, CopiesTyped, P!ProcessingTypeOK, P!Tasks
<1>2. /\ task' \in [P!Encoders -> P!Tasks] /\ \A y \in P!Encoders \ {x} : task'[y] = task[y]
      /\ task'[x].at = "encoding" /\ task'[x].ep = d /\ task'[x].seen = task[x].seen
      /\ task'[x].want = w
  BY <1>1 DEF P!BeginEncode, CopyCore, CopiesTyped, P!ProcessingTypeOK, P!Tasks
<1>3. /\ part' \in [Episodes -> SUBSET Recipes]
      /\ part'[d] = {w} \cup {task[y].want : y \in P!Encoding(d)}
      /\ \A e \in Episodes \ {d} : part'[e] = part[e]
  <2>1. \A y \in P!Encoding(d) : task[y].want \in Recipes
    BY DEF P!Encoding, CopyCore, CopiesTyped, P!ProcessingTypeOK, P!Tasks
  <2> QED BY <1>1, <2>1 DEF P!BeginEncode, CopyCore, CopiesTyped, P!ProcessingTypeOK
<1>4. /\ doubled \subseteq doubled' /\ doubled' \subseteq Episodes
      /\ d \notin doubled' => P!Involved(d) = {} /\ ~row[d].path /\ d \notin pass.touched
  BY <1>1 DEF P!BeginEncode, CopyCore, CopiesTyped, P!ProcessingTypeOK
<1>5. CopiesTyped'
  BY <1>1, <1>2, <1>3, <1>4 DEF CopyCore, CopiesTyped, P!ProcessingTypeOK
<1>6. OneDownload'
  BY <1>1, <1>2 DEF CopyCore, OneDownload
<1>7. ASSUME NEW e \in P!Undisturbed' PROVE CopyOK(e)'
  <2>1. e \in P!Undisturbed /\ e \in Episodes /\ CopyOK(e)
    BY <1>1, <1>4, <1>7 DEF P!Undisturbed, CopyCore
  <2>2. CASE e # d
    <3>1. P!Involved(e)' = P!Involved(e)
      BY <1>1, <1>2, <2>2 DEF P!Involved
    <3> QED BY <1>1, <1>2, <1>3, <2>1, <2>2, <3>1 DEF CopyOK, P!Involved
  <2>3. CASE e = d
    <3>1. P!Involved(e) = {} /\ ~row[e].path /\ e \notin pass.touched
      BY <1>4, <1>7, <2>3 DEF P!Undisturbed
    <3>2. P!Involved(e)' = {x}
      BY <1>1, <1>2, <2>3, <3>1 DEF P!Involved
    <3>3. part'[e] = {w} /\ copy[e] = {}
      BY <1>3, <2>1, <2>3, <3>1 DEF P!Involved, P!Encoding, CopyOK
    <3>4. e \notin remover.eps
      BY <1>1, <2>3 DEF CopyCore, OneDownload
    <3> QED BY <1>1, <1>2, <2>1, <2>3, <3>1, <3>2, <3>3, <3>4 DEF CopyOK
  <2> QED BY <2>2, <2>3
<1> QED BY <1>5, <1>6, <1>7 DEF CopyCore

LEMMA AcceptKeeps ==
  ASSUME CopyCore, NEW x \in P!Encoders, P!Accept(x)
  PROVE  CopyCore'
<1> DEFINE d == task[x].ep
<1>1. /\ task[x].at = "encoding" /\ d \in Episodes /\ part[d] # {} /\ x \in P!Involved(d)
      /\ UNCHANGED <<wish, alive, row, original, pass, remover, backoff, broken, overtaken, doubled>>
  BY DEF P!Accept, P!Involved, CopyCore, CopiesTyped
<1>2. /\ task' \in [P!Encoders -> P!Tasks] /\ \A y \in P!Encoders \ {x} : task'[y] = task[y]
      /\ task'[x].at = "accepted" /\ task'[x].ep = d /\ task'[x].seen = task[x].seen
      /\ task'[x].want = task[x].want
  BY <1>1 DEF P!Accept, CopyCore, CopiesTyped, P!ProcessingTypeOK, P!Tasks
<1>3. /\ part' \in [Episodes -> SUBSET Recipes] /\ copy' \in [Episodes -> SUBSET Recipes]
      /\ copy'[d] = part[d]
      /\ \A e \in Episodes \ {d} : part'[e] = part[e] /\ copy'[e] = copy[e]
  BY <1>1 DEF P!Accept, CopyCore, CopiesTyped, P!ProcessingTypeOK
<1>5. CopiesTyped'
  BY <1>1, <1>2, <1>3 DEF CopyCore, CopiesTyped, P!ProcessingTypeOK
<1>6. OneDownload'
  BY <1>1, <1>2 DEF CopyCore, OneDownload
<1>7. ASSUME NEW e \in P!Undisturbed' PROVE CopyOK(e)'
  <2>1. e \in P!Undisturbed /\ e \in Episodes /\ CopyOK(e)
    BY <1>1, <1>7 DEF P!Undisturbed, CopyCore
  <2>2. P!Involved(e)' = P!Involved(e)
    BY <1>1, <1>2 DEF P!Involved
  <2>3. CASE e # d
    BY <1>1, <1>2, <1>3, <2>1, <2>2, <2>3 DEF CopyOK, P!Involved
  <2>4. CASE e = d
    <3>1. part[e] = {task[x].want} /\ ~row[e].path /\ \A y \in P!Involved(e) : y = x
      BY <1>1, <2>1, <2>4 DEF CopyOK
    <3> QED BY <1>1, <1>2, <1>3, <2>1, <2>2, <2>4, <3>1 DEF CopyOK
  <2> QED BY <2>3, <2>4
<1> QED BY <1>5, <1>6, <1>7 DEF CopyCore

LEMMA FailKeeps ==
  ASSUME CopyCore, NEW x \in P!Encoders, P!Fail(x)
  PROVE  CopyCore'
<1> DEFINE d == task[x].ep
<1>1. /\ P!Over(x) /\ task[x].at = "encoding" /\ d \in Episodes /\ x \in P!Involved(d)
      /\ UNCHANGED <<wish, alive, row, original, copy, remover, backoff, broken, overtaken, doubled>>
  BY DEF P!Fail, P!Involved, CopyCore, CopiesTyped
<1>2. part' \in [Episodes -> SUBSET Recipes] /\ \A e \in Episodes \ {d} : part'[e] = part[e]
  BY <1>1 DEF P!Fail, CopyCore, CopiesTyped, P!ProcessingTypeOK
<1>3. CopiesTyped' /\ OneDownload'
  BY <1>1, <1>2, OverKeeps DEF CopyCore, CopiesTyped, P!ProcessingTypeOK
<1>4. ASSUME NEW e \in P!Undisturbed' PROVE CopyOK(e)'
  <2>1. e \in P!Undisturbed /\ e \in Episodes /\ CopyOK(e)
    BY <1>1, <1>4 DEF P!Undisturbed, CopyCore
  <2>2. CASE e # d
    BY <1>1, <1>2, <2>1, <2>2, OverElsewhere DEF P!Involved
  <2>3. CASE e = d
    <3>1. P!Involved(e) = {x} /\ copy[e] = {} /\ ~row[e].path
      BY <1>1, <2>1, <2>3 DEF CopyOK
    <3>2. P!Involved(e)' = {}
      BY <3>1, OverTasks, IdleOnes, <1>1 DEF P!Involved
    <3> QED BY <1>1, <2>1, <3>1, <3>2, OverTasks, IdleOnes, BareRow DEF CopyOK
  <2> QED BY <2>2, <2>3
<1> QED BY <1>3, <1>4 DEF CopyCore

LEMMA RecordKeeps ==
  ASSUME CopyCore, NEW x \in P!Encoders, P!Record(x)
  PROVE  CopyCore'
<1> DEFINE d == task[x].ep
           t == task[x]
<1>1. /\ P!Over(x) /\ t.at = "accepted" /\ d \in Episodes /\ x \in P!Involved(d) /\ alive
      /\ t.want \in Recipes /\ t.want # None /\ t.seen \in P!Row /\ row \in [Episodes -> P!Row]
      /\ UNCHANGED <<wish, alive, original, copy, part, remover, backoff, broken, overtaken, doubled>>
  BY DEF P!Record, P!Involved, CopyCore, CopiesTyped, P!ProcessingTypeOK, P!Tasks
<1>2. PICK new :
        /\ \E measured \in BOOLEAN :
             new = [local |-> t.seen.local, path |-> TRUE, recipe |-> t.want, measured |-> measured]
        /\ row' = [row EXCEPT ![d] = P!Flush(row[d], t.seen, new)]
  BY DEF P!Record
<1>3. new \in P!Row /\ new.local = t.seen.local /\ new.path = TRUE /\ new.recipe = t.want
  BY <1>1, <1>2 DEF P!Row
<1>4. /\ row' \in [Episodes -> P!Row] /\ \A e \in Episodes \ {d} : row'[e] = row[e]
      /\ row'[d].local = row[d].local
      /\ row'[d].path = IF t.seen.path # TRUE THEN TRUE ELSE row[d].path
      /\ row'[d].recipe = IF t.want # t.seen.recipe THEN t.want ELSE row[d].recipe
  <2> DEFINE f == P!Flush(row[d], t.seen, new)
  <2>1. row[d] \in P!Row
    BY <1>1
  <2>2. /\ f \in P!Row
        /\ f.local = IF new.local # t.seen.local THEN new.local ELSE row[d].local
        /\ f.path = IF new.path # t.seen.path THEN new.path ELSE row[d].path
        /\ f.recipe = IF new.recipe # t.seen.recipe THEN new.recipe ELSE row[d].recipe
    BY <1>1, <1>3, <2>1, FlushWrites
  <2>3. row' = [row EXCEPT ![d] = f]
    BY <1>2
  <2> HIDE DEF f, t
  <2> QED BY <1>1, <1>3, <2>1, <2>2, <2>3
<1>5. CopiesTyped' /\ OneDownload'
  BY <1>1, <1>4, OverKeeps DEF CopyCore, CopiesTyped, P!ProcessingTypeOK
<1>6. ASSUME NEW e \in P!Undisturbed' PROVE CopyOK(e)'
  <2>1. e \in P!Undisturbed /\ e \in Episodes /\ CopyOK(e)
    BY <1>1, <1>6 DEF P!Undisturbed, CopyCore
  <2>2. CASE e # d
    BY <1>1, <1>4, <2>1, <2>2, OverElsewhere DEF P!Involved
  <2>3. CASE e = d
    <3>1. /\ P!Involved(e) = {x} /\ copy[e] = {t.want} /\ e \in original
          /\ e \notin pass.touched /\ e \notin remover.eps
          /\ ~t.seen.path /\ t.seen.recipe = None
      BY <1>1, <2>1, <2>3 DEF CopyOK
    <3>2. P!Involved(e)' = {}
      BY <3>1, OverTasks, IdleOnes, <1>1 DEF P!Involved
    <3>3. row'[e].path /\ row'[e].recipe = t.want /\ row'[e].local
      BY <1>1, <1>4, <2>3, <3>1 DEF CopyCore, OneDownload
    <3> QED BY <1>1, <2>1, <3>1, <3>2, <3>3, OverTasks, IdleOnes, BareRow DEF CopyOK, Coherent
  <2> QED BY <2>2, <2>3
<1> QED BY <1>5, <1>6 DEF CopyCore

LEMMA RecordRefusedKeeps ==
  ASSUME CopyCore, NEW x \in P!Encoders, P!RecordRefused(x)
  PROVE  CopyCore'
<1> DEFINE d == task[x].ep
<1>1. /\ P!Over(x) /\ task[x].at = "accepted" /\ d \in Episodes
      /\ overtaken' = overtaken \cup {d}
      /\ UNCHANGED <<wish, alive, row, original, copy, remover, backoff, broken, doubled>>
  BY DEF P!RecordRefused, CopyCore, CopiesTyped
<1>2. part' \in [Episodes -> SUBSET Recipes] /\ \A e \in Episodes \ {d} : part'[e] = part[e]
  BY <1>1 DEF P!RecordRefused, CopyCore, CopiesTyped, P!ProcessingTypeOK
<1>3. CopiesTyped' /\ OneDownload'
  BY <1>1, <1>2, OverKeeps DEF CopyCore, CopiesTyped, P!ProcessingTypeOK
<1>4. ASSUME NEW e \in P!Undisturbed' PROVE CopyOK(e)'
  <2>1. e \in P!Undisturbed /\ e \in Episodes /\ CopyOK(e) /\ e # d
    BY <1>1, <1>4 DEF P!Undisturbed, CopyCore
  <2> QED BY <1>1, <1>2, <2>1, OverElsewhere DEF P!Involved
<1> QED BY <1>3, <1>4 DEF CopyCore

-----------------------------------------------------------------------------
(* reconcile_processing                                                     *)

LEMMA LookKeeps ==
  ASSUME CopyCore, P!Look
  PROVE  CopyCore'
<1> DEFINE drop == {e \in Episodes : P!Unwanted(row[e], wish)}
<1>1. /\ row \in [Episodes -> P!Row] /\ wish \in Recipes \cup {None}
      /\ pass'.at \in {"dropping", "measuring"} /\ pass'.want = wish /\ pass'.seen = row
      /\ pass'.touched = drop /\ (pass'.at = "measuring" => drop = {})
      /\ pass' = [at |-> pass'.at, want |-> pass'.want, seen |-> pass'.seen,
                  touched |-> pass'.touched]
      /\ UNCHANGED <<wish, alive, row, original, part, task, remover, backoff, broken,
                     overtaken, doubled>>
  BY DEF P!Look, CopyCore, CopiesTyped, P!ProcessingTypeOK
<1>2. /\ copy' \in [Episodes -> SUBSET Recipes]
      /\ \A e \in Episodes : copy'[e] = IF e \in drop THEN {} ELSE copy[e]
  BY DEF P!Look, CopyCore, CopiesTyped, P!ProcessingTypeOK
<1>3. drop \subseteq Episodes /\ \A e \in drop : row[e].path
  BY DEF P!Unwanted
<1> HIDE DEF drop
<1>4. CopiesTyped'
  BY <1>1, <1>2, <1>3 DEF CopyCore, CopiesTyped, P!ProcessingTypeOK
<1>5. OneDownload'
  BY <1>1 DEF CopyCore, OneDownload
<1>6. ASSUME NEW e \in P!Undisturbed' PROVE CopyOK(e)'
  <2>1. e \in Episodes /\ CopyOK(e)
    BY <1>1, <1>6 DEF P!Undisturbed, CopyCore
  <2>2. P!Involved(e)' = P!Involved(e)
    BY <1>1 DEF P!Involved
  <2>3. e \in drop => P!Involved(e) = {} /\ copy'[e] = {}
    BY <1>2, <1>3, <2>1 DEF CopyOK
  <2>4. copy'[e] = copy[e] \/ e \in drop
    BY <1>2, <2>1
  <2> QED BY <1>1, <1>3, <2>1, <2>2, <2>3, <2>4 DEF CopyOK
<1> QED BY <1>4, <1>5, <1>6 DEF CopyCore

\* Where a pass commits: only what it has touched of an episode changes of its row.
LEMMA PassCommits ==
  ASSUME CopyCore, NEW new \in [Episodes -> P!Row],
         row' = [e \in Episodes |-> P!Flush(row[e], pass.seen[e], new[e])],
         \A e \in Episodes : /\ new[e].local = pass.seen[e].local
                             /\ \/ /\ new[e].path = pass.seen[e].path
                                   /\ new[e].recipe = pass.seen[e].recipe
                                \/ e \in pass.touched /\ ~new[e].path /\ new[e].recipe = None,
         pass' = [at |-> pass'.at, want |-> pass.want, seen |-> new, touched |-> {}],
         pass'.at \in {"measuring", "choosing"},
         UNCHANGED <<wish, alive, original, copy, part, task, remover, backoff, broken,
                     overtaken, doubled>>
  PROVE  CopyCore'
<1>1. /\ row \in [Episodes -> P!Row] /\ pass.seen \in [Episodes -> P!Row]
      /\ \A x \in P!Encoders : task[x].at = "fetching" => task[x].ep \in Episodes
      /\ original \subseteq Episodes /\ remover.eps \subseteq Episodes
  BY DEF CopyCore, CopiesTyped, P!ProcessingTypeOK
<1>2. ASSUME NEW e \in Episodes
      PROVE  /\ row'[e] \in P!Row /\ row'[e].local = row[e].local
             /\ row'[e].path = IF new[e].path # pass.seen[e].path THEN new[e].path ELSE row[e].path
             /\ row'[e].recipe = IF new[e].recipe # pass.seen[e].recipe THEN new[e].recipe
                                 ELSE row[e].recipe
  <2> DEFINE f == P!Flush(row[e], pass.seen[e], new[e])
  <2>1. row[e] \in P!Row /\ pass.seen[e] \in P!Row /\ new[e] \in P!Row
    BY <1>1
  <2>2. /\ f \in P!Row
        /\ f.local = IF new[e].local # pass.seen[e].local THEN new[e].local ELSE row[e].local
        /\ f.path = IF new[e].path # pass.seen[e].path THEN new[e].path ELSE row[e].path
        /\ f.recipe = IF new[e].recipe # pass.seen[e].recipe THEN new[e].recipe
                      ELSE row[e].recipe
    BY <2>1, FlushWrites
  <2>3. row'[e] = f
    OBVIOUS
  <2> HIDE DEF f
  <2> QED BY <2>2, <2>3
<1>3. row' \in [Episodes -> P!Row] /\ DOMAIN row' = Episodes
  BY <1>2
<1>4. CopiesTyped'
  BY <1>3 DEF CopyCore, CopiesTyped, P!ProcessingTypeOK
<1>5. OneDownload'
  BY <1>1, <1>2 DEF CopyCore, OneDownload
<1>6. ASSUME NEW e \in P!Undisturbed' PROVE CopyOK(e)'
  <2>1. e \in Episodes /\ CopyOK(e)
    BY <1>6 DEF P!Undisturbed, CopyCore
  <2>2. P!Involved(e)' = P!Involved(e)
    BY DEF P!Involved
  <2>3. pass'.seen[e] = new[e] /\ pass'.touched = {}
    OBVIOUS
  <2>4. CASE /\ new[e].path = pass.seen[e].path
             /\ new[e].recipe = pass.seen[e].recipe
    <3>1. row'[e].path = row[e].path /\ row'[e].recipe = row[e].recipe /\ row'[e].local = row[e].local
      BY <1>2, <2>1, <2>4
    <3> QED BY <2>1, <2>2, <2>3, <2>4, <3>1 DEF CopyOK, Coherent
  <2>5. CASE e \in pass.touched /\ ~new[e].path /\ new[e].recipe = None
    <3>1. P!Involved(e) = {} /\ copy[e] = {} /\ pass.seen[e].path /\ pass.seen[e].recipe # None
      BY <2>1, <2>5 DEF CopyOK, Coherent
    <3>2. ~row'[e].path /\ row'[e].recipe = None
      BY <1>2, <2>1, <2>5, <3>1
    <3> QED BY <2>1, <2>2, <2>3, <2>5, <3>1, <3>2 DEF CopyOK, Coherent
  <2> QED BY <2>1, <2>4, <2>5
<1> QED BY <1>4, <1>5, <1>6 DEF CopyCore

LEMMA CommitDropsKeeps ==
  ASSUME CopyCore, P!CommitDrops
  PROVE  CopyCore'
<1>1. PICK new : /\ new = [e \in Episodes |-> IF e \in pass.touched THEN P!Dropped(pass.seen[e])
                                                                  ELSE pass.seen[e]]
                 /\ row' = [e \in Episodes |-> P!Flush(row[e], pass.seen[e], new[e])]
                 /\ pass' = [pass EXCEPT !.at = "measuring", !.seen = new, !.touched = {}]
  BY DEF P!CommitDrops
<1>2. ASSUME NEW r \in P!Row
      PROVE  /\ P!Dropped(r) \in P!Row /\ P!Dropped(r).local = r.local /\ ~P!Dropped(r).path
             /\ P!Dropped(r).recipe = None
  BY DEF P!Dropped, P!Row
<1>3. pass.seen \in [Episodes -> P!Row]
      /\ pass = [at |-> pass.at, want |-> pass.want, seen |-> pass.seen, touched |-> pass.touched]
  BY DEF CopyCore, CopiesTyped
<1>4. new \in [Episodes -> P!Row]
  BY <1>1, <1>2, <1>3
<1>5. \A e \in Episodes : /\ new[e].local = pass.seen[e].local
                          /\ \/ /\ new[e].path = pass.seen[e].path
                                /\ new[e].recipe = pass.seen[e].recipe
                             \/ e \in pass.touched /\ ~new[e].path /\ new[e].recipe = None
  BY <1>1, <1>2, <1>3
<1>6. /\ pass' = [at |-> pass'.at, want |-> pass.want, seen |-> new, touched |-> {}]
      /\ pass'.at = "measuring"
  BY <1>1, <1>3
<1>7. UNCHANGED <<wish, alive, original, copy, part, task, remover, backoff, broken, overtaken, doubled>>
  BY DEF P!CommitDrops
<1> QED BY <1>1, <1>4, <1>5, <1>6, <1>7, PassCommits

LEMMA BackfillKeeps ==
  ASSUME CopyCore, P!Backfill
  PROVE  CopyCore'
<1>1. PICK done : done \in SUBSET P!Lacking /\
        LET new == [e \in Episodes |-> [pass.seen[e] EXCEPT !.measured = @ \/ e \in done]]
        IN  /\ row' = [e \in Episodes |-> P!Flush(row[e], pass.seen[e], new[e])]
            /\ pass' = [pass EXCEPT !.at = "choosing", !.seen = new]
  BY DEF P!Backfill
<1> DEFINE new == [e \in Episodes |-> [pass.seen[e] EXCEPT !.measured = @ \/ e \in done]]
<1>2. ASSUME NEW e \in Episodes, NEW q \in P!Row
      PROVE  LET f == [q EXCEPT !.measured = @ \/ e \in done]
             IN  f \in P!Row /\ f.local = q.local /\ f.path = q.path /\ f.recipe = q.recipe
  BY DEF P!Row
<1>3. pass.seen \in [Episodes -> P!Row]
      /\ pass = [at |-> pass.at, want |-> pass.want, seen |-> pass.seen, touched |-> pass.touched]
  BY DEF CopyCore, CopiesTyped
<1>4. new \in [Episodes -> P!Row]
  BY <1>2, <1>3
<1>5. \A e \in Episodes : /\ new[e].local = pass.seen[e].local
                          /\ new[e].path = pass.seen[e].path
                          /\ new[e].recipe = pass.seen[e].recipe
  BY <1>2, <1>3
<1>6. row' = [e \in Episodes |-> P!Flush(row[e], pass.seen[e], new[e])]
      /\ pass' = [pass EXCEPT !.at = "choosing", !.seen = new]
  BY <1>1
<1> HIDE DEF new
<1>7. /\ pass' = [at |-> pass'.at, want |-> pass.want, seen |-> new, touched |-> {}]
      /\ pass'.at = "choosing"
  BY <1>3, <1>6 DEF P!Backfill, CopyCore, CopiesTyped
<1>8. UNCHANGED <<wish, alive, original, copy, part, task, remover, backoff, broken, overtaken, doubled>>
  BY DEF P!Backfill
<1> QED BY <1>4, <1>5, <1>6, <1>7, <1>8, PassCommits

LEMMA PassRefusedKeeps ==
  ASSUME CopyCore, P!PassRefused
  PROVE  CopyCore'
<1>1. /\ pass' = P!IdlePass
      /\ UNCHANGED <<wish, alive, row, original, copy, part, task, remover, backoff, broken,
                     overtaken, doubled>>
  BY DEF P!PassRefused
<1>2. CopiesTyped' /\ OneDownload'
  BY <1>1, IdleOnes DEF CopyCore, CopiesTyped, OneDownload, P!ProcessingTypeOK
<1>3. ASSUME NEW e \in P!Undisturbed' PROVE CopyOK(e)'
  <2>1. e \in Episodes /\ CopyOK(e)
    BY <1>1, <1>3 DEF P!Undisturbed, CopyCore
  <2>2. P!Involved(e)' = P!Involved(e)
    BY <1>1 DEF P!Involved
  <2> QED BY <1>1, <2>1, <2>2, IdleOnes, BareRow DEF CopyOK
<1> QED BY <1>2, <1>3 DEF CopyCore

\* A task that is about to encode, or to fetch, with a row it took for one without a copy.
LEMMA TaskBegins ==
  ASSUME CopyCore, NEW x \in P!Encoders, NEW t \in P!Tasks,
         task' = [task EXCEPT ![x] = t], task[x].at \notin {"encoding", "accepted"},
         t.at \in {"chosen", "fetching"}, t.ep \in Episodes,
         t.ep \in P!Undisturbed => ~t.seen.path /\ t.seen.recipe = None,
         UNCHANGED <<copy, part, pass, remover, overtaken, doubled>>,
         \A e \in Episodes : /\ e \in original => e \in original'
                             /\ e \in remover.eps => e \notin original'
                             /\ row[e].local => row'[e].local
                             /\ row'[e].path = row[e].path /\ row'[e].recipe = row[e].recipe
  PROVE  \A e \in P!Undisturbed' : CopyOK(e)'
<1> SUFFICES ASSUME NEW e \in P!Undisturbed' PROVE CopyOK(e)'
  OBVIOUS
<1>1. /\ task'[x] = t /\ \A y \in P!Encoders \ {x} : task'[y] = task[y]
  BY DEF CopyCore, CopiesTyped, P!ProcessingTypeOK
<1>2. e \in Episodes /\ e \in P!Undisturbed /\ CopyOK(e)
  BY DEF P!Undisturbed, CopyCore
<1>3. P!Involved(e)' = P!Involved(e) /\ x \notin P!Involved(e)
  BY <1>1 DEF P!Involved
<1>4. \A y \in P!Involved(e) : task'[y] = task[y]
  BY <1>1, <1>3 DEF P!Involved
<1>5. \A y \in P!Encoders : task'[y].ep = e => ~task'[y].seen.path /\ task'[y].seen.recipe = None
  BY <1>1, <1>2 DEF CopyOK
<1> QED BY <1>1, <1>2, <1>3, <1>4, <1>5 DEF CopyOK, Coherent

LEMMA ChooseKeeps ==
  ASSUME CopyCore, P!Choose
  PROVE  CopyCore'
<1>0. /\ task[Loop].at = "idle" /\ Loop \in P!Encoders
      /\ UNCHANGED <<wish, alive, row, original, copy, part, remover, backoff, broken,
                     overtaken, doubled>>
  BY DEF P!Choose, P!Encoders
<1>1. CASE pass' = P!IdlePass /\ task' = task
  <2>1. CopiesTyped' /\ OneDownload'
    BY <1>0, <1>1, IdleOnes DEF CopyCore, CopiesTyped, OneDownload, P!ProcessingTypeOK
  <2>2. ASSUME NEW e \in P!Undisturbed' PROVE CopyOK(e)'
    <3>1. e \in Episodes /\ CopyOK(e)
      BY <1>0, <2>2 DEF P!Undisturbed, CopyCore
    <3>2. P!Involved(e)' = P!Involved(e)
      BY <1>1 DEF P!Involved
    <3> QED BY <1>0, <1>1, <3>1, <3>2, IdleOnes, BareRow DEF CopyOK
  <2> QED BY <2>1, <2>2 DEF CopyCore
<1>2. ASSUME NEW e \in P!Pending, pass' = pass,
             task' = [task EXCEPT ![Loop] =
               [at |-> "chosen", ep |-> e, seen |-> pass.seen[e], want |-> pass.want]]
      PROVE  CopyCore'
  <2>1. PICK t : t = [at |-> "chosen", ep |-> e, seen |-> pass.seen[e], want |-> pass.want]
    OBVIOUS
  <2>2. /\ e \in Episodes /\ ~pass.seen[e].path /\ pass.seen \in [Episodes -> P!Row]
        /\ pass.want \in Recipes \cup {None} /\ task \in [P!Encoders -> P!Tasks]
    BY DEF P!Pending, CopyCore, CopiesTyped, P!ProcessingTypeOK
  <2>3. t \in P!Tasks /\ t.at = "chosen" /\ t.ep = e /\ t.seen = pass.seen[e]
    BY <2>1, <2>2 DEF P!Tasks
  <2>4. e \in P!Undisturbed => ~t.seen.path /\ t.seen.recipe = None
    BY <2>2, <2>3 DEF CopyCore, CopyOK, Coherent
  <2>5. task' = [task EXCEPT ![Loop] = t]
    BY <1>2, <2>1
  <2>6. /\ task' \in [P!Encoders -> P!Tasks] /\ task'[Loop] = t
        /\ \A y \in P!Encoders \ {Loop} : task'[y] = task[y]
    BY <1>0, <2>2, <2>3, <2>5
  <2>7. CopiesTyped'
    BY <1>0, <1>2, <2>2, <2>3, <2>6 DEF CopyCore, CopiesTyped, P!ProcessingTypeOK
  <2>8. OneDownload'
    BY <1>0, <1>2, <2>3, <2>6 DEF CopyCore, OneDownload
  <2>9. \A o \in Episodes : o \in remover.eps => o \notin original
    BY DEF CopyCore, OneDownload
  <2>10. \A o \in P!Undisturbed' : CopyOK(o)'
    BY <1>0, <1>2, <2>2, <2>3, <2>4, <2>5, <2>9, TaskBegins
  <2> QED BY <2>7, <2>8, <2>10 DEF CopyCore
<1> QED BY <1>1, <1>2 DEF P!Choose

-----------------------------------------------------------------------------
(* Around it                                                                *)

LEMMA ClaimKeeps ==
  ASSUME CopyCore, NEW w \in Workers, NEW d \in Episodes, P!Claim(w, d)
  PROVE  CopyCore'
<1>1. /\ task[w].at = "idle" /\ w \in P!Encoders /\ ~row[d].local
      /\ \A v \in Workers : task[v].at = "fetching" => task[v].ep # d
      /\ UNCHANGED <<wish, alive, row, original, copy, part, pass, remover, backoff, broken,
                     overtaken, doubled>>
  BY DEF P!Claim, P!Encoders
<1>2. PICK t : t = [at |-> "fetching", ep |-> d, seen |-> row[d], want |-> None]
  OBVIOUS
<1>3. row \in [Episodes -> P!Row] /\ task \in [P!Encoders -> P!Tasks]
  BY DEF CopyCore, CopiesTyped, P!ProcessingTypeOK
<1>4. t \in P!Tasks /\ t.at = "fetching" /\ t.ep = d /\ t.seen = row[d]
  BY <1>2, <1>3 DEF P!Tasks
<1>5. d \in P!Undisturbed => ~t.seen.path /\ t.seen.recipe = None
  BY <1>1, <1>4 DEF CopyCore, CopyOK, Coherent
<1>6. task' = [task EXCEPT ![w] = t]
  BY <1>2 DEF P!Claim
<1>7. /\ task' \in [P!Encoders -> P!Tasks] /\ task'[w] = t
      /\ \A y \in P!Encoders \ {w} : task'[y] = task[y]
  BY <1>1, <1>3, <1>4, <1>6
<1>8. CopiesTyped'
  BY <1>1, <1>4, <1>7 DEF CopyCore, CopiesTyped, P!ProcessingTypeOK
<1>9. OneDownload'
  <2>1. \A y \in P!Encoders : task[y].at = "fetching" => task[y].ep # d
    BY <1>1 DEF CopyCore, OneDownload
  <2> QED BY <1>1, <1>4, <1>7, <2>1 DEF CopyCore, OneDownload
<1>10. \A o \in Episodes : o \in remover.eps => o \notin original
  BY DEF CopyCore, OneDownload
<1>11. \A e \in P!Undisturbed' : CopyOK(e)'
  BY <1>1, <1>4, <1>5, <1>6, <1>10, TaskBegins
<1> QED BY <1>8, <1>9, <1>11 DEF CopyCore

LEMMA FetchedKeeps ==
  ASSUME CopyCore, NEW w \in Workers, P!Fetched(w)
  PROVE  CopyCore'
<1> DEFINE d == task[w].ep
<1>1. /\ task[w].at = "fetching" /\ w \in P!Encoders /\ d \in Episodes /\ alive
      /\ ~row[d].local /\ ~task[w].seen.local /\ d \notin remover.eps
      /\ task[w].seen \in P!Row /\ row[d] \in P!Row
      /\ original' = original \cup {d}
      /\ UNCHANGED <<wish, alive, copy, part, pass, remover, backoff, broken, overtaken, doubled>>
  BY DEF P!Fetched, P!Encoders, CopyCore, CopiesTyped, OneDownload, P!ProcessingTypeOK, P!Tasks
<1>2. PICK new : new = P!Downloaded(task[w].seen)
  OBVIOUS
<1>3. /\ new \in P!Row /\ new.local = TRUE /\ new.path = task[w].seen.path
      /\ new.recipe = task[w].seen.recipe
  BY <1>1, <1>2 DEF P!Downloaded, P!Row
<1>4. PICK f : f = P!Flush(row[d], task[w].seen, new)
  OBVIOUS
<1>5. f \in P!Row /\ f.local /\ f.path = row[d].path /\ f.recipe = row[d].recipe
  BY <1>1, <1>3, <1>4, FlushWrites
<1>6. row' = [row EXCEPT ![d] = f]
  BY <1>2, <1>4 DEF P!Fetched
<1>7. /\ row' \in [Episodes -> P!Row] /\ row'[d] = f
      /\ \A e \in Episodes \ {d} : row'[e] = row[e]
  BY <1>1, <1>5, <1>6 DEF CopyCore, CopiesTyped, P!ProcessingTypeOK
<1>8. PICK t : t = [task[w] EXCEPT !.at = "chosen", !.seen = new]
  OBVIOUS
<1>9. /\ t \in P!Tasks /\ t.at = "chosen" /\ t.ep = d /\ t.seen = new
  BY <1>1, <1>3, <1>8 DEF P!Tasks, CopyCore, CopiesTyped, P!ProcessingTypeOK
<1>10. task' = [task EXCEPT ![w] = t]
  BY <1>1, <1>2, <1>8 DEF P!Fetched, CopyCore, CopiesTyped, P!ProcessingTypeOK
<1>11. /\ task' \in [P!Encoders -> P!Tasks] /\ task'[w] = t
       /\ \A y \in P!Encoders \ {w} : task'[y] = task[y]
  BY <1>1, <1>9, <1>10 DEF CopyCore, CopiesTyped, P!ProcessingTypeOK
<1>12. CopiesTyped'
  BY <1>1, <1>7, <1>9, <1>11 DEF CopyCore, CopiesTyped, P!ProcessingTypeOK
<1>13. OneDownload'
  <2>1. ASSUME NEW y \in P!Encoders, task'[y].at = "fetching"
        PROVE  y # w /\ task'[y] = task[y] /\ task[y].ep \in Episodes /\ task[y].ep # d
    BY <1>1, <1>9, <1>11, <2>1 DEF CopyCore, CopiesTyped, OneDownload
  <2>2. original \subseteq Episodes /\ remover.eps \subseteq Episodes
    BY DEF CopyCore, CopiesTyped, P!ProcessingTypeOK
  <2> QED BY <1>1, <1>5, <1>7, <2>1, <2>2 DEF CopyCore, OneDownload
<1>14. d \in P!Undisturbed => ~t.seen.path /\ t.seen.recipe = None
  BY <1>1, <1>3, <1>9 DEF CopyCore, CopyOK
<1>15. \A e \in Episodes : /\ e \in original => e \in original'
                           /\ e \in remover.eps => e \notin original'
                           /\ row[e].local => row'[e].local
                           /\ row'[e].path = row[e].path /\ row'[e].recipe = row[e].recipe
  BY <1>1, <1>5, <1>7 DEF CopyCore, OneDownload
<1>16. \A e \in P!Undisturbed' : CopyOK(e)'
  BY <1>1, <1>9, <1>10, <1>14, <1>15, TaskBegins
<1> QED BY <1>12, <1>13, <1>16 DEF CopyCore

LEMMA FetchRefusedKeeps ==
  ASSUME CopyCore, NEW w \in Workers, P!FetchRefused(w)
  PROVE  CopyCore'
<1>1. /\ task[w].at = "fetching" /\ w \in P!Encoders
      /\ task' = [task EXCEPT ![w] = P!IdleTask]
      /\ UNCHANGED <<wish, alive, row, original, copy, part, pass, remover, backoff, broken,
                     overtaken, doubled>>
  BY DEF P!FetchRefused, P!Encoders
<1>2. /\ task' \in [P!Encoders -> P!Tasks] /\ task'[w] = P!IdleTask
      /\ \A y \in P!Encoders \ {w} : task'[y] = task[y]
  BY <1>1, IdleOnes DEF CopyCore, CopiesTyped, P!ProcessingTypeOK
<1>3. CopiesTyped'
  BY <1>1, <1>2, IdleOnes DEF CopyCore, CopiesTyped, P!ProcessingTypeOK
<1>4. OneDownload'
  BY <1>1, <1>2, IdleOnes DEF CopyCore, OneDownload
<1>5. ASSUME NEW e \in P!Undisturbed' PROVE CopyOK(e)'
  <2>1. e \in P!Undisturbed /\ e \in Episodes /\ CopyOK(e)
    BY <1>1, <1>5 DEF P!Undisturbed, CopyCore
  <2>2. \A x \in P!Involved(e) : task'[x] = task[x]
    BY <1>1, <1>2 DEF P!Involved
  <2>3. \A x \in P!Encoders : x = w \/ task'[x] = task[x]
    BY <1>2
  <2>4. Coherent(pass.seen[e]) /\ Coherent(remover.seen[e])
    BY <2>1 DEF CopyOK
  <2> QED BY <1>1, <1>2, <2>1, <2>2, <2>3, <2>4, IdleOnes, OthersKeep
<1> QED BY <1>3, <1>4, <1>5 DEF CopyCore

LEMMA SettingsKeep ==
  ASSUME CopyCore, wish' \in Recipes \cup {None}, backoff' \subseteq Episodes,
         UNCHANGED <<alive, row, original, copy, part, pass, task, remover, broken,
                     overtaken, doubled>>
  PROVE  CopyCore'
<1>1. CopiesTyped' /\ OneDownload'
  BY DEF CopyCore, CopiesTyped, OneDownload, P!ProcessingTypeOK
<1>2. ASSUME NEW e \in P!Undisturbed' PROVE CopyOK(e)'
  BY <1>2 DEF CopyCore, CopyOK, P!Undisturbed, P!Involved
<1> QED BY <1>1, <1>2 DEF CopyCore

LEMMA RemoveFilesKeeps ==
  ASSUME CopyCore, NEW E \in SUBSET Episodes, NEW all \in BOOLEAN, P!RemoveFiles(E, all),
         \A e \in E : row[e].local
  PROVE  CopyCore'
<1>1. /\ remover.at = "idle" /\ alive
      /\ remover'.at = "removed" /\ remover'.eps = E /\ remover'.seen = row /\ remover'.all = all
      /\ original' = original \ E
      /\ overtaken' = overtaken \cup {e \in E : P!Involved(e) # {}}
      /\ UNCHANGED <<wish, alive, row, part, pass, task, backoff, broken, doubled>>
  BY DEF P!RemoveFiles
<1>2. /\ copy' \in [Episodes -> SUBSET Recipes]
      /\ \A e \in Episodes : copy'[e] = IF e \in E /\ row[e].path THEN {} ELSE copy[e]
  BY DEF P!RemoveFiles, CopyCore, CopiesTyped, P!ProcessingTypeOK
<1>3. CopiesTyped'
  BY <1>1, <1>2 DEF CopyCore, CopiesTyped, P!ProcessingTypeOK
<1>4. OneDownload'
  BY <1>1 DEF CopyCore, OneDownload
<1>5. ASSUME NEW e \in P!Undisturbed' PROVE CopyOK(e)'
  <2>1. e \in Episodes /\ CopyOK(e) /\ (e \in E => P!Involved(e) = {})
    BY <1>1, <1>5 DEF P!Undisturbed, CopyCore
  <2>2. P!Involved(e)' = P!Involved(e)
    BY <1>1 DEF P!Involved
  <2>3. e \in E => copy'[e] = {}
    BY <1>2, <2>1 DEF CopyOK
  <2>4. e \notin E => copy'[e] = copy[e]
    BY <1>2, <2>1
  <2>5. e \in original' <=> e \in original /\ e \notin E
    BY <1>1
  <2> QED BY <1>1, <2>1, <2>2, <2>3, <2>4, <2>5 DEF CopyOK
<1> QED BY <1>3, <1>4, <1>5 DEF CopyCore

LEMMA CommitRemovalKeeps ==
  ASSUME CopyCore, P!CommitRemoval
  PROVE  CopyCore'
<1>1. /\ remover' = P!IdleRemover /\ alive' = ~remover.all /\ remover.at = "removed"
      /\ UNCHANGED <<wish, original, copy, part, pass, task, backoff, broken, doubled>>
      /\ overtaken \subseteq overtaken' /\ overtaken' \subseteq Episodes
      /\ \A e \in Episodes : e \notin overtaken' =>
           /\ e \in remover.eps \/ remover.all => P!Involved(e) = {}
           /\ remover.all => e \in remover.eps \/ copy[e] = {}
  BY DEF P!CommitRemoval, CopyCore, CopiesTyped, P!ProcessingTypeOK
<1>2. /\ row \in [Episodes -> P!Row] /\ remover.seen \in [Episodes -> P!Row]
      /\ original \subseteq Episodes /\ remover.eps \subseteq Episodes /\ alive \in BOOLEAN
      /\ remover.all \in BOOLEAN
      /\ \A x \in P!Encoders : task[x].at = "fetching" => task[x].ep \in Episodes
  BY DEF CopyCore, CopiesTyped, P!ProcessingTypeOK
<1>3. ASSUME NEW e \in Episodes
      PROVE  /\ row'[e] \in P!Row
             /\ remover.all => row'[e] = P!Bare
             /\ ~remover.all /\ e \notin remover.eps => row'[e] = row[e]
             /\ ~remover.all /\ e \in remover.eps =>
                  /\ ~row'[e].local
                  /\ row'[e].path = IF remover.seen[e].path THEN FALSE ELSE row[e].path
                  /\ row'[e].recipe = IF remover.seen[e].recipe # None THEN None ELSE row[e].recipe
  <2> DEFINE f == P!Flush(row[e], remover.seen[e], P!Bare)
  <2>1. row[e] \in P!Row /\ remover.seen[e] \in P!Row /\ remover.seen[e].path \in BOOLEAN
        /\ row[e].local \in BOOLEAN
    BY <1>2 DEF P!Row
  <2>2. /\ f \in P!Row
        /\ f.local = IF P!Bare.local # remover.seen[e].local THEN P!Bare.local ELSE row[e].local
        /\ f.path = IF P!Bare.path # remover.seen[e].path THEN P!Bare.path ELSE row[e].path
        /\ f.recipe = IF P!Bare.recipe # remover.seen[e].recipe THEN P!Bare.recipe
                      ELSE row[e].recipe
    BY <2>1, BareRow, FlushWrites
  <2>3. P!Bare.local = FALSE /\ P!Bare.path = FALSE /\ P!Bare.recipe = None
    BY DEF P!Bare
  <2>4. e \in remover.eps => remover.seen[e].local
    BY DEF CopyCore, OneDownload
  <2>5. row'[e] = IF remover.all THEN P!Bare ELSE IF e \in remover.eps THEN f ELSE row[e]
    BY DEF P!CommitRemoval
  <2> HIDE DEF f
  <2> QED BY <2>1, <2>2, <2>3, <2>4, <2>5, BareRow
<1>4. row' \in [Episodes -> P!Row]
  <2>1. DOMAIN row' = Episodes /\ row' = [e \in Episodes |-> row'[e]]
    BY DEF P!CommitRemoval
  <2> QED BY <1>3, <2>1
<1>5. CopiesTyped'
  BY <1>1, <1>2, <1>4, IdleOnes DEF CopyCore, CopiesTyped, P!ProcessingTypeOK
<1>6. OneDownload'
  <2>1. ASSUME NEW e \in Episodes PROVE /\ ~row[e].local => ~row'[e].local
                                        /\ e \in original /\ ~remover.all /\ row[e].local => row'[e].local
    BY <1>3, BareRow DEF CopyCore, OneDownload
  <2>2. alive
    BY <1>1 DEF CopyCore, OneDownload
  <2> QED BY <1>1, <1>2, <2>1, <2>2, IdleOnes DEF CopyCore, OneDownload
<1>7. ASSUME NEW e \in P!Undisturbed' PROVE CopyOK(e)'
  <2>1. e \in Episodes /\ CopyOK(e) /\ e \notin overtaken'
    BY <1>1, <1>7 DEF P!Undisturbed, CopyCore
  <2>2. P!Involved(e)' = P!Involved(e)
    BY <1>1 DEF P!Involved
  <2>3. CASE remover.all
    <3>1. P!Involved(e) = {} /\ copy[e] = {} /\ row'[e] = P!Bare
      BY <1>1, <1>3, <2>1, <2>3 DEF CopyOK
    <3> QED BY <1>1, <2>1, <2>2, <3>1, IdleOnes, BareRow DEF CopyOK
  <2>4. CASE ~remover.all /\ e \notin remover.eps
    <3>1. row'[e] = row[e] /\ Coherent(remover'.seen[e]) /\ e \notin remover'.eps
      BY <1>1, <1>3, <2>1, <2>4, IdleOnes, BareRow
    <3> QED BY <1>1, <2>1, <2>2, <3>1 DEF CopyOK
  <2>5. CASE ~remover.all /\ e \in remover.eps
    <3>1. P!Involved(e) = {} /\ copy[e] = {} /\ (row[e].path => remover.seen[e].path)
      BY <2>1, <2>5 DEF CopyOK
    <3>2. ~row'[e].path /\ row'[e].recipe = None
      BY <1>3, <2>1, <2>5, <3>1 DEF CopyOK, Coherent
    <3> QED BY <1>1, <2>1, <2>2, <3>1, <3>2, IdleOnes, BareRow DEF CopyOK, Coherent
  <2> QED BY <2>3, <2>4, <2>5
<1> QED BY <1>5, <1>6, <1>7 DEF CopyCore

LEMMA StopKeeps ==
  ASSUME CopyCore, NEW killed \in BOOLEAN, P!Stop(killed)
  PROVE  CopyCore'
<1>1. /\ task' = [x \in P!Encoders |-> P!IdleTask] /\ pass' = P!IdlePass
      /\ remover' = P!IdleRemover /\ backoff' = {}
      /\ part' \in [Episodes -> SUBSET Recipes]
      /\ overtaken \subseteq overtaken' /\ overtaken' \subseteq Episodes
      /\ \A e \in Episodes \ overtaken' : P!Involved(e) = {}
      /\ UNCHANGED <<wish, alive, row, original, copy, broken, doubled>>
  BY DEF P!Stop, CopyCore, CopiesTyped, P!ProcessingTypeOK
<1>2. \A x \in P!Encoders : task'[x] = P!IdleTask
  BY <1>1
<1>3. CopiesTyped'
  BY <1>1, <1>2, IdleOnes DEF CopyCore, CopiesTyped, P!ProcessingTypeOK
<1>4. OneDownload'
  BY <1>1, <1>2, IdleOnes DEF CopyCore, OneDownload
<1>5. ASSUME NEW e \in P!Undisturbed' PROVE CopyOK(e)'
  <2>1. e \in Episodes /\ CopyOK(e) /\ P!Involved(e) = {}
    BY <1>1, <1>5 DEF P!Undisturbed, CopyCore
  <2>2. P!Involved(e)' = {}
    BY <1>2, IdleOnes DEF P!Involved
  <2> QED BY <1>1, <1>2, <2>1, <2>2, IdleOnes, BareRow DEF CopyOK
<1> QED BY <1>3, <1>4, <1>5 DEF CopyCore
-----------------------------------------------------------------------------
LEMMA CopyStep == CopyCore /\ P!Next => CopyCore'
<1> SUFFICES ASSUME CopyCore, P!Next PROVE CopyCore'
  OBVIOUS
<1>1. ASSUME NEW x \in P!Encoders, P!Encode(x) PROVE CopyCore'
  BY <1>1, DeclineKeeps, BeginEncodeKeeps, AcceptKeeps, FailKeeps, RecordKeeps,
     RecordRefusedKeeps DEF P!Encode
<1>2. CASE P!Reconcile
  BY <1>2, LookKeeps, CommitDropsKeeps, BackfillKeeps, PassRefusedKeeps, ChooseKeeps DEF P!Reconcile
<1>3. CASE P!BackoffEnds
  BY <1>3, SettingsKeep DEF P!BackoffEnds, CopyCore, CopiesTyped, P!ProcessingTypeOK
<1>4. ASSUME NEW w \in Workers, (\E e \in Episodes : P!Claim(w, e)) \/ P!Fetched(w) \/ P!FetchRefused(w)
      PROVE  CopyCore'
  BY <1>4, ClaimKeeps, FetchedKeeps, FetchRefusedKeeps
<1>5. ASSUME NEW r \in Recipes \cup {None}, P!Change(r) PROVE CopyCore'
  BY <1>5, SettingsKeep DEF P!Change, CopyCore, CopiesTyped, P!ProcessingTypeOK
<1>6. CASE (\E e \in Episodes : P!Purge(e)) \/ P!Unsubscribe \/ P!CommitRemoval
  <2>1. ASSUME NEW e \in Episodes, P!Purge(e) PROVE CopyCore'
    <3>1. {e} \in SUBSET Episodes /\ P!RemoveFiles({e}, FALSE) /\ \A o \in {e} : row[o].local
      BY <2>1 DEF P!Purge
    <3> QED BY <3>1, RemoveFilesKeeps
  <2>2. CASE P!Unsubscribe
    <3>1. PICK E : E = {e \in Episodes : row[e].local}
      OBVIOUS
    <3>2. E \in SUBSET Episodes /\ P!RemoveFiles(E, TRUE) /\ \A e \in E : row[e].local
      BY <2>2, <3>1 DEF P!Unsubscribe
    <3> QED BY <3>2, RemoveFilesKeeps
  <2> QED BY <1>6, <2>1, <2>2, CommitRemovalKeeps
<1>7. ASSUME NEW killed \in BOOLEAN, P!Stop(killed) PROVE CopyCore'
  BY <1>7, StopKeeps
<1> QED BY <1>1, <1>2, <1>3, <1>4, <1>5, <1>6, <1>7 DEF P!Next

\* The inductive invariant of the processed copies.
THEOREM CopyInvariant == Spec => [](whose = "processing" => CopyCore)
<1>1. Init => (whose = "processing" => CopyCore)
  BY CopyInit DEF Init
<1>2. (whose = "processing" => CopyCore) /\ [Next]_vars => (whose = "processing" => CopyCore)'
  <2> SUFFICES ASSUME whose = "processing" => CopyCore, [Next]_vars, whose' = "processing"
               PROVE  CopyCore'
    OBVIOUS
  <2>1. CASE Next
    <3>1. whose = "processing"
      BY <2>1, WhoseStays
    <3>2. P!Next
      BY <2>1, <3>1 DEF Next, OnlyTimeline, OnlyServing, OnlyRefreshing, OnlySubscribing,
                        OnlySignIn, OnlyQueue, OnlyArtwork, OnlyNotifying
    <3> QED BY <3>1, <3>2, CopyStep
  <2>2. CASE UNCHANGED vars
    <3>1. CopyCore /\ UNCHANGED <<wish, alive, row, original, copy, part, pass, task, remover,
                                  backoff, broken, overtaken, doubled>>
      BY <2>2 DEF vars, processingVars
    <3> QED BY <3>1, SettingsKeep DEF CopyCore, CopiesTyped, P!ProcessingTypeOK
  <2> QED BY <2>1, <2>2
<1> QED BY <1>1, <1>2, PTL DEF Spec

(* retention.py:47, models.py:241: whatever purges, settings, restarts, other encodes and the  *)
(* passes do, for any number of workers, episodes and recipes, the copy of an episode that no  *)
(* encode was disturbed at goes with its download and is made by what processed_recipe says.   *)
THEOREM CopiesFollow == Spec => []ProcessingConsistent
<1>1. CopyCore => P!ProcessingConsistent
  BY DEF CopyCore, CopiesTyped, CopyOK, P!ProcessingConsistent, P!CopyFollowsDownload,
         P!RecipeTellsCopy
<1> QED BY <1>1, CopyInvariant, PTL DEF ProcessingConsistent

-----------------------------------------------------------------------------
(* Induction over the places of a list, and recursion along it              *)

LEMMA UpTo ==
  ASSUME NEW last \in Nat, NEW S, 0 \in S, \A i \in 0..(last - 1) : i \in S => i + 1 \in S
  PROVE  \A i \in 0..last : i \in S
<1> SUFFICES ASSUME NEW j \in 0..last, j \notin S PROVE FALSE
  OBVIOUS
<1> DEFINE T0 == {i \in 0..last : i \notin S}
<1>1. T0 \subseteq Nat /\ T0 # {}
  OBVIOUS
<1>2. PICK x \in T0 : \A y \in T0 : ~(<<y, x>> \in OpToRel(<, Nat))
  <2> HIDE DEF T0
  <2> QED BY <1>1, NatLessThanWellFounded, WFMin
<1>3. x # 0 /\ x \in Nat
  OBVIOUS
<1>4. x - 1 \in T0
  BY <1>3
<1>5. <<x - 1, x>> \in OpToRel(<, Nat)
  BY <1>3 DEF OpToRel
<1> QED BY <1>2, <1>4, <1>5

\* A step on values, taken at each place of a list in turn.
Follows(f, n, Values, base, step) ==
  f \in [0..n -> Values] /\ f[0] = base /\ \A i \in 1..n : f[i] = step[<<f[i-1], i>>]

LEMMA Recursion ==
  ASSUME NEW last \in Nat, NEW Values, NEW base \in Values, NEW step \in [Values \X (1..last) -> Values]
  PROVE  \E f : Follows(f, last, Values, base, step)
<1> DEFINE Good(k, f) == f[0] = base /\ \A i \in 1..k : f[i] = step[<<f[i-1], i>>]
           S == {k \in 0..last : \E f \in [0..k -> Values] : Good(k, f)}
<1>1. 0 \in S
  <2>1. PICK f : f = [i \in 0..0 |-> base]
    OBVIOUS
  <2>2. f \in [0..0 -> Values] /\ Good(0, f)
    BY <2>1
  <2> QED BY <2>2
<1>2. ASSUME NEW k \in 0..(last - 1), k \in S PROVE k + 1 \in S
  <2>1. PICK f \in [0..k -> Values] : Good(k, f)
    BY <1>2
  <2>2. PICK g : g = [i \in 0..(k + 1) |-> IF i <= k THEN f[i] ELSE step[<<f[k], k + 1>>]]
    OBVIOUS
  <2>3. g \in [0..(k + 1) -> Values]
    <3>1. k \in 0..k /\ k + 1 \in 1..last
      OBVIOUS
    <3>2. step[<<f[k], k + 1>>] \in Values
      BY <3>1
    <3> QED BY <2>2, <3>2
  <2>4. Good(k + 1, g)
    <3>1. g[0] = base
      BY <2>1, <2>2
    <3>2. ASSUME NEW i \in 1..(k + 1) PROVE g[i] = step[<<g[i-1], i>>]
      <4>1. CASE i <= k
        <5>1. i \in 1..k /\ i - 1 \in 0..k /\ i \in 0..k
          BY <4>1
        <5> QED BY <2>1, <2>2, <5>1
      <4>2. CASE i = k + 1
        <5>1. g[k + 1] = step[<<f[k], k + 1>>] /\ g[k] = f[k]
          BY <2>2
        <5> QED BY <4>2, <5>1
      <4> QED BY <4>1, <4>2
    <3> QED BY <3>1, <3>2
  <2>5. k + 1 \in 0..last
    OBVIOUS
  <2> HIDE DEF Good
  <2> QED BY <2>3, <2>4, <2>5
<1>3. last \in S
  <2> HIDE DEF S
  <2> QED BY <1>1, <1>2, UpTo
<1> QED BY <1>3 DEF Follows

-----------------------------------------------------------------------------
(* Sums along a list                                                        *)

LEMMA AList ==
  ASSUME NEW n \in Nat, NEW S, NEW ns \in [1..n -> S]
  PROVE  ns \in Seq(S) /\ Len(ns) = n /\ DOMAIN ns = 1..n
<1>1. ns \in Seq(S)
  BY SeqDef
<1> QED BY <1>1, LenProperties

\* What a sum along a list is made of.
Sums(sum, ns, n) ==
  /\ sum \in [0..n -> Nat] /\ sum[0] = 0
  /\ \A i \in 1..n : sum[i] = sum[i-1] + ns[i]

LEMMA TotalIs ==
  ASSUME NEW n \in Nat, NEW ns \in [1..n -> Nat]
  PROVE  \E sum : Sums(sum, ns, n) /\ T!Total(ns) = sum[n]
<1>1. Len(ns) = n
  BY AList
<1>2. PICK step : step = [p \in Nat \X (1..n) |-> p[1] + ns[p[2]]]
  OBVIOUS
<1>3. step \in [Nat \X (1..n) -> Nat]
  BY <1>2
<1>4. 0 \in Nat
  OBVIOUS
<1>5. PICK f : Follows(f, n, Nat, 0, step)
  BY <1>3, <1>4, Recursion
<1>6. Sums(f, ns, n)
  <2> SUFFICES ASSUME NEW i \in 1..n PROVE f[i] = f[i-1] + ns[i]
    BY <1>5 DEF Sums, Follows
  <2>1. i - 1 \in 0..n
    OBVIOUS
  <2>2. PICK m \in Nat : m = f[i-1]
    BY <1>5, <2>1 DEF Follows
  <2>3. step[<<m, i>>] = m + ns[i]
    BY <1>2
  <2> QED BY <1>5, <2>2, <2>3 DEF Follows
<1> DEFINE F(s) == [i \in 0..Len(ns) |-> IF i = 0 THEN 0 ELSE s[i-1] + ns[i]]
<1>7. f = F(f)
  BY <1>1, <1>6 DEF Sums
<1>8. PICK sum : sum = F(sum) /\ T!Total(ns) = sum[n]
  BY <1>1, <1>7 DEF T!Total
<1>9. sum[0] = 0 /\ \A i \in 1..n : sum[i] = sum[i-1] + ns[i]
  BY <1>1, <1>8
<1>10. \A i \in 0..n : i \in {j \in 0..n : sum[j] = f[j]}
  <2> DEFINE S == {j \in 0..n : sum[j] = f[j]}
  <2>1. 0 \in S
    BY <1>5, <1>9 DEF Follows
  <2>2. \A i \in 0..(n - 1) : i \in S => i + 1 \in S
    BY <1>6, <1>9 DEF Sums
  <2> HIDE DEF S
  <2>3. \A i \in 0..n : i \in S
    BY <2>1, <2>2, UpTo
  <2> QED BY <2>3 DEF S
<1>11. n \in 0..n /\ sum[n] = f[n]
  BY <1>10
<1> HIDE DEF F
<1> QED BY <1>6, <1>8, <1>11

LEMMA SameSum ==
  ASSUME NEW n \in Nat, NEW ns, NEW ms, NEW f, NEW g, Sums(f, ns, n), Sums(g, ms, n),
         \A i \in 1..n : ns[i] = ms[i]
  PROVE  f[n] = g[n]
<1> DEFINE S == {j \in 0..n : f[j] = g[j]}
<1>1. 0 \in S
  BY DEF Sums
<1>2. \A i \in 0..(n - 1) : i \in S => i + 1 \in S
  BY DEF Sums
<1>3. n \in 0..n
  OBVIOUS
<1>4. n \in S
  <2> HIDE DEF S
  <2> QED BY <1>1, <1>2, <1>3, UpTo
<1> QED BY <1>4

-----------------------------------------------------------------------------
(* Cuts                                                                     *)

\* Lists of cuts in the order of the file, apart, and within it.
CutLists ==
  {c \in Seq(Nat \X Nat) :
     /\ \A i \in 1..Len(c) : c[i][1] < c[i][2] /\ c[i][2] <= Length
     /\ \A i, j \in 1..Len(c) : i < j => c[i][2] < c[j][1]}

LEMMA CutsTyped ==
  ASSUME NEW c \in CutLists
  PROVE  /\ Len(c) \in Nat /\ DOMAIN c = 1..Len(c)
         /\ \A i \in 1..Len(c) : /\ c[i][1] \in Nat /\ c[i][2] \in Nat
                                 /\ c[i][1] < c[i][2] /\ c[i][2] <= Length
<1>1. c \in Seq(Nat \X Nat)
  BY DEF CutLists
<1>2. Len(c) \in Nat /\ DOMAIN c = 1..Len(c)
  BY <1>1, LenProperties
<1>3. ASSUME NEW i \in 1..Len(c) PROVE c[i][1] \in Nat /\ c[i][2] \in Nat
  <2>1. c[i] \in Nat \X Nat
    BY <1>1, ElementOfSeq
  <2> QED BY <2>1
<1> QED BY <1>2, <1>3 DEF CutLists

Lengths(c) == [i \in 1..Len(c) |-> c[i][2] - c[i][1]]
Gones(t, c) == [i \in 1..Len(c) |-> T!Gone(t, c[i])]

LEMMA RemovedIs ==
  ASSUME NEW c \in CutLists
  PROVE  \E sum : Sums(sum, Lengths(c), Len(c)) /\ T!RemovedInAll(c) = sum[Len(c)]
<1>1. Lengths(c) \in [1..Len(c) -> Nat]
  BY CutsTyped DEF Lengths
<1>2. T!RemovedInAll(c) = T!Total(Lengths(c))
  BY CutsTyped DEF Lengths, T!RemovedInAll
<1> QED BY <1>1, <1>2, CutsTyped, TotalIs

LEMMA GoneTyped ==
  ASSUME NEW c \in CutLists, NEW t \in Nat, NEW i \in 1..Len(c)
  PROVE  T!Gone(t, c[i]) \in Nat /\ T!Gone(t, c[i]) <= t
BY CutsTyped DEF T!Gone

LEMMA ProcessedIs ==
  ASSUME NEW c \in CutLists, NEW t \in Nat
  PROVE  \E sum : Sums(sum, Gones(t, c), Len(c)) /\ T!ToProcessed(t, c) = t - sum[Len(c)]
<1>1. Gones(t, c) \in [1..Len(c) -> Nat]
  BY GoneTyped DEF Gones
<1>2. T!ToProcessed(t, c) = t - T!Total(Gones(t, c))
  BY CutsTyped DEF Gones, T!ToProcessed
<1> QED BY <1>1, <1>2, CutsTyped, TotalIs

LEMMA SpanCount ==
  ASSUME NEW a \in Nat, NEW b \in Nat, a <= b
  PROVE  IsFiniteSet(a..(b - 1)) /\ Cardinality(a..(b - 1)) = b - a
<1>1. PICK e : e = b - 1
  OBVIOUS
<1>2. e \in Int /\ a \in Int
  BY <1>1
<1>3. IsFiniteSet(a..e) /\ Cardinality(a..e) = IF a > e THEN 0 ELSE e - a + 1
  BY <1>2, FS_Interval
<1> QED BY <1>1, <1>3

LEMMA CountKept ==
  ASSUME NEW c \in CutLists, NEW t \in 0..Length, NEW sum, Sums(sum, Gones(t, c), Len(c))
  PROVE  T!Before(c, t) = t - sum[Len(c)]
<1> DEFINE n == Len(c)
           K(i) == {u \in 0..(t - 1) : \A j \in 1..i : u < c[j][1] \/ u >= c[j][2]}
           S == {i \in 0..n : IsFiniteSet(K(i)) /\ Cardinality(K(i)) = t - sum[i]}
<1>1. n \in Nat /\ t \in Nat
  BY CutsTyped, TimelineAssumption
<1>2. 0 \in S
  <2>1. K(0) = 0..(t - 1)
    OBVIOUS
  <2>2. 0 \in Nat /\ 0 <= t
    BY <1>1
  <2>3. IsFiniteSet(0..(t - 1)) /\ Cardinality(0..(t - 1)) = t - 0
    BY <1>1, <2>2, SpanCount
  <2>4. sum[0] = 0 /\ 0 \in 0..n
    BY <1>1 DEF Sums
  <2> HIDE DEF K
  <2> QED BY <1>1, <2>1, <2>3, <2>4
<1>3. ASSUME NEW i \in 0..(n - 1), i \in S PROVE i + 1 \in S
  <2>1. PICK k : k = i + 1
    OBVIOUS
  <2>2. k \in 1..n /\ i \in 0..n
    BY <1>1, <2>1
  <2>3. PICK a, b : a = c[k][1] /\ b = c[k][2]
    OBVIOUS
  <2>4. a \in Nat /\ b \in Nat /\ a < b /\ b <= Length
    BY <2>2, <2>3, CutsTyped
  <2>5. PICK e : e = IF b <= t THEN b - 1 ELSE t - 1
    OBVIOUS
  <2>6. e \in Int
    BY <1>1, <2>4, <2>5
  <2>7. K(k) = K(i) \ (a..e)
    <3>1. \A u \in 0..(t - 1) : u \in a..e <=> u >= a /\ u < b
      BY <1>1, <2>4, <2>5
    <3>2. \A u : u \in K(k) <=> u \in K(i) /\ (u < a \/ u >= b)
      BY <1>1, <2>1, <2>2, <2>3
    <3>3. \A u : u \in K(i) => u \in 0..(t - 1)
      OBVIOUS
    <3>4. \A u : u \in K(i) => (u \notin a..e <=> u < a \/ u >= b)
      BY <2>4, <3>1, <3>3
    <3> HIDE DEF K
    <3> QED BY <3>2, <3>4
  <2>8. a..e \subseteq K(i)
    <3> SUFFICES ASSUME NEW u \in a..e PROVE u \in K(i)
      OBVIOUS
    <3>1. u \in 0..(t - 1)
      BY <1>1, <2>4, <2>5
    <3>2. ASSUME NEW j \in 1..i PROVE u >= c[j][2]
      <4>1. j \in 1..n /\ k \in 1..n /\ j < k
        BY <1>1, <2>1, <2>2
      <4>2. c[j][2] < a
        BY <4>1, <2>3 DEF CutLists
      <4>3. c[j][2] \in Nat
        BY <4>1, CutsTyped
      <4> QED BY <2>4, <2>6, <4>2, <4>3
    <3> QED BY <3>1, <3>2
  <2>9. Cardinality(a..e) = Gones(t, c)[k] /\ IsFiniteSet(a..e)
    <3>1. /\ IsFiniteSet(a..e)
          /\ Cardinality(a..e) = IF a > e THEN 0 ELSE e - a + 1
      BY <2>4, <2>6, FS_Interval
    <3>2. Gones(t, c)[k] = T!Gone(t, c[k])
      BY <2>2 DEF Gones
    <3>3. T!Gone(t, c[k]) = IF b <= t THEN b - a ELSE IF a < t THEN t - a ELSE 0
      BY <2>3 DEF T!Gone
    <3> QED BY <1>1, <2>4, <2>5, <3>1, <3>2, <3>3
  <2>10. IsFiniteSet(K(i)) /\ Cardinality(K(i)) = t - sum[i]
    BY <1>3
  <2>11. sum[k] = sum[i] + Gones(t, c)[k] /\ sum[i] \in Nat /\ Gones(t, c)[k] \in Nat
    <3>1. k - 1 = i
      BY <2>1, <2>2
    <3>2. T!Gone(t, c[k]) \in Nat
      BY <1>1, <2>2, GoneTyped
    <3>3. Gones(t, c)[k] \in Nat
      BY <2>2, <3>2 DEF Gones
    <3> QED BY <2>2, <3>1, <3>3 DEF Sums
  <2>12. IsFiniteSet(K(k)) /\ Cardinality(K(k)) = t - sum[k]
    <3> HIDE DEF K
    <3>1. K(i) \cap (a..e) = a..e
      BY <2>8
    <3>2. /\ IsFiniteSet(K(i) \ (a..e))
          /\ Cardinality(K(i) \ (a..e)) = Cardinality(K(i)) - Cardinality(K(i) \cap (a..e))
      BY <2>10, FS_Difference
    <3>3. IsFiniteSet(K(k)) /\ Cardinality(K(k)) = (t - sum[i]) - Gones(t, c)[k]
      BY <2>7, <2>9, <2>10, <3>1, <3>2
    <3>4. PICK x, y : x = sum[i] /\ y = Gones(t, c)[k]
      OBVIOUS
    <3>5. x \in Nat /\ y \in Nat /\ sum[k] = x + y
      BY <2>11, <3>4
    <3>6. (t - x) - y = t - (x + y)
      BY <1>1, <3>5
    <3> QED BY <3>3, <3>4, <3>5, <3>6
  <2> QED BY <2>1, <2>2, <2>12
<1>4. n \in S
  <2>1. n \in 0..n
    BY <1>1
  <2> HIDE DEF S, n
  <2> QED BY <1>1, <1>2, <1>3, <2>1, UpTo
<1>5. {u \in T!Kept(c) : u < t} = K(n)
  BY <1>1, CutsTyped, TimelineAssumption DEF T!Kept
<1> QED BY <1>4, <1>5 DEF T!Before, T!Cardinality, Cardinality

\* The copy's clock counts what was kept.
LEMMA ClockCounts ==
  ASSUME NEW c \in CutLists, NEW t \in 0..Length
  PROVE  T!ToProcessed(t, c) = T!Before(c, t)
<1>1. t \in Nat
  BY TimelineAssumption
<1> QED BY <1>1, ProcessedIs, CountKept

\* From the end on everything that was removed is gone.
LEMMA PastTheEnd ==
  ASSUME NEW c \in CutLists, NEW t \in Nat, t >= Length
  PROVE  T!ToProcessed(t, c) = t - T!RemovedInAll(c)
<1>1. \A i \in 1..Len(c) : Gones(t, c)[i] = Lengths(c)[i]
  BY CutsTyped, TimelineAssumption DEF Gones, Lengths, T!Gone
<1>2. PICK f : Sums(f, Gones(t, c), Len(c)) /\ T!ToProcessed(t, c) = t - f[Len(c)]
  BY ProcessedIs
<1>3. PICK g : Sums(g, Lengths(c), Len(c)) /\ T!RemovedInAll(c) = g[Len(c)]
  BY RemovedIs
<1>4. f[Len(c)] = g[Len(c)]
  BY <1>1, <1>2, <1>3, CutsTyped, SameSum
<1> QED BY <1>2, <1>3, <1>4

LEMMA KeptFinite ==
  ASSUME NEW c
  PROVE  IsFiniteSet(T!Kept(c))
<1>1. Length - 1 \in Int /\ 0 \in Int
  BY TimelineAssumption
<1>2. IsFiniteSet(0..(Length - 1))
  BY <1>1, FS_Interval
<1> QED BY <1>2, FS_Subset DEF T!Kept

LEMMA KeptIs ==
  ASSUME NEW c \in CutLists
  PROVE  /\ Cardinality(T!Kept(c)) = Length - T!RemovedInAll(c)
         /\ T!RemovedInAll(c) \in 0..Length
         /\ \A t \in Nat : t >= Length => T!Before(c, t) = Length - T!RemovedInAll(c)
<1>1. Length \in Nat /\ Length \in 0..Length /\ Length >= Length
  BY TimelineAssumption
<1>2. T!Before(c, Length) = Length - T!RemovedInAll(c)
  BY <1>1, ClockCounts, PastTheEnd
<1>3. ASSUME NEW t \in Nat, t >= Length
      PROVE  T!Before(c, t) = Cardinality(T!Kept(c))
  <2>1. {u \in T!Kept(c) : u < t} = T!Kept(c)
    BY <1>1, <1>3 DEF T!Kept
  <2> QED BY <2>1 DEF T!Before, T!Cardinality, Cardinality
<1>4. Cardinality(T!Kept(c)) \in Nat
  BY KeptFinite, FS_CardinalityType
<1>5. T!RemovedInAll(c) \in Nat
  <2>1. PICK sum : Sums(sum, Lengths(c), Len(c)) /\ T!RemovedInAll(c) = sum[Len(c)]
    BY RemovedIs
  <2> QED BY <2>1, CutsTyped DEF Sums
<1> QED BY <1>1, <1>2, <1>3, <1>4, <1>5

\* What comes before grows with the moment, and no faster.
LEMMA BeforeMoves ==
  ASSUME NEW c, NEW s \in Nat, NEW t \in Nat, s <= t
  PROVE  /\ T!Before(c, s) \in Nat /\ T!Before(c, t) \in Nat
         /\ T!Before(c, s) <= T!Before(c, t)
         /\ T!Before(c, t) <= T!Before(c, s) + (t - s)
<1> DEFINE K(x) == {u \in T!Kept(c) : u < x}
<1>1. \A x : IsFiniteSet(K(x)) /\ Cardinality(K(x)) \in Nat
  BY KeptFinite, FS_Subset, FS_CardinalityType
<1>2. \A x : T!Before(c, x) = Cardinality(K(x))
  BY DEF T!Before, T!Cardinality, Cardinality
<1>3. T!Kept(c) \subseteq Nat
  BY DEF T!Kept
<1>4. K(s) \subseteq K(t)
  BY <1>3
<1>5. Cardinality(K(s)) <= Cardinality(K(t))
  <2> HIDE DEF K
  <2> QED BY <1>1, <1>4, FS_Subset
<1>7. IsFiniteSet(s..(t - 1)) /\ Cardinality(s..(t - 1)) = t - s
  BY SpanCount
<1>8. K(t) \ K(s) \subseteq s..(t - 1)
  BY <1>3
<1>9. Cardinality(K(t) \ K(s)) <= t - s
  BY <1>7, <1>8, FS_Subset
<1>10. Cardinality(K(t) \ K(s)) = Cardinality(K(t)) - Cardinality(K(s))
  <2>1. K(t) \cap K(s) = K(s)
    BY <1>4
  <2> HIDE DEF K
  <2> QED BY <1>1, <2>1, FS_Difference
<1> HIDE DEF K
<1> QED BY <1>1, <1>2, <1>5, <1>9, <1>10

\* to_original undoes to_processed at every place of the copy.
LEMMA ThereAndBack ==
  ASSUME NEW c \in CutLists, NEW t \in Nat, t <= Length - T!RemovedInAll(c)
  PROVE  T!ToOriginal(t, c) \in 0..Length /\ T!Before(c, T!ToOriginal(t, c)) = t
<1> DEFINE n == Len(c)
           F(g) == [i \in 0..n |-> IF i = 0 THEN 0
                                   ELSE IF t <= c[i][1] - g[i-1] THEN g[i-1]
                                   ELSE g[i-1] + c[i][2] - c[i][1]]
           TakenAt(p) == IF t <= c[p[2]][1] - p[1] THEN p[1] ELSE p[1] + c[p[2]][2] - c[p[2]][1]
<1>1. n \in Nat /\ 0 \in Nat /\ Length \in Nat
  BY CutsTyped, TimelineAssumption
<1>2. PICK step : step = [p \in Nat \X (1..n) |-> TakenAt(p)]
  OBVIOUS
<1>3. step \in [Nat \X (1..n) -> Nat]
  <2>1. ASSUME NEW p \in Nat \X (1..n) PROVE TakenAt(p) \in Nat
    <3>1. PICK m \in Nat, i \in 1..n : p = <<m, i>>
      OBVIOUS
    <3>2. c[i][1] \in Nat /\ c[i][2] \in Nat /\ c[i][1] < c[i][2]
      BY CutsTyped
    <3> QED BY <3>1, <3>2
  <2> HIDE DEF TakenAt
  <2> QED BY <1>2, <2>1
<1>4. PICK f : Follows(f, n, Nat, 0, step)
  <2> HIDE DEF n
  <2> QED BY <1>1, <1>3, Recursion
<1>5. f = F(f)
  <2>1. ASSUME NEW i \in 1..n
        PROVE  f[i] = IF t <= c[i][1] - f[i-1] THEN f[i-1] ELSE f[i-1] + c[i][2] - c[i][1]
    <3>1. PICK m : m = f[i-1]
      OBVIOUS
    <3>2. m \in Nat
      BY <1>1, <1>4, <3>1 DEF Follows
    <3>3. f[i] = step[<<m, i>>]
      BY <1>4, <3>1 DEF Follows
    <3>4. step[<<m, i>>] = TakenAt(<<m, i>>)
      BY <1>2, <3>2
    <3> QED BY <3>1, <3>3, <3>4
  <2> QED BY <1>1, <1>4, <2>1 DEF Follows
<1>6. PICK g : g = F(g) /\ T!ToOriginal(t, c) = t + g[n]
  BY <1>5 DEF T!ToOriginal
<1>7. g[0] = 0 /\ \A i \in 1..n : g[i] = IF t <= c[i][1] - g[i-1] THEN g[i-1]
                                        ELSE g[i-1] + c[i][2] - c[i][1]
  BY <1>1, <1>6
<1> HIDE DEF F, TakenAt
<1>8. ASSUME NEW i \in 0..n PROVE g[i] \in Nat
  <2> DEFINE S == {j \in 0..n : g[j] \in Nat}
  <2>1. 0 \in S
    BY <1>1, <1>7
  <2>2. ASSUME NEW j \in 0..(n - 1), j \in S PROVE j + 1 \in S
    <3>1. PICK k : k = j + 1
      OBVIOUS
    <3>2. k \in 1..n /\ k - 1 = j
      BY <1>1, <3>1
    <3>3. c[k][1] \in Nat /\ c[k][2] \in Nat /\ c[k][1] < c[k][2]
      BY <3>2, CutsTyped
    <3>4. g[j] \in Nat
      BY <2>2
    <3>5. g[k] \in Nat
      <4>1. PICK a, b, m : a = c[k][1] /\ b = c[k][2] /\ m = g[j]
        OBVIOUS
      <4>2. g[k] = IF t <= a - m THEN m ELSE m + b - a
        BY <1>7, <3>2, <4>1
      <4>3. a \in Nat /\ b \in Nat /\ a < b /\ m \in Nat
        BY <3>3, <3>4, <4>1
      <4>4. m + b - a \in Nat
        BY <4>3
      <4> QED BY <4>2, <4>3, <4>4
    <3> QED BY <3>1, <3>2, <3>5
  <2>3. i \in S
    <3> HIDE DEF S, n
    <3> QED BY <1>1, <2>1, <2>2, UpTo
  <2> QED BY <2>3
\* A cut that is not taken ends it, and the sum only grows.
<1>9. ASSUME NEW i \in 1..n, t <= c[i][1] - g[i-1] PROVE g[n] = g[i-1]
  <2> DEFINE S == {j \in 0..n : j >= i - 1 => g[j] = g[i-1]}
  <2>1. 0 \in S
    BY <1>1
  <2>2. ASSUME NEW j \in 0..(n - 1), j \in S PROVE j + 1 \in S
    <3>1. PICK k : k = j + 1
      OBVIOUS
    <3>2. k \in 1..n /\ k - 1 = j /\ k \in 0..n
      BY <1>1, <3>1
    <3>3. CASE j < i - 1
      BY <3>1, <3>2, <3>3
    <3>4. CASE j >= i - 1
      <4>1. g[j] = g[i-1]
        BY <2>2, <3>4
      <4>2. c[i][1] <= c[k][1]
        <5>1. CASE k = i
          BY <5>1, CutsTyped
        <5>2. CASE k # i
          <6>1. i < k
            BY <3>1, <3>2, <3>4, <5>2
          <6>2. c[i][2] < c[k][1]
            BY <3>2, <6>1 DEF CutLists
          <6> QED BY <3>2, <6>2, CutsTyped
        <5> QED BY <5>1, <5>2
      <4>3. g[j] \in Nat
        BY <1>8
      <4>4. t <= c[k][1] - g[j]
        BY <1>9, <3>2, <4>1, <4>2, <4>3, CutsTyped
      <4>5. g[k] = g[j]
        BY <1>7, <3>2, <4>4
      <4> QED BY <3>1, <3>2, <4>1, <4>5
    <3> QED BY <3>3, <3>4
  <2>3. n \in S
    <3>1. n \in 0..n
      BY <1>1
    <3> HIDE DEF S, n
    <3> QED BY <1>1, <2>1, <2>2, <3>1, UpTo
  <2> QED BY <1>1, <2>3
<1>10. ASSUME NEW i \in 0..n PROVE g[i] <= g[n]
  <2> DEFINE S == {j \in 0..n : j >= i => g[i] <= g[j]}
  <2>1. 0 \in S
    BY <1>1, <1>8
  <2>2. ASSUME NEW j \in 0..(n - 1), j \in S PROVE j + 1 \in S
    <3>1. PICK k : k = j + 1
      OBVIOUS
    <3>2. k \in 1..n /\ k - 1 = j /\ k \in 0..n
      BY <1>1, <3>1
    <3>3. g[i] \in Nat /\ g[j] \in Nat /\ g[k] \in Nat
      BY <1>8, <3>2
    <3>4. g[j] <= g[k]
      <4>1. PICK a, b, m : a = c[k][1] /\ b = c[k][2] /\ m = g[j]
        OBVIOUS
      <4>2. g[k] = IF t <= a - m THEN m ELSE m + b - a
        BY <1>7, <3>2, <4>1
      <4>3. a \in Nat /\ b \in Nat /\ a < b /\ m \in Nat
        BY <3>2, <3>3, <4>1, CutsTyped
      <4>4. m <= m + b - a /\ m <= m
        BY <4>3
      <4>5. m <= g[k]
        BY <4>2, <4>4
      <4> QED BY <4>1, <4>5
    <3>5. CASE k = i
      BY <3>1, <3>2, <3>3, <3>5
    <3>6. CASE k # i
      <4>1. k >= i => g[i] <= g[j]
        BY <2>2, <3>2, <3>6
      <4> QED BY <3>1, <3>2, <3>3, <3>4, <4>1
    <3> QED BY <3>5, <3>6
  <2>3. n \in S
    <3>1. n \in 0..n
      BY <1>1
    <3> HIDE DEF S, n
    <3> QED BY <1>1, <2>1, <2>2, <3>1, UpTo
  <2> QED BY <1>1, <2>3
\* So the sum is what to_processed takes off again.
<1> DEFINE o == t + g[n]
<1>11. g[n] \in Nat /\ o \in Nat /\ n \in 0..n
  BY <1>1, <1>8
<1>12. ASSUME NEW i \in 1..n PROVE g[i] = g[i-1] + Gones(o, c)[i]
  <2>1. i - 1 \in 0..n /\ i \in 0..n
    BY <1>1
  <2>2. PICK a, b, m, k, last : a = c[i][1] /\ b = c[i][2] /\ m = g[i-1] /\ k = g[i]
                                /\ last = g[n]
    OBVIOUS
  <2>3. a \in Nat /\ b \in Nat /\ a < b /\ m \in Nat /\ k \in Nat /\ last \in Nat
    BY <1>8, <1>11, <2>1, <2>2, CutsTyped
  <2>4. k = IF t <= a - m THEN m ELSE m + b - a
    BY <1>7, <2>2
  <2>5. t <= a - m => last = m
    BY <1>9, <2>2
  <2>6. k <= last
    BY <1>10, <2>1, <2>2
  <2>7. Gones(o, c)[i] = IF b <= t + last THEN b - a
                         ELSE IF a < t + last THEN (t + last) - a ELSE 0
    BY <2>2 DEF Gones, T!Gone
  <2>8. k = m + Gones(o, c)[i]
    BY <2>3, <2>4, <2>5, <2>6, <2>7
  <2> QED BY <2>2, <2>8
<1>13. T!ToProcessed(o, c) = t
  <2>1. PICK sum : Sums(sum, Gones(o, c), n) /\ T!ToProcessed(o, c) = o - sum[n]
    BY <1>11, ProcessedIs
  <2>2. ASSUME NEW i \in 0..n PROVE sum[i] = g[i]
    <3> DEFINE S == {j \in 0..n : sum[j] = g[j]}
    <3>1. 0 \in S
      BY <1>1, <1>7, <2>1 DEF Sums
    <3>2. ASSUME NEW j \in 0..(n - 1), j \in S PROVE j + 1 \in S
      <4>1. j + 1 \in 1..n /\ (j + 1) - 1 = j /\ j + 1 \in 0..n
        BY <1>1
      <4>2. sum[j + 1] = sum[j] + Gones(o, c)[j + 1] /\ g[j + 1] = g[j] + Gones(o, c)[j + 1]
        BY <1>12, <2>1, <4>1 DEF Sums
      <4> QED BY <3>2, <4>1, <4>2
    <3>3. i \in S
      <4> HIDE DEF S, n
      <4> QED BY <1>1, <3>1, <3>2, UpTo
    <3> QED BY <3>3
  <2> QED BY <1>11, <2>1, <2>2
<1>14. o <= Length
  <2>1. CASE o >= Length
    <3>1. t = o - T!RemovedInAll(c)
      BY <1>11, <1>13, <2>1, PastTheEnd
    <3>2. T!RemovedInAll(c) \in Nat
      BY <1>1, KeptIs
    <3> QED BY <1>1, <1>11, <3>1, <3>2
  <2> QED BY <1>1, <1>11, <2>1
<1>15. T!Before(c, o) = t
  BY <1>1, <1>11, <1>13, <1>14, ClockCounts
<1> QED BY <1>1, <1>6, <1>11, <1>14, <1>15

\* What removed_from_silences makes of silences is such a list.
LEMMA RemovedAreCuts ==
  ASSUME NEW sil \in T!Silences, T!InOrder(sil)
  PROVE  T!RemovedFromSilences(sil) \in CutLists
<1> DEFINE Values == Seq(Nat \X Nat)
           Cut(s) == <<s[1] + Survives, s[2]>>
           Taken(i, s) == IF T!IsCut(sil[i]) THEN Append(s, Cut(sil[i])) ELSE s
<1>1. PICK n \in Nat : sil \in [1..n -> (0..Length) \X (0..Length)]
  BY TimelineAssumption DEF T!Silences
<1>2. Len(sil) = n /\ DOMAIN sil = 1..n
  BY <1>1, AList
<1>3. ASSUME NEW i \in 1..n
      PROVE  /\ sil[i][1] \in Nat /\ sil[i][2] \in Nat /\ sil[i][2] <= Length
             /\ Cut(sil[i]) \in Nat \X Nat
             /\ i > 1 => sil[i-1][2] < sil[i][1]
  <2>1. sil[i] \in (0..Length) \X (0..Length)
    BY <1>1
  <2>2. sil[i][1] \in 0..Length /\ sil[i][2] \in 0..Length
    BY <2>1
  <2>3. i > 1 => sil[i-1][2] < sil[i][1]
    BY <1>2 DEF T!InOrder
  <2> QED BY <2>2, <2>3, TimelineAssumption
<1> DEFINE F(g) == [i \in 0..Len(sil) |-> IF i = 0 THEN <<>> ELSE Taken(i, g[i-1])]
<1>4. PICK step : step = [p \in Values \X (1..n) |-> Taken(p[2], p[1])]
  OBVIOUS
<1>5. step \in [Values \X (1..n) -> Values]
  <2>1. ASSUME NEW s \in Values, NEW i \in 1..n PROVE Taken(i, s) \in Values
    <3>1. Append(s, Cut(sil[i])) \in Values
      <4> HIDE DEF Cut
      <4> QED BY <1>3, AppendProperties
    <3> QED BY <3>1
  <2> HIDE DEF Taken, Values
  <2> QED BY <1>4, <2>1
<1>6. PICK f : Follows(f, n, Values, <<>>, step)
  <2>1. <<>> \in Values
    BY EmptySeq
  <2> HIDE DEF Values
  <2> QED BY <1>5, <2>1, Recursion
<1>7. f = F(f)
  <2>1. ASSUME NEW i \in 1..n
        PROVE  f[i] = Taken(i, f[i-1])
    <3>1. PICK s : s = f[i-1]
      OBVIOUS
    <3>2. s \in Values
      <4>1. i - 1 \in 0..n
        BY <1>1
      <4> QED BY <1>6, <3>1, <4>1 DEF Follows
    <3>3. f[i] = step[<<s, i>>]
      BY <1>6, <3>1 DEF Follows
    <3>4. step[<<s, i>>] = Taken(i, s)
      <4> HIDE DEF Taken, Values
      <4> QED BY <1>4, <3>2
    <3> QED BY <3>1, <3>3, <3>4
  <2> HIDE DEF Taken, Values
  <2> QED BY <1>2, <1>6, <2>1 DEF Follows
<1>8. PICK g : g = F(g) /\ T!RemovedFromSilences(sil) = g[n]
  BY <1>2, <1>7 DEF T!RemovedFromSilences
<1>9. g[0] = <<>> /\ \A i \in 1..n : g[i] = Taken(i, g[i-1])
  <2> HIDE DEF Taken
  <2> QED BY <1>1, <1>2, <1>8
<1> DEFINE EndsBy(c, i) == \A j \in 1..Len(c) : i > 0 /\ c[j][2] <= sil[i][2]
           S == {i \in 0..n : g[i] \in CutLists /\ EndsBy(g[i], i)}
<1> HIDE DEF F
<1>10. 0 \in S
  <2>1. <<>> \in Seq(Nat \X Nat) /\ Len(<<>>) = 0
    BY EmptySeq
  <2>2. <<>> \in CutLists
    BY <2>1 DEF CutLists
  <2> QED BY <1>1, <1>9, <2>1, <2>2
<1>11. ASSUME NEW i \in 0..(n - 1), i \in S PROVE i + 1 \in S
  <2>1. PICK k, c, d : k = i + 1 /\ c = g[i] /\ d = g[k]
    OBVIOUS
  <2>2. k \in 1..n /\ k - 1 = i /\ k \in 0..n
    BY <1>1, <2>1
  <2>3. c \in CutLists /\ EndsBy(c, i)
    BY <1>11, <2>1
  <2>4. ASSUME NEW j \in 1..Len(c) PROVE c[j][2] \in Nat /\ c[j][2] < sil[k][1]
    <3>1. c[j][2] \in Nat
      BY <2>3, CutsTyped
    <3>2. i > 0 /\ c[j][2] <= sil[i][2]
      BY <2>3
    <3>3. i \in 1..n
      BY <1>1, <3>2
    <3>4. k > 1
      BY <2>1, <3>3
    <3>5. sil[k-1][2] < sil[k][1]
      BY <1>3, <2>2, <3>4
    <3>6. PICK x, y, z : x = c[j][2] /\ y = sil[i][2] /\ z = sil[k][1]
      OBVIOUS
    <3>7. x \in Nat /\ y \in Nat /\ z \in Nat
      BY <1>3, <2>2, <3>1, <3>3, <3>6
    <3>8. x <= y /\ y < z
      BY <2>2, <3>2, <3>5, <3>6
    <3>9. x < z
      BY <3>7, <3>8
    <3> QED BY <3>6, <3>7, <3>9
  <2>5. CASE ~T!IsCut(sil[k])
    <3>1. d = c
      BY <1>9, <2>1, <2>2, <2>5
    <3>2. EndsBy(c, k)
      <4> SUFFICES ASSUME NEW j \in 1..Len(c) PROVE k > 0 /\ c[j][2] <= sil[k][2]
        OBVIOUS
      <4>1. sil[k][1] < sil[k][2]
        BY <1>2, <2>2 DEF T!InOrder
      <4>2. PICK x, y, z : x = c[j][2] /\ y = sil[k][1] /\ z = sil[k][2]
        OBVIOUS
      <4>3. x \in Nat /\ y \in Nat /\ z \in Nat
        BY <1>3, <2>2, <2>4, <4>2
      <4>4. x < y /\ y < z
        BY <2>4, <4>1, <4>2
      <4>5. x <= z
        BY <4>3, <4>4
      <4> QED BY <2>2, <4>2, <4>5
    <3> HIDE DEF EndsBy
    <3> QED BY <2>1, <2>2, <2>3, <3>1, <3>2
  <2>6. CASE T!IsCut(sil[k])
    <3>1. PICK a, b, e : a = sil[k][1] + Survives /\ b = sil[k][2] /\ e = <<a, b>>
      OBVIOUS
    <3>2. d = Append(c, e) /\ e \in Nat \X Nat
      BY <1>3, <1>9, <2>1, <2>2, <2>6, <3>1
    <3>3. a \in Nat /\ b \in Nat /\ a < b /\ b <= Length /\ sil[k][1] <= a
      BY <1>3, <2>2, <2>6, <3>1, TimelineAssumption DEF T!IsCut
    <3>4. c \in Seq(Nat \X Nat) /\ Len(c) \in Nat
      BY <2>3, CutsTyped DEF CutLists
    <3>5. /\ d \in Seq(Nat \X Nat) /\ Len(d) = Len(c) + 1
          /\ \A j \in 1..Len(c) : d[j] = c[j]
          /\ d[Len(c) + 1] = e
      BY <3>2, <3>4, AppendProperties
    <3>6. \A j \in 1..Len(d) : j \in 1..Len(c) \/ j = Len(c) + 1
      BY <3>4, <3>5
    <3>7. e[1] = a /\ e[2] = b
      BY <3>1
    <3>8. ASSUME NEW j \in 1..Len(c)
          PROVE  /\ d[j][1] < d[j][2] /\ d[j][2] <= Length
                 /\ d[j][2] < a /\ d[j][2] <= b
      <4>1. d[j] = c[j] /\ c[j][1] < c[j][2] /\ c[j][2] <= Length
        BY <2>3, <3>5, CutsTyped
      <4>2. c[j][2] \in Nat /\ c[j][2] < sil[k][1] /\ sil[k][1] \in Nat
        BY <1>3, <2>2, <2>4
      <4>3. PICK x, y : x = d[j][1] /\ y = d[j][2]
        OBVIOUS
      <4>4. x < y /\ y <= Length /\ y \in Nat /\ y < sil[k][1]
        BY <4>1, <4>2, <4>3
      <4>5. y < a /\ y <= b
        BY <3>3, <4>2, <4>4
      <4> QED BY <4>3, <4>4, <4>5
    <3>9. d \in CutLists
      <4>1. \A j \in 1..Len(d) : d[j][1] < d[j][2] /\ d[j][2] <= Length
        BY <3>3, <3>5, <3>6, <3>7, <3>8
      <4>2. ASSUME NEW x \in 1..Len(d), NEW y \in 1..Len(d), x < y
            PROVE  d[x][2] < d[y][1]
        <5>1. x \in 1..Len(c)
          BY <3>4, <3>5, <4>2
        <5>2. CASE y \in 1..Len(c)
          <6>1. c[x][2] < c[y][1]
            BY <2>3, <4>2, <5>1, <5>2 DEF CutLists
          <6> QED BY <3>5, <5>1, <5>2, <6>1
        <5>3. CASE y = Len(c) + 1
          BY <3>5, <3>7, <3>8, <5>1, <5>3
        <5> QED BY <3>6, <5>2, <5>3
      <4> QED BY <3>5, <4>1, <4>2 DEF CutLists
    <3>10. EndsBy(d, k)
      <4> SUFFICES ASSUME NEW j \in 1..Len(d) PROVE k > 0 /\ d[j][2] <= sil[k][2]
        OBVIOUS
      <4>1. CASE j \in 1..Len(c)
        BY <2>2, <3>1, <3>8, <4>1
      <4>2. CASE j = Len(c) + 1
        BY <2>2, <3>1, <3>3, <3>5, <3>7, <4>2
      <4> QED BY <3>6, <4>1, <4>2
    <3> HIDE DEF EndsBy
    <3> QED BY <2>1, <2>2, <3>9, <3>10
  <2> HIDE DEF S
  <2> QED BY <2>5, <2>6
<1>12. n \in S
  <2>1. n \in 0..n
    BY <1>1
  <2> HIDE DEF S
  <2> QED BY <1>1, <1>10, <1>11, <2>1, UpTo
<1> QED BY <1>8, <1>12

-----------------------------------------------------------------------------
(* Division                                                                 *)

LEMMA Division ==
  ASSUME NEW m \in Nat, NEW n \in Nat \ {0}
  PROVE  /\ m \div n \in Nat /\ m % n \in 0..(n - 1)
         /\ m = n * (m \div n) + (m % n)
OBVIOUS

LEMMA FloorIs ==
  ASSUME NEW m \in Nat, NEW n \in Nat \ {0}
  PROVE  m \div n \in Nat /\ n * (m \div n) <= m /\ m < n * (m \div n) + n
<1>1. PICK q, r : q = m \div n /\ r = m % n
  OBVIOUS
<1>2. q \in Nat /\ r \in 0..(n - 1) /\ m = n * q + r
  BY <1>1, Division
<1> QED BY <1>1, <1>2

\* The product with a number that is no smaller is no smaller.
LEMMA Product ==
  ASSUME NEW n \in Nat, NEW a \in Nat, NEW b \in Nat, a <= b
  PROVE  n * a <= n * b /\ n * a \in Nat /\ n * b \in Nat
<1>1. PICK d \in Nat : b = a + d
  <2>1. b - a \in Nat /\ b = a + (b - a)
    OBVIOUS
  <2> QED BY <2>1
<1>2. n * b = n * a + n * d
  BY <1>1
<1>3. n * d \in Nat /\ n * a \in Nat
  BY <1>1
<1> QED BY <1>2, <1>3

LEMMA FloorMost ==
  ASSUME NEW m \in Nat, NEW n \in Nat \ {0}, NEW q \in Nat, n * q <= m
  PROVE  q <= m \div n
<1> SUFFICES ASSUME q > m \div n PROVE FALSE
  BY FloorIs
<1>1. PICK d \in Nat : d = m \div n
  BY FloorIs
<1>2. m < n * d + n
  BY <1>1, FloorIs
<1>3. d + 1 <= q /\ d + 1 \in Nat
  BY <1>1
<1>4. n * (d + 1) <= n * q
  BY <1>3, Product
<1>5. n * (d + 1) = n * d + n
  OBVIOUS
<1>6. n * d \in Nat /\ n * q \in Nat
  BY <1>1
<1> QED BY <1>2, <1>4, <1>5, <1>6

LEMMA RoundIs ==
  ASSUME NEW m \in Nat, NEW n \in Nat \ {0}
  PROVE  /\ T!Round(m, n) \in Nat
         /\ T!Round(m, n) <= m \div n + 1
         /\ 2 * T!Distance(T!Round(m, n) * n, m) <= n
<1>1. PICK q, r : q = m \div n /\ r = m % n
  OBVIOUS
<1>2. q \in Nat /\ r \in 0..(n - 1) /\ m = n * q + r
  BY <1>1, Division
<1>3. PICK x : x = T!Round(m, n)
  OBVIOUS
<1>4. (x = q /\ 2 * r <= n) \/ (x = q + 1 /\ 2 * r >= n)
  <2>1. T!Round(m, n) = IF 2 * r < n \/ (2 * r = n /\ q % 2 = 0) THEN q ELSE q + 1
    BY <1>1, Zenon DEF T!Round
  <2>2. PICK k : k = 2 * r
    OBVIOUS
  <2>3. k \in Nat /\ n \in Nat
    BY <1>2, <2>2
  <2>4. x = IF k < n \/ (k = n /\ q % 2 = 0) THEN q ELSE q + 1
    BY <1>3, <2>1, <2>2, Zenon
  <2>5. CASE k < n \/ (k = n /\ q % 2 = 0)
    <3>1. x = q
      BY <2>4, <2>5, Zenon
    <3>2. k < n \/ k = n
      BY <2>5, Zenon
    <3> QED BY <2>2, <2>3, <3>1, <3>2
  <2>6. CASE ~(k < n \/ (k = n /\ q % 2 = 0))
    <3>1. x = q + 1
      BY <2>4, <2>6, Zenon
    <3>2. ~(k < n)
      BY <2>6, Zenon
    <3> QED BY <2>2, <2>3, <3>1, <3>2
  <2> QED BY <2>5, <2>6, Zenon
<1>5. PICK p \in Nat : p = n * q
  BY <1>2
<1>6. CASE x = q /\ 2 * r <= n
  <2>1. x * n = p
    BY <1>2, <1>5, <1>6
  <2>2. m = p + r
    BY <1>2, <1>5
  <2>3. 2 * T!Distance(x * n, m) <= n
    BY <1>2, <1>5, <1>6, <2>1, <2>2 DEF T!Distance
  <2> QED BY <1>1, <1>2, <1>3, <1>6, <2>3
<1>7. CASE x = q + 1 /\ 2 * r >= n
  <2>1. x * n = p + n
    BY <1>2, <1>5, <1>7
  <2>2. m = p + r
    BY <1>2, <1>5
  <2>3. 2 * T!Distance(x * n, m) <= n
    BY <1>2, <1>5, <1>7, <2>1, <2>2 DEF T!Distance
  <2> QED BY <1>1, <1>2, <1>3, <1>7, <2>3
<1> QED BY <1>4, <1>6, <1>7

\* What was scaled down, up and down again is at most one less.
LEMMA ScaledThrice ==
  ASSUME NEW s \in Nat, NEW p \in Nat \ {0}, NEW q \in Nat \ {0}, p < q,
         NEW h, NEW r, NEW o, h = (s * p) \div q, r = (h * q) \div p, o = (r * p) \div q
  PROVE  h \in Nat /\ o \in Nat /\ o <= h /\ h <= o + 1
<1>1. h \in Nat
  <2>1. s * p \in Nat
    OBVIOUS
  <2> QED BY <2>1, FloorIs
<1>2. PICK hq \in Nat : hq = h * q /\ hq = q * h
  BY <1>1
<1>3. r \in Nat /\ p * r <= hq /\ hq < p * r + p
  BY <1>2, FloorIs
<1>4. PICK rp \in Nat : rp = r * p /\ rp = p * r
  BY <1>3
<1>5. o \in Nat /\ q * o <= rp /\ rp < q * o + q
  BY <1>4, FloorIs
<1>6. q * o \in Nat /\ q * o <= q * h
  BY <1>2, <1>3, <1>4, <1>5
<1>7. o <= h
  <2> SUFFICES ASSUME ~(o <= h) PROVE FALSE
    OBVIOUS
  <2>1. h + 1 <= o /\ h + 1 \in Nat
    BY <1>1, <1>5
  <2>2. q * (h + 1) <= q * o
    BY <1>5, <2>1, Product
  <2>3. q * (h + 1) = q * h + q
    BY <1>1
  <2> QED BY <1>2, <1>6, <2>2, <2>3
<1>8. h <= o + 1
  <2> SUFFICES ASSUME ~(h <= o + 1) PROVE FALSE
    OBVIOUS
  <2>1. o + 2 <= h /\ o + 2 \in Nat
    BY <1>1, <1>5
  <2>2. q * (o + 2) <= q * h
    BY <1>1, <2>1, Product
  <2>3. q * (o + 2) = q * o + 2 * q
    BY <1>5
  <2> QED BY <1>2, <1>3, <1>4, <1>5, <1>6, <2>2, <2>3
<1> QED BY <1>1, <1>5, <1>7, <1>8

\* A place in a copy is no further on the original's clock than the original is long.
LEMMA ScaledUp ==
  ASSUME NEW at \in Nat, NEW kept \in Nat \ {0}, at * Second <= kept
  PROVE  (at * Length) \div kept <= Length \div Second
<1>1. Second \in Nat \ {0} /\ Length \in Nat
  BY TimelineAssumption
<1>2. PICK x : x = (at * Length) \div kept
  OBVIOUS
<1>3. at * Length \in Nat
  BY <1>1
<1>4. x \in Nat /\ kept * x <= at * Length
  BY <1>2, <1>3, FloorIs
<1>5. Second * (kept * x) <= Second * (at * Length)
  <2>1. kept * x \in Nat
    BY <1>4
  <2> QED BY <1>1, <1>3, <1>4, <2>1, Product
<1>6. Second * (at * Length) = Length * (at * Second)
  BY <1>1
<1>7. Length * (at * Second) <= Length * kept
  <2>1. at * Second \in Nat
    BY <1>1
  <2> QED BY <1>1, <2>1, Product
<1>8. Second * (kept * x) = kept * (Second * x)
  BY <1>1, <1>4
<1>9. kept * (Second * x) <= kept * Length
  <2>1. Length * kept = kept * Length
    BY <1>1
  <2>2. PICK a, b, d : a = kept * (Second * x) /\ b = Length * (at * Second) /\ d = kept * Length
    OBVIOUS
  <2>3. a \in Nat /\ b \in Nat /\ d \in Nat
    BY <1>1, <1>4, <2>2
  <2>4. a <= b /\ b <= d
    BY <1>5, <1>6, <1>7, <1>8, <2>1, <2>2
  <2> QED BY <2>2, <2>3, <2>4
<1>10. Second * x <= Length
  <2> SUFFICES ASSUME ~(Second * x <= Length) PROVE FALSE
    OBVIOUS
  <2>1. PICK y \in Nat : y = Second * x
    BY <1>1, <1>4
  <2>2. Length + 1 <= y /\ Length + 1 \in Nat
    BY <1>1, <2>1
  <2>3. kept * (Length + 1) <= kept * y
    BY <2>1, <2>2, Product
  <2>4. kept * (Length + 1) = kept * Length + kept
    BY <1>1
  <2>5. kept * y <= kept * Length
    BY <1>9, <2>1
  <2>6. kept * Length \in Nat /\ kept * y \in Nat
    BY <1>1, <2>1
  <2> QED BY <2>3, <2>4, <2>5, <2>6
<1> QED BY <1>1, <1>2, <1>4, <1>10, FloorMost

-----------------------------------------------------------------------------
(* Timeline                                                                 *)

\* What every copy of the episode lacks, and how long that makes it.
Missing == T!RemovedFromSilences(silences)
CopyLength == Length - T!RemovedInAll(Missing)

EpisodeRow == [path : BOOLEAN, map : {None, Missing}, source : {None, Length},
               processed : {None, CopyLength, Length}]

\* A player holds the original or a copy, at a place that is in it.
HoldsACopy ==
  /\ player \in [version : {"o", "p"}, at : Nat]
  /\ cuts = IF player.version = "p" THEN Missing ELSE <<>>
  /\ player.at * Second <= Length - T!RemovedInAll(cuts)

TimelineCore ==
  /\ silences \in T!Silences /\ T!InOrder(silences)
  /\ episode \in EpisodeRow
  /\ stored \in 0..(Length \div Second + 1)
  /\ makes \in 0..MaxMakes
  /\ player # None => HoldsACopy

LEMMA NothingRemoved == <<>> \in CutLists /\ T!RemovedInAll(<<>>) = 0
<1>1. <<>> \in Seq(Nat \X Nat) /\ Len(<<>>) = 0
  BY EmptySeq
<1>2. <<>> \in CutLists
  BY <1>1 DEF CutLists
<1>3. PICK sum : Sums(sum, Lengths(<<>>), Len(<<>>)) /\ T!RemovedInAll(<<>>) = sum[Len(<<>>)]
  BY <1>2, RemovedIs
<1> QED BY <1>1, <1>2, <1>3 DEF Sums

LEMMA MissingIs ==
  ASSUME TimelineCore
  PROVE  Missing \in CutLists /\ CopyLength \in 0..Length
<1>1. Missing \in CutLists
  BY RemovedAreCuts DEF TimelineCore, Missing
<1>2. T!RemovedInAll(Missing) \in 0..Length
  BY <1>1, KeptIs
<1> QED BY <1>1, <1>2, TimelineAssumption DEF CopyLength

LEMMA EpisodeIs ==
  ASSUME TimelineCore
  PROVE  /\ episode.path \in BOOLEAN /\ episode.map \in {None, Missing}
         /\ episode.source \in {None, Length}
         /\ episode.processed \in {None, CopyLength, Length}
         /\ stored \in Nat /\ None \notin Int
         /\ Second \in Nat \ {0} /\ Length \in Nat
         /\ T!HasRatio(episode) => episode.source = Length /\ episode.processed = CopyLength
                                   /\ CopyLength \in Nat \ {0} /\ CopyLength < Length
<1>1. episode \in EpisodeRow
  BY DEF TimelineCore
<1>2. /\ episode.path \in BOOLEAN /\ episode.map \in {None, Missing}
      /\ episode.source \in {None, Length}
      /\ episode.processed \in {None, CopyLength, Length}
  BY <1>1 DEF EpisodeRow
<1>3. Second \in Nat \ {0} /\ Length \in Nat /\ None \notin Int
  BY TimelineAssumption, ServingAssumption
<1>4. Length \div Second \in Nat
  BY <1>3, FloorIs
<1>5. stored \in Nat
  BY <1>4 DEF TimelineCore
<1>6. CopyLength \in Nat
  BY <1>3, MissingIs
<1>7. T!HasRatio(episode) => episode.source = Length /\ episode.processed = CopyLength
                             /\ CopyLength \in Nat \ {0} /\ CopyLength < Length
  BY <1>2, <1>3, <1>6 DEF T!HasRatio
<1> QED BY <1>2, <1>3, <1>5, <1>7

\* A whole second within a length is among the seconds of that length.
LEMMA SecondsIn ==
  ASSUME NEW at \in Nat, NEW length \in Nat, at * Second <= length
  PROVE  at <= length \div Second
<1>1. Second \in Nat \ {0} /\ Second * at = at * Second
  BY TimelineAssumption
<1> QED BY <1>1, FloorMost

LEMMA SecondsUpTo ==
  ASSUME NEW length \in Nat
  PROVE  /\ length \div Second \in Nat
         /\ (length \div Second) * Second <= length
         /\ length < (length \div Second) * Second + Second
<1>1. Second \in Nat \ {0}
  BY TimelineAssumption
<1>2. PICK q \in Nat : q = length \div Second
  BY <1>1, FloorIs
<1>3. Second * q = q * Second
  BY <1>1, <1>2
<1> QED BY <1>1, <1>2, <1>3, FloorIs

\* What a player asks to start at, and what a report stores.
LEMMA OutboundIs ==
  ASSUME TimelineCore
  PROVE  T!Outbound(episode, stored) \in Nat
<1>1. CASE ~episode.path
  BY <1>1, EpisodeIs DEF T!Outbound, T!ServedVersion
<1>2. CASE episode.path /\ episode.map # None
  <2>1. PICK t \in Nat : t = stored * Second
    BY EpisodeIs
  <2>2. T!Outbound(episode, stored) = T!ToProcessed(t, Missing) \div Second
    BY <1>2, <2>1, EpisodeIs DEF T!Outbound, T!ServedVersion
  <2>3. T!ToProcessed(t, Missing) \in Nat
    <3>1. CASE t <= Length
      <4>1. t \in 0..Length /\ t <= t
        BY <2>1, <3>1, EpisodeIs
      <4>2. T!Before(Missing, t) \in Nat
        BY <4>1, BeforeMoves
      <4> QED BY <4>1, <4>2, MissingIs, ClockCounts
    <3>2. CASE t >= Length
      <4>1. T!ToProcessed(t, Missing) = t - T!RemovedInAll(Missing)
        BY <3>2, MissingIs, PastTheEnd
      <4>2. T!RemovedInAll(Missing) \in 0..Length
        BY MissingIs, KeptIs
      <4> QED BY <3>2, <4>1, <4>2, EpisodeIs
    <3> QED BY <3>1, <3>2, EpisodeIs
  <2> QED BY <2>2, <2>3, SecondsUpTo
<1>3. CASE episode.path /\ episode.map = None /\ T!HasRatio(episode)
  <2>1. T!Outbound(episode, stored) = (stored * CopyLength) \div Length
    BY <1>3, EpisodeIs DEF T!Outbound, T!ServedVersion
  <2>2. stored * CopyLength \in Nat /\ Length \in Nat \ {0}
    BY <1>3, EpisodeIs
  <2> QED BY <2>1, <2>2, FloorIs
<1>4. CASE episode.path /\ episode.map = None /\ ~T!HasRatio(episode)
  BY <1>4, EpisodeIs DEF T!Outbound, T!ServedVersion
<1> QED BY <1>1, <1>2, <1>3, <1>4, EpisodeIs

LEMMA HeldIs ==
  ASSUME TimelineCore, player # None
  PROVE  /\ player.version \in {"o", "p"} /\ player.at \in Nat /\ cuts \in CutLists
         /\ player.at * Second <= Length - T!RemovedInAll(cuts)
         /\ player.version = "p" => cuts = Missing
         /\ Length - T!RemovedInAll(cuts) \in 0..Length
         /\ player.at * Second <= Length /\ player.at <= Length \div Second
<1>1. HoldsACopy
  BY DEF TimelineCore
<1>2. player.version \in {"o", "p"} /\ player.at \in Nat
  BY <1>1 DEF HoldsACopy
<1>3. cuts \in CutLists
  BY <1>1, MissingIs, NothingRemoved DEF HoldsACopy
<1>4. Length - T!RemovedInAll(cuts) \in 0..Length
  BY <1>3, KeptIs, EpisodeIs
<1>5. player.at * Second <= Length
  <2>1. PICK x : x = player.at * Second
    OBVIOUS
  <2>2. x \in Nat
    BY <1>2, <2>1, EpisodeIs
  <2>3. x <= Length - T!RemovedInAll(cuts)
    BY <1>1, <2>1 DEF HoldsACopy
  <2> QED BY <1>4, <2>1, <2>2, <2>3, EpisodeIs
<1>6. player.at <= Length \div Second
  BY <1>2, <1>5, EpisodeIs, SecondsIn
<1> QED BY <1>1, <1>2, <1>3, <1>4, <1>5, <1>6 DEF HoldsACopy

LEMMA InboundIs ==
  ASSUME TimelineCore, player # None
  PROVE  T!Inbound(episode, player.at, player.version) \in 0..(Length \div Second + 1)
<1> DEFINE most == Length \div Second
<1>1. most \in Nat /\ player.at \in 0..most
  BY HeldIs, EpisodeIs, SecondsUpTo
<1> HIDE DEF most
<1>2. CASE player.version # "p" \/ ~episode.path
  <2>1. T!Inbound(episode, player.at, player.version) = player.at
    BY <1>2 DEF T!Inbound
  <2> QED BY <1>1, <2>1 DEF most
<1>3. CASE player.version = "p" /\ episode.path /\ episode.map # None
  <2>1. PICK t \in Nat : t = player.at * Second
    BY HeldIs, EpisodeIs
  <2>2. t <= Length - T!RemovedInAll(Missing)
    BY <1>3, <2>1, HeldIs
  <2>3. PICK o : o = T!ToOriginal(t, Missing)
    OBVIOUS
  <2>4. o \in 0..Length
    BY <2>2, <2>3, MissingIs, ThereAndBack
  <2>5. T!Inbound(episode, player.at, player.version) = T!Round(o, Second)
    BY <1>3, <2>1, <2>3, EpisodeIs DEF T!Inbound
  <2>6. o \in Nat /\ o <= Length
    BY <2>4, EpisodeIs
  <2>7. T!Round(o, Second) \in Nat /\ T!Round(o, Second) <= o \div Second + 1
    BY <2>6, EpisodeIs, RoundIs
  <2>8. PICK q \in Nat : q = o \div Second
    BY <2>6, SecondsUpTo
  <2>9. q * Second <= Length
    <3>1. q * Second <= o /\ q * Second \in Nat
      <4>1. (o \div Second) * Second <= o
        BY <2>6, SecondsUpTo
      <4>2. Second \in Nat
        BY EpisodeIs
      <4> QED BY <2>8, <4>1, <4>2
    <3> QED BY <2>6, <3>1, EpisodeIs
  <2>10. q <= most
    BY <2>9, EpisodeIs, SecondsIn DEF most
  <2> QED BY <1>1, <2>5, <2>7, <2>8, <2>10 DEF most
<1>4. CASE player.version = "p" /\ episode.path /\ episode.map = None /\ T!HasRatio(episode)
  <2>1. T!Inbound(episode, player.at, player.version) = T!Round(player.at * Length, CopyLength)
    BY <1>4, EpisodeIs DEF T!Inbound
  <2>2. CopyLength \in Nat \ {0} /\ player.at \in Nat
    BY <1>4, EpisodeIs, HeldIs
  <2>3. player.at * Second <= CopyLength
    BY <1>4, HeldIs DEF CopyLength
  <2>4. (player.at * Length) \div CopyLength <= most
    BY <2>2, <2>3, ScaledUp DEF most
  <2>5. PICK m \in Nat : m = player.at * Length
    BY <2>2, EpisodeIs
  <2>6. T!Round(m, CopyLength) \in Nat /\ T!Round(m, CopyLength) <= m \div CopyLength + 1
    BY <2>2, RoundIs
  <2>7. m \div CopyLength \in Nat
    BY <2>2, FloorIs
  <2> QED BY <1>1, <2>1, <2>4, <2>5, <2>6, <2>7 DEF most
<1>5. CASE player.version = "p" /\ episode.path /\ episode.map = None /\ ~T!HasRatio(episode)
  <2>1. T!Inbound(episode, player.at, player.version) = player.at
    BY <1>5 DEF T!Inbound
  <2> QED BY <1>1, <2>1 DEF most
<1>6. player.version = "p" \/ player.version # "p"
  OBVIOUS
<1> QED BY <1>2, <1>3, <1>4, <1>5, EpisodeIs DEF most

LEMMA TimelineInit == T!Init => TimelineCore
<1> SUFFICES ASSUME T!Init PROVE TimelineCore
  OBVIOUS
<1>1. episode \in EpisodeRow
  BY DEF T!Init, T!Plain, EpisodeRow
<1>2. Length \div Second \in Nat /\ MaxMakes \in Nat
  BY TimelineAssumption, SecondsUpTo
<1>3. stored \in 0..(Length \div Second + 1)
  BY <1>2 DEF T!Init
<1> QED BY <1>1, <1>2, <1>3 DEF TimelineCore, T!Init

LEMMA MakeKeeps == TimelineCore /\ T!Make => TimelineCore'
<1> SUFFICES ASSUME TimelineCore, T!Make PROVE TimelineCore'
  OBVIOUS
<1>1. UNCHANGED <<silences, stored, player, cuts>>
  BY DEF T!Make
<1>2. Missing' = Missing /\ EpisodeRow' = EpisodeRow /\ HoldsACopy' = HoldsACopy
  BY <1>1 DEF Missing, EpisodeRow, CopyLength, HoldsACopy
<1>3. PICK processed \in {None, CopyLength, Length} :
        episode' = [path |-> TRUE, source |-> Length, processed |-> processed,
                    map |-> IF T!MapIsCredible(Missing, Length, processed) THEN Missing ELSE None]
  BY DEF T!Make, Missing, CopyLength
<1>4. episode' \in EpisodeRow
  <2> HIDE DEF Missing, CopyLength
  <2> QED BY <1>3 DEF EpisodeRow
<1>5. makes' \in 0..MaxMakes
  BY TimelineAssumption DEF T!Make, TimelineCore
<1> QED BY <1>1, <1>2, <1>4, <1>5 DEF TimelineCore

LEMMA DropKeeps == TimelineCore /\ T!Drop => TimelineCore'
<1> SUFFICES ASSUME TimelineCore, T!Drop PROVE TimelineCore'
  OBVIOUS
<1>1. UNCHANGED <<silences, stored, player, cuts, makes>>
  BY DEF T!Drop
<1>2. Missing' = Missing /\ EpisodeRow' = EpisodeRow /\ HoldsACopy' = HoldsACopy
  BY <1>1 DEF Missing, EpisodeRow, CopyLength, HoldsACopy
<1>3. episode' = [path |-> FALSE, map |-> None, source |-> episode.source, processed |-> None]
  BY DEF T!Drop, T!Plain
<1>4. episode' \in EpisodeRow
  BY <1>3, EpisodeIs DEF EpisodeRow
<1> QED BY <1>1, <1>2, <1>4 DEF TimelineCore

LEMMA LoadKeeps == TimelineCore /\ T!Load => TimelineCore'
<1> SUFFICES ASSUME TimelineCore, T!Load PROVE TimelineCore'
  OBVIOUS
<1>1. UNCHANGED <<silences, episode, stored, makes>>
  BY DEF T!Load
<1>2. Missing' = Missing /\ EpisodeRow' = EpisodeRow
  BY <1>1 DEF Missing, EpisodeRow, CopyLength
<1>3. PICK asked \in Nat : asked = T!Outbound(episode, stored)
  BY OutboundIs
<1>4. PICK length : length = Length - T!RemovedInAll(cuts')
  OBVIOUS
<1>5. PICK last : last = length \div Second
  OBVIOUS
<1>6. cuts' = IF episode.path THEN Missing ELSE <<>>
  BY DEF T!Load, Missing
<1>7. player' = [version |-> T!ServedVersion(episode), at |-> IF asked <= last THEN asked ELSE last]
  BY <1>3, <1>4, <1>5, <1>6 DEF T!Load, Missing
<1>8. length \in Nat
  BY <1>4, <1>6, MissingIs, NothingRemoved, EpisodeIs DEF CopyLength
<1>9. last \in Nat /\ last * Second <= length
  BY <1>5, <1>8, SecondsUpTo
<1>10. PICK at : at = IF asked <= last THEN asked ELSE last
  OBVIOUS
<1>11. at \in Nat /\ at <= last
  BY <1>9, <1>10
<1>12. at * Second <= length
  <2>1. Second * at <= Second * last /\ Second * at = at * Second /\ Second * last = last * Second
    BY <1>9, <1>11, EpisodeIs, Product
  <2>2. at * Second \in Nat /\ last * Second \in Nat
    BY <1>9, <1>11, EpisodeIs
  <2> QED BY <1>8, <1>9, <2>1, <2>2
<1>13. player' \in [version : {"o", "p"}, at : Nat] /\ player'.at = at
       /\ player'.version = IF episode.path THEN "p" ELSE "o"
  BY <1>7, <1>10, <1>11 DEF T!ServedVersion
<1>14. HoldsACopy'
  BY <1>2, <1>4, <1>6, <1>12, <1>13 DEF HoldsACopy
<1> QED BY <1>1, <1>2, <1>14 DEF TimelineCore

LEMMA PlayKeeps == TimelineCore /\ T!Play => TimelineCore'
<1> SUFFICES ASSUME TimelineCore, T!Play PROVE TimelineCore'
  OBVIOUS
<1>1. UNCHANGED <<episode, silences, stored, cuts, makes>> /\ player # None
  BY DEF T!Play
<1>2. Missing' = Missing /\ EpisodeRow' = EpisodeRow
  BY <1>1 DEF Missing, EpisodeRow, CopyLength
<1>3. player \in [version : {"o", "p"}, at : Nat] /\ cuts = IF player.version = "p" THEN Missing ELSE <<>>
  BY <1>1 DEF TimelineCore, HoldsACopy
<1>4. /\ player' \in [version : {"o", "p"}, at : Nat]
      /\ player'.version = player.version /\ player'.at = player.at + 1
  BY <1>3 DEF T!Play
<1>5. player'.at * Second <= Length - T!RemovedInAll(cuts)
  BY <1>4 DEF T!Play
<1>6. HoldsACopy'
  BY <1>1, <1>2, <1>3, <1>4, <1>5 DEF HoldsACopy
<1> QED BY <1>1, <1>2, <1>6 DEF TimelineCore

LEMMA ReportKeeps == TimelineCore /\ T!Report => TimelineCore'
<1> SUFFICES ASSUME TimelineCore, T!Report PROVE TimelineCore'
  OBVIOUS
<1>1. UNCHANGED <<episode, silences, player, cuts, makes>> /\ player # None
  BY DEF T!Report
<1>2. Missing' = Missing /\ EpisodeRow' = EpisodeRow /\ HoldsACopy' = HoldsACopy
  BY <1>1 DEF Missing, EpisodeRow, CopyLength, HoldsACopy
<1>3. stored' \in 0..(Length \div Second + 1)
  BY <1>1, InboundIs DEF T!Report
<1> QED BY <1>1, <1>2, <1>3 DEF TimelineCore

LEMMA TimelineSteps == TimelineCore /\ [T!Next]_(T!vars) => TimelineCore'
<1>1. TimelineCore /\ UNCHANGED T!vars => TimelineCore'
  BY DEF TimelineCore, HoldsACopy, EpisodeRow, CopyLength, Missing, T!vars
<1> QED BY <1>1, MakeKeeps, DropKeeps, LoadKeeps, PlayKeeps, ReportKeeps DEF T!Next

\* What every position, place and row is good for, however copies are made and dropped while
\* a player holds one (audio.py:296, episode_routes.py:393).
THEOREM TimelineInvariant == Spec => [](whose = "timeline" => TimelineCore)
<1> DEFINE Inv == whose = "timeline" => TimelineCore
<1>1. Init => Inv
  BY TimelineInit DEF Init
<1>2. Inv /\ [Next]_vars => Inv'
  <2> SUFFICES ASSUME Inv, [Next]_vars, whose' = "timeline" PROVE TimelineCore'
    OBVIOUS
  <2>1. CASE Next
    <3>1. whose = "timeline"
      BY <2>1, WhoseStays
    <3>2. T!Next
      BY <2>1, <3>1
      DEF Next, OnlyProcessing, OnlyTimeline, OnlyServing, OnlyRefreshing, OnlySubscribing,
          OnlySignIn, OnlyQueue, OnlyArtwork, OnlyNotifying
    <3> QED BY <3>1, <3>2, TimelineSteps
  <2>2. CASE UNCHANGED vars
    <3>1. whose = "timeline" /\ UNCHANGED T!vars
      BY <2>2 DEF vars, timelineVars, T!vars
    <3> QED BY <3>1, TimelineSteps
  <2> QED BY <2>1, <2>2
<1> QED BY <1>1, <1>2, PTL DEF Spec

-----------------------------------------------------------------------------
(* The two clocks                                                           *)

LEMMA CutsInOrder ==
  ASSUME NEW c \in CutLists
  PROVE  T!InOrder(c)
<1> SUFFICES ASSUME NEW i \in 1..Len(c)
             PROVE  c[i][1] < c[i][2] /\ (i > 1 => c[i-1][2] < c[i][1])
  BY CutsTyped DEF T!InOrder
<1>1. i > 1 => i - 1 \in 1..Len(c) /\ i - 1 < i
  BY CutsTyped
<1> QED BY <1>1, CutsTyped DEF CutLists

LEMMA CoreTyped == TimelineCore => T!TimelineTypeOK
<1> SUFFICES ASSUME TimelineCore PROVE T!TimelineTypeOK
  OBVIOUS
<1>1. episode.map # None => T!InOrder(episode.map)
  BY EpisodeIs, MissingIs, CutsInOrder
<1>2. player # None => player.version \in {"o", "p"} /\ player.at \in 0..(Length \div Second)
  BY HeldIs, SecondsUpTo, EpisodeIs
<1> QED BY <1>1, <1>2, EpisodeIs DEF TimelineCore, T!TimelineTypeOK

LEMMA CoreClocks == TimelineCore => T!ClocksAgree
<1> SUFFICES ASSUME TimelineCore, NEW t \in 0..Length
             PROVE  /\ T!ToProcessed(t, Missing) = T!Before(Missing, t)
                    /\ t <= T!Cardinality(T!Kept(Missing)) =>
                         T!Before(Missing, T!ToOriginal(t, Missing)) = t
  BY DEF T!ClocksAgree, Missing
<1>1. T!Cardinality(T!Kept(Missing)) = Cardinality(T!Kept(Missing))
  BY DEF T!Cardinality, Cardinality
<1>2. T!ToProcessed(t, Missing) = T!Before(Missing, t)
  BY MissingIs, ClockCounts
<1>3. t \in Nat
  BY EpisodeIs
<1> QED BY <1>1, <1>2, <1>3, MissingIs, KeptIs, ThereAndBack

LEMMA CoreMigrates == TimelineCore => T!MigrationsKeepPlace
<1> SUFFICES ASSUME TimelineCore, NEW s \in 0..(Length \div Second), episode.path
             PROVE  LET unmapped == [episode EXCEPT !.map = None]
                        handed == T!Rescaled(unmapped, s)
                    IN  T!Distance(T!Outbound(unmapped, T!Restored(unmapped, handed)), handed) <= 1
  BY DEF T!MigrationsKeepPlace
<1>1. PICK e : e = [episode EXCEPT !.map = None]
  OBVIOUS
<1>2. episode \in EpisodeRow
  BY DEF TimelineCore
<1>3. /\ e.path = episode.path /\ e.map = None
      /\ e.source = episode.source /\ e.processed = episode.processed
  BY <1>1, <1>2 DEF EpisodeRow
<1>4. T!HasRatio(e) <=> T!HasRatio(episode)
  BY <1>3 DEF T!HasRatio
<1>5. s \in Nat
  BY EpisodeIs, SecondsUpTo
<1>6. T!Distance(T!Outbound(e, T!Restored(e, T!Rescaled(e, s))), T!Rescaled(e, s)) <= 1
  <2>1. CASE ~T!HasRatio(e)
    <3>1. T!Rescaled(e, s) = s /\ T!Restored(e, s) = s /\ T!Outbound(e, s) = s
      BY <1>3, <2>1 DEF T!Rescaled, T!Restored, T!Outbound
    <3>2. T!Distance(s, s) <= 1
      BY <1>5 DEF T!Distance
    <3> QED BY <3>1, <3>2
  <2>2. CASE T!HasRatio(e)
    <3>1. /\ e.source = Length /\ e.processed = CopyLength
          /\ CopyLength \in Nat \ {0} /\ Length \in Nat \ {0} /\ CopyLength < Length
      BY <1>3, <1>4, <2>2, EpisodeIs
    <3>2. PICK h, r, o : /\ h = (s * CopyLength) \div Length
                         /\ r = (h * Length) \div CopyLength
                         /\ o = (r * CopyLength) \div Length
      OBVIOUS
    <3>3. T!Rescaled(e, s) = h
      BY <1>3, <2>2, <3>1, <3>2 DEF T!Rescaled
    <3>4. T!Restored(e, h) = r
      BY <1>3, <2>2, <3>1, <3>2 DEF T!Restored
    <3>5. T!Outbound(e, r) = o
      BY <1>3, <2>2, <3>1, <3>2 DEF T!Outbound, T!ServedVersion
    <3>6. h \in Nat /\ o \in Nat /\ o <= h /\ h <= o + 1
      BY <1>5, <3>1, <3>2, ScaledThrice
    <3>7. T!Distance(o, h) <= 1
      BY <3>6 DEF T!Distance
    <3> QED BY <3>3, <3>4, <3>5, <3>7
  <2> QED BY <2>1, <2>2
<1> QED BY <1>1, <1>6

\* timeline.py:42: whatever the silences, the two clocks are those of the audio that was kept,
\* there and back, and the migrations move no one by more than a second.
THEOREM ClocksAlwaysAgree == Spec => []TimelineConsistent
<1>1. (whose = "timeline" => TimelineCore) => TimelineConsistent
  BY CoreTyped, CoreClocks, CoreMigrates DEF TimelineConsistent, T!TimelineConsistent
<1> QED BY <1>1, TimelineInvariant, PTL

-----------------------------------------------------------------------------
(* Opening and reporting                                                    *)

LEMMA LoadOpens ==
  ASSUME TimelineCore, T!Load, T!Trusted
  PROVE  LET there == player'.at * Second
             left == T!Before(cuts', stored * Second)
         IN  there <= left /\ left < there + Second
<1>1. cuts' = Missing /\ episode.path /\ episode.map = Missing
  BY EpisodeIs DEF T!Load, T!Trusted, Missing
<1>2. PICK t \in Nat : t = stored * Second
  BY EpisodeIs
<1>3. PICK p, q, r : /\ p = T!ToProcessed(t, Missing) /\ q = p \div Second
                     /\ r = CopyLength \div Second
  OBVIOUS
<1>4. player' = [version |-> "p", at |-> IF q <= r THEN q ELSE r]
  <2>1. T!Outbound(episode, stored) = q
    BY <1>1, <1>2, <1>3 DEF T!Trusted, T!Outbound, T!ServedVersion
  <2>2. T!ServedVersion(episode) = "p"
    BY <1>1 DEF T!ServedVersion
  <2>3. player' = [version |-> T!ServedVersion(episode),
                   at |-> IF T!Outbound(episode, stored) <= (Length - T!RemovedInAll(Missing)) \div Second
                          THEN T!Outbound(episode, stored)
                          ELSE (Length - T!RemovedInAll(Missing)) \div Second]
    BY <1>1 DEF T!Load, Missing
  <2> QED BY <1>3, <2>1, <2>2, <2>3 DEF CopyLength
<1>5. PICK at : at = player'.at /\ at = IF q <= r THEN q ELSE r
  BY <1>4
<1>6. CopyLength \in Nat /\ Second \in Nat
  BY MissingIs, EpisodeIs
<1>7. r \in Nat /\ r * Second <= CopyLength /\ CopyLength < r * Second + Second
  BY <1>3, <1>6, SecondsUpTo
<1>8. PICK left : left = T!Before(Missing, t)
  OBVIOUS
<1>9. CASE t <= Length
  <2>1. t \in 0..Length /\ t <= t
    BY <1>9, EpisodeIs
  <2>2. p = left /\ p \in Nat
    BY <1>3, <1>8, <2>1, MissingIs, ClockCounts, BeforeMoves
  <2>3. left <= CopyLength
    <3>1. T!Before(Missing, Length) = CopyLength
      BY EpisodeIs, MissingIs, KeptIs DEF CopyLength
    <3> QED BY <1>8, <1>9, <3>1, EpisodeIs, BeforeMoves
  <2>4. q \in Nat /\ q * Second <= p /\ p < q * Second + Second
    BY <1>3, <2>2, SecondsUpTo
  <2>5. q <= r
    <3>1. q * Second \in Nat
      BY <1>6, <2>4
    <3>2. q * Second <= CopyLength
      BY <1>6, <2>2, <2>3, <2>4, <3>1
    <3> QED BY <1>3, <1>6, <2>4, <3>2, SecondsIn
  <2>6. at = q
    BY <1>5, <2>5
  <2> QED BY <1>1, <1>2, <1>5, <1>8, <2>2, <2>4, <2>6
<1>10. CASE t >= Length
  <2>1. p = t - T!RemovedInAll(Missing)
    BY <1>3, <1>10, MissingIs, PastTheEnd
  <2>2. T!RemovedInAll(Missing) \in 0..Length
    BY MissingIs, KeptIs
  <2>3. p \in Nat /\ p >= CopyLength
    BY <1>10, <2>1, <2>2, EpisodeIs DEF CopyLength
  <2>4. left = CopyLength
    BY <1>8, <1>10, MissingIs, KeptIs DEF CopyLength
  <2>5. q \in Nat /\ r <= q
    <3>1. r * Second \in Nat
      BY <1>6, <1>7
    <3>2. r * Second <= p
      BY <1>6, <1>7, <2>3, <3>1
    <3> QED BY <1>3, <1>7, <2>3, <3>2, SecondsIn, SecondsUpTo
  <2>6. at = r
    BY <1>5, <1>7, <2>5
  <2> QED BY <1>1, <1>2, <1>5, <1>7, <1>8, <2>4, <2>6
<1> QED BY <1>9, <1>10, EpisodeIs

\* timeline.py:80: an episode that has a copy with its map is opened less than a second before
\* where it was left, and never after.
THEOREM OpensWhereItWasLeft == Spec => OpensWhereLeft
<1>1. (whose = "timeline" => TimelineCore) /\ [Next]_vars
        => [whose = "timeline" => T!OpenedWhereLeft]_vars
  BY LoadOpens DEF T!OpenedWhereLeft
<1> QED BY <1>1, TimelineInvariant, PTL DEF Spec, OpensWhereLeft

LEMMA ReportKeepsPlace ==
  ASSUME TimelineCore, T!Report, player.version = "p", T!Trusted
  PROVE  2 * T!Distance(T!Before(cuts, stored' * Second), player.at * Second) <= Second
<1>1. /\ player # None /\ cuts = Missing /\ episode.path /\ episode.map = Missing
      /\ episode.map # None
  BY HeldIs, EpisodeIs DEF T!Report, T!Trusted
<1>2. PICK t \in Nat : t = player.at * Second
  BY <1>1, HeldIs, EpisodeIs
<1>3. PICK o : o = T!ToOriginal(t, Missing)
  OBVIOUS
<1>4. t <= Length - T!RemovedInAll(Missing)
  BY <1>1, <1>2, HeldIs
<1>5. o \in Nat /\ T!Before(Missing, o) = t
  BY <1>3, <1>4, MissingIs, ThereAndBack, EpisodeIs
<1>6. stored' = T!Round(o, Second)
  BY <1>1, <1>2, <1>3 DEF T!Report, T!Inbound
<1>7. stored' \in Nat /\ 2 * T!Distance(stored' * Second, o) <= Second
  BY <1>5, <1>6, EpisodeIs, RoundIs
<1>8. PICK u \in Nat : u = stored' * Second
  BY <1>7, EpisodeIs
<1>9. 2 * T!Distance(u, o) <= Second
  BY <1>7, <1>8
<1>10. PICK b : b = T!Before(Missing, u)
  OBVIOUS
<1>11. CASE u <= o
  <2>1. b \in Nat /\ b <= t /\ t <= b + (o - u)
    BY <1>5, <1>10, <1>11, BeforeMoves
  <2>2. 2 * T!Distance(b, t) <= Second
    BY <1>5, <1>9, <1>11, <2>1, EpisodeIs DEF T!Distance
  <2> QED BY <1>1, <1>2, <1>8, <1>10, <2>2
<1>12. CASE o <= u
  <2>1. b \in Nat /\ t <= b /\ b <= t + (u - o)
    BY <1>5, <1>10, <1>12, BeforeMoves
  <2>2. 2 * T!Distance(b, t) <= Second
    BY <1>5, <1>9, <1>12, <2>1, EpisodeIs DEF T!Distance
  <2> QED BY <1>1, <1>2, <1>8, <1>10, <2>2
<1> QED BY <1>5, <1>11, <1>12

\* timeline.py:93: a report from a copy whose map the row still has is stored within half a
\* second of what was heard.
THEOREM StoredWhereItWasHeard == Spec => StoredWhereHeard
<1>1. (whose = "timeline" => TimelineCore) /\ [Next]_vars
        => [whose = "timeline" => T!KeptWhereHeard]_vars
  BY ReportKeepsPlace DEF T!KeptWhereHeard
<1> QED BY <1>1, TimelineInvariant, PTL DEF Spec, StoredWhereHeard
=============================================================================
