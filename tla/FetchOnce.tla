------------------------------ MODULE FetchOnce ------------------------------
(***************************************************************************)
(* What the download machinery promises, without its job table, workers'   *)
(* steps or crashes: an episode is fetched only while somebody wants it,   *)
(* by one fetcher at a time, and audio appears on disk only as the result  *)
(* of a fetch that ran to its end.  Downloads implements this module.      *)
(***************************************************************************)
CONSTANTS
  Episodes,   \* episodes that have audio to fetch
  Fetchers,   \* concurrent fetchers
  None        \* a fetcher with nothing to do

VARIABLES
  wanted,     \* episodes somebody asked for and that are not settled yet
  fetching,   \* what each fetcher is writing
  shelf       \* episodes whose complete audio is on disk

vars == <<wanted, fetching, shelf>>

Init ==
  /\ wanted = {}
  /\ fetching = [f \in Fetchers |-> None]
  /\ shelf = {}

\* Requests join the wanted set; each episode is wanted once however often
\* it is asked for.
Want ==
  /\ \E es \in SUBSET Episodes : wanted' = wanted \cup es
  /\ UNCHANGED <<fetching, shelf>>

\* A fetch starts only for a wanted episode nobody is fetching.
Start(f, e) ==
  /\ fetching[f] = None
  /\ e \in wanted
  /\ \A g \in Fetchers : fetching[g] # e
  /\ fetching' = [fetching EXCEPT ![f] = e]
  /\ UNCHANGED <<wanted, shelf>>

\* The only step that puts audio on disk: a whole fetch, by its fetcher.
Complete(f) ==
  /\ fetching[f] # None
  /\ shelf' = shelf \cup {fetching[f]}
  /\ fetching' = [fetching EXCEPT ![f] = None]
  /\ UNCHANGED wanted

\* A fetch that fails leaves the disk alone.  The episode may stay wanted.
GiveUp(f) ==
  /\ fetching[f] # None
  /\ fetching' = [fetching EXCEPT ![f] = None]
  /\ wanted' \in {wanted, wanted \ {fetching[f]}}
  /\ UNCHANGED shelf

\* Every fetcher stops at once; what was wanted still is.
StopAll ==
  /\ fetching' = [f \in Fetchers |-> None]
  /\ UNCHANGED <<wanted, shelf>>

\* A wanted episode is settled: downloaded, failed for good or unsubscribed.
Settle ==
  /\ \E es \in SUBSET wanted : wanted' = wanted \ es
  /\ UNCHANGED <<fetching, shelf>>

\* Audio leaves the disk: a purge, retention or an accident.
Discard ==
  /\ \E es \in SUBSET shelf : shelf' = shelf \ es
  /\ UNCHANGED <<wanted, fetching>>

Next ==
  \/ Want
  \/ \E f \in Fetchers, e \in Episodes : Start(f, e)
  \/ \E f \in Fetchers : Complete(f) \/ GiveUp(f)
  \/ StopAll
  \/ Settle
  \/ Discard

Spec == Init /\ [][Next]_vars
=============================================================================
