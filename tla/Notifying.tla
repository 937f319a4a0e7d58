------------------------------ MODULE Notifying ------------------------------
(***************************************************************************)
(* The phones that are notified of new episodes through the relay: passes  *)
(* that ask it for each phone in turn and commit once at the end, beside   *)
(* phones that register and sign out.  The relay answers a dead token and  *)
(* an outage alike, so a phone is forgotten only after days of refusals.   *)
(*                                                                         *)
(* A tick is a day: no pass lasts that long.  A commit updates the columns *)
(* that differ from what was loaded, and fails when such a row is gone.    *)
(***************************************************************************)
EXTENDS Naturals, FiniteSets

CONSTANTS
  Tokens,
  Passes,        \* notify_apns_devices, from a refresh or from send_test
  ForgetAfter,   \* FORGET_DEVICE_AFTER, in ticks
  None,
  MaxRows, MaxStops   \* bounds: rows ever inserted, restarts

VARIABLES
  device,    \* apns_devices: per token an id and the age of failing_since, or None
  ids,
  pass,      \* rows as loaded and as changed, who is still to be asked, who is to go
  refused,   \* history: per row, how long ago the relay first refused it since it last
             \* accepted it, or None
  excused,   \* history: tokens whose row was in a pass that met another, or did not commit
  early,     \* history: other tokens, forgotten before their time
  stops

vars == <<device, ids, pass, refused, excused, early, stops>>

Ages == (0..ForgetAfter) \cup {None}
Older(age) == IF age = None \/ age = ForgetAfter THEN age ELSE age + 1

Idle == [on |-> FALSE, seen |-> [t \in Tokens |-> None], new |-> [t \in Tokens |-> None],
         todo |-> {}, dead |-> {}]

Init ==
  /\ device = [t \in Tokens |-> None] /\ ids = 0
  /\ pass = [p \in Passes |-> Idle]
  /\ refused = [t \in Tokens |-> None]
  /\ excused = {} /\ early = {} /\ stops = 0

Known(rows) == {t \in Tokens : rows[t] # None}

-----------------------------------------------------------------------------
\* A token that is known already keeps its row, and failing_since with it.
RegisterDevice(t) ==
  /\ device[t] = None /\ ids < MaxRows
  /\ ids' = ids + 1
  /\ device' = [device EXCEPT ![t] = [id |-> ids + 1, failing |-> None]]
  /\ excused' = excused \ {t}
  /\ UNCHANGED <<pass, refused, early, stops>>

ForgetDevice(t) ==
  /\ device[t] # None
  /\ device' = [device EXCEPT ![t] = None]
  /\ refused' = [refused EXCEPT ![t] = None]
  /\ UNCHANGED <<ids, pass, excused, early, stops>>

-----------------------------------------------------------------------------
(* notify_apns_devices                                                      *)

Start(p) ==
  LET others == UNION {Known(pass[q].seen) : q \in {q \in Passes : pass[q].on}} IN
  /\ ~pass[p].on /\ Known(device) # {}
  /\ pass' = [pass EXCEPT ![p] = [on |-> TRUE, seen |-> device, new |-> device,
                                  todo |-> Known(device), dead |-> {}]]
  /\ excused' = excused \cup (others \cap Known(device))
  /\ UNCHANGED <<device, ids, refused, early, stops>>

\* The row that was loaded is the one that is there.
Same(p, t) == IF device[t] = None THEN FALSE ELSE device[t].id = pass[p].seen[t].id

AcceptedKeeping(p, t) ==   \* mutant: what failed once counts on, whatever was accepted since
  /\ t \in pass[p].todo
  /\ pass' = [pass EXCEPT ![p].todo = @ \ {t}]
  /\ refused' = [refused EXCEPT ![t] = IF Same(p, t) THEN None ELSE @]
  /\ UNCHANGED <<device, ids, excused, early, stops>>

Accepted(p, t) ==
  /\ t \in pass[p].todo
  /\ pass' = [pass EXCEPT ![p].todo = @ \ {t}, ![p].new[t].failing = None]
  /\ refused' = [refused EXCEPT ![t] = IF Same(p, t) THEN None ELSE @]
  /\ UNCHANGED <<device, ids, excused, early, stops>>

\* Down, unreachable, or the token is dead: the relay does not say which.
Refused(p, t) ==
  LET since == pass[p].seen[t].failing IN
  /\ t \in pass[p].todo
  /\ pass' = [pass EXCEPT ![p].todo = @ \ {t},
                          ![p].new[t].failing = IF since = None THEN 0 ELSE since,
                          ![p].dead = IF since = ForgetAfter THEN @ \cup {t} ELSE @]
  /\ refused' = [refused EXCEPT ![t] = IF @ = None /\ Same(p, t) THEN 0 ELSE @]
  /\ UNCHANGED <<device, ids, excused, early, stops>>

\* failing_since differs from what was loaded; last_used_at always does.
Changed(p) == {t \in Known(pass[p].seen) : pass[p].new[t] # pass[p].seen[t]}
Reached(p) == {t \in Known(pass[p].seen) : pass[p].new[t].failing = None}
Deleted(p) == {t \in pass[p].dead : Same(p, t)}
Over(p) == pass[p].on /\ pass[p].todo = {} /\ pass' = [pass EXCEPT ![p] = Idle]

Commit(p) ==
  /\ Over(p)
  /\ \A t \in Changed(p) \cup Reached(p) : Same(p, t)
  /\ device' = [t \in Tokens |-> IF t \in Deleted(p) THEN None
                                 ELSE IF t \in Changed(p) THEN pass[p].new[t]
                                 ELSE device[t]]
  /\ early' = early \cup {t \in Deleted(p) \ excused : refused[t] # ForgetAfter}
  /\ refused' = [t \in Tokens |-> IF t \in Deleted(p) THEN None ELSE refused[t]]
  /\ UNCHANGED <<ids, excused, stops>>

\* A phone signed out meanwhile: what the relay said of all the others is lost with it.
CommitRefused(p) ==
  /\ Over(p)
  /\ \E t \in Changed(p) \cup Reached(p) : ~Same(p, t)
  /\ excused' = excused \cup Known(pass[p].seen)
  /\ UNCHANGED <<device, ids, refused, early, stops>>

Stop ==
  /\ stops < MaxStops
  /\ stops' = stops + 1
  /\ excused' = excused \cup UNION {Known(pass[p].seen) : p \in Passes}
  /\ pass' = [p \in Passes |-> Idle]
  /\ UNCHANGED <<device, ids, refused, early>>

Tick ==
  /\ \A p \in Passes : ~pass[p].on
  /\ device' = [t \in Tokens |-> IF device[t] = None THEN None
                                 ELSE [device[t] EXCEPT !.failing = Older(@)]]
  /\ refused' = [t \in Tokens |-> Older(refused[t])]
  /\ UNCHANGED <<ids, pass, excused, early, stops>>

Next ==
  \/ \E t \in Tokens : RegisterDevice(t) \/ ForgetDevice(t)
  \/ \E p \in Passes :
       \/ Start(p) \/ Commit(p) \/ CommitRefused(p)
       \/ \E t \in Tokens : Accepted(p, t) \/ Refused(p, t)
  \/ Stop \/ Tick

Spec == Init /\ [][Next]_vars

-----------------------------------------------------------------------------
(* Properties                                                               *)

NotifyTypeOK ==
  /\ ids \in 0..MaxRows
  /\ \A t \in Known(device) : device[t].id \in 1..ids /\ device[t].failing \in Ages
  /\ \A p \in Passes : pass[p].todo \cup pass[p].dead \subseteq Known(pass[p].seen)
  /\ refused \in [Tokens -> Ages]

(* refresh.py:539: a phone is forgotten when the relay has refused it for days on end, not   *)
(* before, and the row says since when, across passes that fail for some phones and not for  *)
(* others, unless a pass met another one or could not commit.                                *)
ForgottenWhenDead ==
  /\ early = {}
  /\ (\A p \in Passes : ~pass[p].on) =>
       \A t \in Known(device) \ excused : device[t].failing = refused[t]

NotifyConsistent == NotifyTypeOK /\ ForgottenWhenDead
=============================================================================
