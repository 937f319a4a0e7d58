-------------------------------- MODULE SignIn --------------------------------
(***************************************************************************)
(* Signing in: the throttle read before the password is verified and       *)
(* written after it, and one-time codes claimed by a conditional UPDATE.   *)
(* A tick is a step of the one-time codes.  Times are kept as distances    *)
(* from now, so that the clock needs no bound.                             *)
(*                                                                         *)
(* An attempt is stamped with the start of its transaction, which is that  *)
(* of its request.                                                         *)
(***************************************************************************)
EXTENDS Integers, FiniteSets, FiniteSetsExt

CONSTANTS
  Requests,
  Names, Owner,        \* user names that are tried; Owner has the account
  Sources,
  MaxFailures,         \* MAX_FAILURES
  SourceMaxFailures,   \* SOURCE_MAX_FAILURES
  Window,              \* WINDOW, in ticks
  None,
  MaxEnrolments        \* bound

VARIABLES
  attempts,   \* login_attempts within the window: a bag, from attempts to how many
  secret,     \* totp_secret is set
  lastStep,   \* totp_last_step, from now; None when unset or too old to matter
  request,    \* login, per request
  accepted,   \* history: times each step's code signed in under this enrolment
  enrolments

vars == <<attempts, secret, lastStep, request, accepted, enrolments>>

ValidWindow == 1
Steps == -ValidWindow..ValidWindow     \* whose codes are accepted now
Codes == -(ValidWindow + 1)..ValidWindow

Attempt == [name : Names, source : Sources, ok : BOOLEAN, age : 0..(Window - 1)]
Idle == [at |-> "idle", name |-> Owner, source |-> None, good |-> FALSE, code |-> None,
         age |-> 0, stale |-> FALSE]

Init ==
  /\ attempts = [a \in Attempt |-> 0]
  /\ secret \in BOOLEAN /\ lastStep = None
  /\ request = [r \in Requests |-> Idle]
  /\ accepted = [s \in Codes |-> 0]
  /\ enrolments = 0

-----------------------------------------------------------------------------
(* throttle.py                                                              *)

\* The rows of the table that are such attempts.
Rows(kinds) == UNION {{a} \X (1..attempts[a]) : a \in kinds}

\* Seconds until the failure that crossed the line leaves the window: the limit-th oldest.
WaitFrom(failures, limit) ==
  LET crossing == {k \in 0..(Window - 1) :
                     Cardinality(Rows({a \in failures : a.age >= k})) >= limit}
  IN  IF crossing = {} THEN 0 ELSE Window - Max(crossing)

\* Failures since the last success, under a name.
FailuresSince(name) ==
  LET won == {a \in Attempt : a.name = name /\ a.ok /\ attempts[a] > 0}
  IN  {a \in Attempt : a.name = name /\ ~a.ok /\ \A w \in won : a.age < w.age}

UsernameWait(name) == WaitFrom(FailuresSince(name), MaxFailures)

\* All failures from an address, whatever name they tried.
FailuresFrom(source) == {a \in Attempt : a.source = source /\ ~a.ok}

SourceWait(source) == WaitFrom(FailuresFrom(source), SourceMaxFailures)

SecondsUntilUnlocked(name, source) == Max({UsernameWait(name), SourceWait(source)})

\* Those that have left the window are no longer looked at; of successes only whether.
RecordAttempt(r, ok) ==
  LET q == request[r] IN
  IF q.age < Window
  THEN [attempts EXCEPT ![[name |-> q.name, source |-> q.source, ok |-> ok, age |-> q.age]] =
          IF ok THEN 1 ELSE @ + 1]
  ELSE attempts

-----------------------------------------------------------------------------
(* login                                                                    *)

\* Steps whose codes are good now, if this was the last one taken.
Unused(last) == {s \in Steps : last = None \/ s > last}

\* The throttle, then the user's row, both as they are now.  What verify_password and
\* totp.verify find against that row is settled here, but for a code that ages meanwhile.
Login(r, name, source, right, code) ==
  LET good == name = Owner /\ right /\ (secret => code \in Unused(lastStep)) IN
  /\ request[r].at = "idle"
  /\ SecondsUntilUnlocked(name, source) = 0
  /\ request' = [request EXCEPT ![r] =
       [at |-> "hashing", name |-> name, source |-> source, good |-> good,
        code |-> IF good /\ secret THEN code ELSE None, age |-> 0, stale |-> FALSE]]
  /\ UNCHANGED <<attempts, secret, lastStep, accepted, enrolments>>

LockedCounting(name, source) ==   \* mutant: a try while locked out is a failure
  LET a == [name |-> name, source |-> source, ok |-> FALSE, age |-> 0] IN
  /\ SecondsUntilUnlocked(name, source) > 0
  /\ attempts' = [attempts EXCEPT ![a] = IF @ < MaxFailures THEN @ + 1 ELSE @]
  /\ UNCHANGED <<secret, lastStep, request, accepted, enrolments>>

\* 429, and nothing is written.
Locked(name, source) ==
  /\ SecondsUntilUnlocked(name, source) > 0
  /\ UNCHANGED vars

ClaimedUnasked(r) == TRUE   \* mutant: the step is written whatever it was

\* The conditional UPDATE: the row is locked until the attempt is committed with it.
Claimed(r) == request[r].code # None => request[r].code \in Unused(lastStep)

Fail(r) ==
  /\ request[r].at = "hashing"
  /\ ~(request[r].good /\ Claimed(r))
  /\ attempts' = RecordAttempt(r, FALSE)
  /\ request' = [request EXCEPT ![r] = Idle]
  /\ UNCHANGED <<secret, lastStep, accepted, enrolments>>

Succeed(r) ==
  LET q == request[r] IN
  /\ q.at = "hashing" /\ q.good /\ Claimed(r)
  /\ lastStep' = IF q.code = None THEN lastStep ELSE q.code
  /\ accepted' = IF q.code = None \/ q.stale THEN accepted ELSE [accepted EXCEPT ![q.code] = @ + 1]
  /\ attempts' = RecordAttempt(r, TRUE)
  /\ request' = [request EXCEPT ![r] = Idle]
  /\ UNCHANGED <<secret, enrolments>>

-----------------------------------------------------------------------------
\* totp_enable stores a new secret, and deliberately not the step of the code that proved it.
Enrol(on) ==
  /\ on # secret /\ enrolments < MaxEnrolments
  /\ secret' = on
  /\ lastStep' = None
  /\ enrolments' = enrolments + 1
  /\ accepted' = [s \in Codes |-> 0]
  /\ request' = [r \in Requests |-> [request[r] EXCEPT !.stale = request[r].code # None]]
  /\ UNCHANGED attempts

TotpEnable == Enrol(TRUE)
TotpDisable == Enrol(FALSE)

\* A step later; a code or a recorded step that no code can be compared with is forgotten.
Earlier(s) == IF s = None \/ s - 1 \notin Codes THEN None ELSE s - 1

Tick ==
  /\ attempts' = [a \in Attempt |-> IF a.age = 0 THEN 0 ELSE attempts[[a EXCEPT !.age = @ - 1]]]
  /\ lastStep' = Earlier(lastStep)
  /\ accepted' = [s \in Codes |-> IF s + 1 \in Codes THEN accepted[s + 1] ELSE 0]
  /\ request' = [r \in Requests |->
       IF request[r].at = "idle" THEN Idle
       ELSE [request[r] EXCEPT !.age = IF @ < Window THEN @ + 1 ELSE @, !.code = Earlier(@),
                               !.good = @ /\ (request[r].code = None \/ Earlier(request[r].code) \in Steps)]]
  /\ UNCHANGED <<secret, enrolments>>

Next ==
  \/ \E r \in Requests :
       \/ \E name \in Names, source \in Sources :
            \/ Login(r, name, source, FALSE, None)
            \/ \E code \in Steps \cup {None} : Login(r, name, source, TRUE, code)
       \/ Fail(r) \/ Succeed(r)
  \/ \E name \in Names, source \in Sources : Locked(name, source)
  \/ TotpEnable \/ TotpDisable \/ Tick

Spec == Init /\ [][Next]_vars

\* Time passes.  Nobody has to stop trying.
FairSpec == Spec /\ WF_vars(Tick)

-----------------------------------------------------------------------------
(* Properties                                                               *)

SignInTypeOK ==
  /\ \A a \in Attempt : attempts[a] \in Nat
  /\ secret \in BOOLEAN /\ lastStep \in Codes \cup {None}
  /\ \A r \in Requests : request[r].at \in {"idle", "hashing"}
  /\ \A s \in Codes : accepted[s] \in Nat

(* auth_routes.py:128: a code signs in once, though two requests carry it and both read the  *)
(* row before either wrote it.                                                               *)
OneCodeOneSignIn == \A s \in Codes : accepted[s] <= 1

(* throttle.py:20: a window holds no more failures under a name since its last success than  *)
(* the limit, and those that were being verified when it was reached; nor from an address,   *)
(* whatever succeeded meanwhile.                                                             *)
FailuresLimited ==
  LET bound(limit) == limit - 1 + Cardinality(Requests) IN
  /\ \A name \in Names : Cardinality(Rows(FailuresSince(name))) <= bound(MaxFailures)
  /\ \A source \in Sources :
       Cardinality(Rows(FailuresFrom(source))) <= bound(SourceMaxFailures)

SignInConsistent == SignInTypeOK /\ OneCodeOneSignIn /\ FailuresLimited

(* throttle.py:79: trying on cannot extend a lockout for ever.                               *)
Unlocked(name, source) == SecondsUntilUnlocked(name, source) = 0
LockoutEnds == \A name \in Names, source \in Sources : []<>Unlocked(name, source)
=============================================================================
