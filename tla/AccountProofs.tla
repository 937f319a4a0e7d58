----------------------------- MODULE AccountProofs -----------------------------
(***************************************************************************)
(* Proofs about Queue, Notifying and SignIn: the order of the play queue   *)
(* while requests renumber what each of them read, which phones are told   *)
(* of new episodes by passes that cross, and sign-ins that verify while    *)
(* others do.  For any finite number of episodes and requests, and any     *)
(* numbers of phones, passes, names and addresses.                         *)
(***************************************************************************)
EXTENDS Parts, FiniteSetTheorems, SequenceTheorems, WellFoundedInduction, TLAPS

LEMMA WhoseStays == Next => whose' = whose
BY DEF Next, OnlyProcessing, OnlyTimeline, OnlyServing, OnlyRefreshing, OnlySubscribing,
       OnlySignIn, OnlyQueue, OnlyArtwork, OnlyNotifying

-----------------------------------------------------------------------------
(* Finite sets of numbers, and functions onto them                          *)

\* A finite set of numbers has a greatest: of the sets of those that are greater than one of
\* them, the least is empty.
LEMMA GreatestExists ==
  ASSUME NEW S \in SUBSET Nat, IsFiniteSet(S), S # {}
  PROVE  \E m \in S : \A n \in S : m >= n
<1> DEFINE above(m) == {n \in S : n > m}
           sets == {above(m) : m \in S}
<1>1. sets \subseteq FiniteSubsetsOf(S) /\ sets # {}
  <2>1. ASSUME NEW m \in S PROVE above(m) \in SUBSET S /\ IsFiniteSet(above(m))
    <3>1. above(m) \in SUBSET S
      OBVIOUS
    <3> HIDE DEF above
    <3> QED BY <3>1, FS_Subset
  <2>2. above(CHOOSE m \in S : TRUE) \in sets
    OBVIOUS
  <2>3. ASSUME NEW y \in sets PROVE y \in SUBSET S /\ IsFiniteSet(y)
    <3>1. PICK m \in S : y = above(m)
      OBVIOUS
    <3> HIDE DEF above, sets
    <3> QED BY <2>1, <3>1
  <2> HIDE DEF sets
  <2> QED BY <2>2, <2>3 DEF FiniteSubsetsOf
<1>2. PICK m \in S : \A y \in sets : ~(<<y, above(m)>> \in StrictSubsetOrdering(S))
  <2> HIDE DEF above
  <2>1. PICK x \in sets : \A y \in sets : ~(<<y, x>> \in StrictSubsetOrdering(S))
    <3> HIDE DEF sets
    <3> QED BY <1>1, FS_StrictSubsetOrderingWellFounded, WFMin
  <2> QED BY <2>1
<1>3. ASSUME NEW n \in S, ~(m >= n) PROVE FALSE
  <2>0. n > m /\ n \in above(m) /\ n \notin above(n) /\ above(m) \subseteq S
    BY <1>3
  <2>1. above(n) \subseteq above(m) /\ above(n) # above(m) /\ above(m) \subseteq S
    <3>1. \A x \in above(n) : x \in above(m)
      BY <2>0
    <3> HIDE DEF above
    <3> QED BY <2>0, <3>1
  <2>2. above(n) \in sets
    OBVIOUS
  <2> HIDE DEF above, sets
  <2>3. <<above(n), above(m)>> \in StrictSubsetOrdering(S)
    BY <2>1 DEF StrictSubsetOrdering
  <2> QED BY <1>2, <2>2, <2>3
<1> QED BY <1>3

\* A function onto as many as it is of takes no value twice.
LEMMA OntoAsMany ==
  ASSUME NEW S, NEW f, IsFiniteSet(S), f = [x \in S |-> f[x]],
         {f[x] : x \in S} = 0..(Cardinality(S) - 1)
  PROVE  \A x, y \in S : f[x] = f[y] => x = y
<1> DEFINE n == Cardinality(S)
           upto == 0..(n - 1)
<1>1. n \in Nat
  BY FS_CardinalityType
<1>2. IsFiniteSet(upto) /\ Cardinality(upto) = n
  <2>1. IsFiniteSet(upto) /\ Cardinality(upto) = IF 0 > n - 1 THEN 0 ELSE (n - 1) - 0 + 1
    <3>1. 0 \in Int /\ n - 1 \in Int
      BY <1>1
    <3> HIDE DEF n
    <3> QED BY <3>1, FS_Interval
  <2> HIDE DEF n
  <2> QED BY <1>1, <2>1
<1>3. f \in Surjection(S, upto)
  BY DEF Surjection
<1> HIDE DEF upto
<1>4. f \in Injection(S, upto)
  BY <1>2, <1>3, FS_Surjection
<1> QED BY <1>4 DEF Injection, IsInjective

\* A function without equal values to the numbers below how many it is of takes them all.
LEMMA IntoAsMany ==
  ASSUME NEW S, NEW f, IsFiniteSet(S), f = [x \in S |-> f[x]],
         \A x \in S : f[x] \in 0..(Cardinality(S) - 1),
         \A x, y \in S : f[x] = f[y] => x = y
  PROVE  {f[x] : x \in S} = 0..(Cardinality(S) - 1)
<1> DEFINE n == Cardinality(S)
           upto == 0..(n - 1)
<1>1. n \in Nat
  BY FS_CardinalityType
<1>2. IsFiniteSet(upto) /\ Cardinality(upto) = n
  <2>1. IsFiniteSet(upto) /\ Cardinality(upto) = IF 0 > n - 1 THEN 0 ELSE (n - 1) - 0 + 1
    <3>1. 0 \in Int /\ n - 1 \in Int
      BY <1>1
    <3> HIDE DEF n
    <3> QED BY <3>1, FS_Interval
  <2> HIDE DEF n
  <2> QED BY <1>1, <2>1
<1>3. f \in Injection(S, upto)
  BY DEF Injection, IsInjective
<1>4. f \in Surjection(S, upto)
  <2> HIDE DEF upto
  <2> QED BY <1>2, <1>3, FS_Injection
<1> QED BY <1>4 DEF Surjection

\* Of those that take the numbers below n, as many are below k as there are numbers.
LEMMA CountBelow ==
  ASSUME NEW S, NEW f, IsFiniteSet(S), f = [x \in S |-> f[x]], NEW k \in Nat,
         {f[x] : x \in S} = 0..(Cardinality(S) - 1)
  PROVE  Cardinality({x \in S : f[x] < k}) = IF k > Cardinality(S) THEN Cardinality(S) ELSE k
<1> DEFINE n == Cardinality(S)
           m == IF k > n THEN n ELSE k
           below == {x \in S : f[x] < k}
           upto == 0..(m - 1)
           g == [x \in below |-> f[x]]
<1>1. n \in Nat /\ m \in Nat
  BY FS_CardinalityType
<1>2. g \in Injection(below, upto)
  <2>1. \A x, y \in S : f[x] = f[y] => x = y
    BY OntoAsMany
  <2>2. \A x \in below : f[x] \in 0..(n - 1) /\ f[x] < k
    OBVIOUS
  <2>3. \A x \in below : f[x] \in upto
    <3> HIDE DEF n
    <3> QED BY <1>1, <2>2
  <2> QED BY <2>1, <2>3 DEF Injection, IsInjective
<1>3. \A i \in upto : \E x \in below : g[x] = i
  <2> SUFFICES ASSUME NEW i \in upto PROVE \E x \in below : g[x] = i
    OBVIOUS
  <2>1. i \in 0..(n - 1) /\ i < k
    <3> HIDE DEF n
    <3> QED BY <1>1
  <2>2. PICK x \in S : f[x] = i
    BY <2>1
  <2> QED BY <2>1, <2>2
<1>4. IsFiniteSet(upto) /\ Cardinality(upto) = m
  <2>1. IsFiniteSet(upto) /\ Cardinality(upto) = IF 0 > m - 1 THEN 0 ELSE (m - 1) - 0 + 1
    <3>1. 0 \in Int /\ m - 1 \in Int
      BY <1>1
    <3> HIDE DEF m
    <3> QED BY <3>1, FS_Interval
  <2> HIDE DEF m
  <2> QED BY <1>1, <2>1
<1>5. g \in Surjection(below, upto)
  BY <1>2, <1>3 DEF Injection, Surjection
<1>6. Cardinality(below) = Cardinality(upto)
  <2> HIDE DEF below, upto, g
  <2> QED BY <1>2, <1>4, <1>5, FS_Injection
<1> QED BY <1>4, <1>6

-----------------------------------------------------------------------------
(* Queue                                                                    *)

\* A queue, or what a transaction sees of it: rows that can be told apart.
Rows(q) == /\ q = [e \in Queueable |-> q[e]]
           /\ \A e \in Queueable : q[e] \in Items \cup {None}
           /\ \A x, y \in Q!Queued(q) : x # y => q[x].id # q[y].id

LEMMA QueuedFinite ==
  ASSUME NEW q, Rows(q)
  PROVE  /\ Q!Queued(q) \subseteq Queueable /\ IsFiniteSet(Q!Queued(q))
         /\ \A e \in Q!Queued(q) : q[e] \in Items /\ q[e].id \in Nat /\ q[e].position \in Nat
         /\ Cardinality(Q!Queued(q)) \in Nat
         /\ Cardinality(Q!Queued(q)) <= Cardinality(Queueable) /\ Cardinality(Queueable) \in Nat
<1>1. /\ Q!Queued(q) \in SUBSET Queueable
      /\ \A e \in Q!Queued(q) : q[e] \in Items
  BY DEF Rows, Q!Queued
<1>2. /\ IsFiniteSet(Q!Queued(q)) /\ Cardinality(Q!Queued(q)) <= Cardinality(Queueable)
  BY <1>1, QueueAssumption, FS_Subset
<1> QED BY <1>1, <1>2, QueueAssumption, FS_CardinalityType DEF Items

\* The places of a queue's rows are the numbers below how many there are, in the rows' order.
LEMMA PlacesInOrder ==
  ASSUME NEW q, Rows(q)
  PROVE  /\ \A e \in Q!Queued(q) : Q!Place(q, e) \in 0..(Cardinality(Q!Queued(q)) - 1)
         /\ \A x, y \in Q!Queued(q) : Q!Precedes(q, x, y) => Q!Place(q, x) < Q!Place(q, y)
         /\ \A x, y \in Q!Queued(q) : x # y => Q!Place(q, x) # Q!Place(q, y)
<1> DEFINE S == Q!Queued(q)
           before(e) == {x \in S : Q!Precedes(q, x, e)}
<1>1. /\ IsFiniteSet(S) /\ Cardinality(S) \in Nat
      /\ \A e \in S : q[e].id \in Nat /\ q[e].position \in Nat
  BY QueuedFinite
<1>2. \A e : Q!Place(q, e) = Cardinality(before(e))
  BY DEF Q!Place, Q!Cardinality, Cardinality
<1>3. /\ \A x \in S : ~Q!Precedes(q, x, x)
      /\ \A x, y, z \in S : Q!Precedes(q, x, y) /\ Q!Precedes(q, y, z) => Q!Precedes(q, x, z)
  BY <1>1 DEF Q!Precedes
<1>4. \A x, y \in S : x # y => Q!Precedes(q, x, y) \/ Q!Precedes(q, y, x)
  BY <1>1 DEF Q!Precedes, Rows
<1>5. \A e \in S : before(e) \subseteq S /\ e \notin before(e)
  BY <1>3
<1>6. \A x, y \in S : Q!Precedes(q, x, y) => before(x) \subseteq before(y) /\ x \in before(y)
  BY <1>3
<1> HIDE DEF S, before
<1>7. ASSUME NEW e \in S PROVE Cardinality(before(e)) \in 0..(Cardinality(S) - 1)
  <2>1. before(e) \in SUBSET S /\ before(e) # S
    BY <1>5
  <2>2. Cardinality(before(e)) <= Cardinality(S) /\ Cardinality(before(e)) # Cardinality(S)
    BY <1>1, <2>1, FS_Subset
  <2>3. Cardinality(before(e)) \in Nat
    BY <1>1, <2>1, FS_Subset, FS_CardinalityType
  <2> QED BY <1>1, <2>2, <2>3
<1>8. ASSUME NEW x \in S, NEW y \in S, Q!Precedes(q, x, y)
      PROVE  Cardinality(before(x)) < Cardinality(before(y))
  <2>1. before(x) \in SUBSET before(y) /\ before(x) # before(y)
    BY <1>5, <1>6, <1>8
  <2>2. IsFiniteSet(before(y))
    BY <1>1, <1>5, FS_Subset
  <2>3. Cardinality(before(x)) <= Cardinality(before(y))
        /\ Cardinality(before(x)) # Cardinality(before(y))
    BY <2>1, <2>2, FS_Subset
  <2> QED BY <1>7, <2>3
<1>9. ASSUME NEW x \in S, NEW y \in S, x # y
      PROVE  Cardinality(before(x)) # Cardinality(before(y))
  BY <1>4, <1>7, <1>8, <1>9
<1> QED BY <1>2, <1>7, <1>8, <1>9 DEF S

\* A transaction, and what it has at each stage.
JobOK(t) ==
  /\ t = [at |-> t.at, wanted |-> t.wanted, list |-> t.list, new |-> t.new, id |-> t.id,
          gone |-> t.gone, write |-> t.write, locks |-> t.locks]
  /\ t.at \in {"idle", "read", "numbered"} /\ (t.at = "idle" => t = Q!Idle)
  /\ t.wanted \in Targets \cup {None} /\ t.new \in Queueable \cup {None}
  /\ t.gone \subseteq Queueable /\ t.locks \subseteq Queueable
  /\ DOMAIN t.write \subseteq Queueable /\ \A e \in DOMAIN t.write : t.write[e] \in Nat
  /\ t.id \in Nat /\ DOMAIN t.write \cap t.gone = {}
  /\ t.new # None => t.gone = {} /\ t.list = <<>>
  /\ t.at = "read" => /\ t.locks = {} /\ t.list = <<>>
                      /\ t.new # None => t.new \in DOMAIN t.write
                      /\ t.new = None => DOMAIN t.write = {}
  /\ t.at = "numbered" =>
       /\ \A e \in DOMAIN t.write : t.write[e] \in Q!Positions
       /\ t.new # None => /\ t.new \in DOMAIN t.write /\ t.new \in t.locks
                          /\ t.id \in 1..ids

Inserts(t) == t.at = "numbered" /\ t.new # None

QueueOK ==
  /\ Rows(item) /\ ids \in Nat
  /\ \A e \in Q!Queued(item) : item[e].position \in Q!Positions /\ item[e].id \in 1..ids
  /\ task = [r \in Requests |-> task[r]] /\ \A r \in Requests : JobOK(task[r])
  /\ crossed \subseteq {r \in Requests : task[r].at # "idle"}
  /\ \A r \in Requests : Inserts(task[r]) =>
       /\ \A e \in Q!Queued(item) : item[e].id # task[r].id
       /\ \A q \in Requests : q # r /\ Inserts(task[q]) => task[q].id # task[r].id
  /\ \A r, q \in Requests : r # q => task[r].locks \cap task[q].locks = {}

\* What a transaction sees of a queue, Q!View of the one that is committed.
Sees(q, t) ==
  [e \in Queueable |->
     IF e \in t.gone THEN None
     ELSE IF e = t.new THEN [id |-> t.id, position |-> t.write[e]]
     ELSE IF e \in DOMAIN t.write /\ q[e] # None THEN [id |-> q[e].id, position |-> t.write[e]]
     ELSE q[e]]

\* What a request that met no other has read is so still, and what it would leave is mended.
Shifted(q, wanted) == {x \in Q!Queued(q) : wanted # None /\ q[x].position >= wanted}
MendedBy(q, t, v) ==
  LET n == Cardinality(Q!Queued(q))
      others == Q!Queued(q) \ (Q!ToSet(t.list) \cup t.gone)
  IN  /\ Q!IsInjective(t.list) => Q!Dense(v)
      /\ \A x, y \in Q!Queued(v) : x # y => v[x].position # v[y].position
      /\ Q!Queued(v) = (Q!Queued(q) \ t.gone) \cup ({t.new} \ {None})
      /\ \A x, y \in others : q[x].position < q[y].position => v[x].position < v[y].position
      /\ \A x \in others : v[x].position >= Len(t.list)
      /\ \A i \in DOMAIN t.list :
           (\A j \in DOMAIN t.list : j > i => t.list[j] # t.list[i])
             => v[t.list[i]].position = i - 1
      /\ t.new # None /\ (t.wanted = None \/ Q!Dense(q)) =>
           v[t.new].position = IF t.wanted = None \/ t.wanted > n THEN n ELSE t.wanted

SettledJob(q, t) ==
  /\ t.at = "read" =>
       /\ t.gone \subseteq Q!Queued(q)
       /\ t.new # None =>
            /\ q[t.new] = None
            /\ t.write = [x \in Shifted(q, t.wanted) \cup {t.new} |->
                 IF x # t.new THEN q[x].position + 1
                 ELSE IF t.wanted = None THEN Q!Max(Q!Ends(q)) ELSE t.wanted]
  /\ t.at = "numbered" => MendedBy(q, t, Sees(q, t))
Settled == \A r \in Requests \ crossed : SettledJob(item, task[r])

QueueCore == QueueOK /\ Settled

LEMMA IdleJob == /\ JobOK(Q!Idle) /\ Q!Idle.at = "idle" /\ Q!Idle.locks = {} /\ Q!Idle.new = None
BY DEF JobOK, Q!Idle, Q!Job

LEMMA QueueInit == Q!Init => QueueCore
<1> SUFFICES ASSUME Q!Init PROVE QueueCore
  OBVIOUS
<1>1. /\ item = [e \in Queueable |-> None] /\ ids = 0 /\ crossed = {}
      /\ task = [r \in Requests |-> Q!Idle]
  BY DEF Q!Init
<1>2. Q!Queued(item) = {} /\ Rows(item)
  BY <1>1 DEF Rows, Q!Queued
<1>3. \A r \in Requests : task[r] = Q!Idle
  BY <1>1
<1>4. Settled
  BY <1>3, IdleJob DEF Settled, SettledJob
<1> QED BY <1>1, <1>2, <1>3, <1>4, IdleJob DEF QueueCore, QueueOK, Inserts

LEMMA ViewSees ==
  ASSUME NEW t
  PROVE  Q!View(t) = Sees(item, t)
BY DEF Q!View, Sees

\* A step of one request that leaves the rows as they are.
LEMMA OneJob ==
  ASSUME QueueCore, NEW r \in Requests, NEW to, JobOK(to)', task' = [task EXCEPT ![r] = to],
         item' = item, ids' \in Nat, ids <= ids',
         crossed' \in {crossed, crossed \ {r}}, to.at = "idle" => r \notin crossed',
         Inserts(to) => \/ to.id = task[r].id /\ Inserts(task[r])
                        \/ to.id > ids,
         to.locks \subseteq task[r].locks \/ to.locks \cap Q!Locked(r) = {},
         r \notin crossed' => SettledJob(item, to)
  PROVE  QueueCore'
<1>1. /\ task'[r] = to /\ (\A q \in Requests \ {r} : task'[q] = task[q])
      /\ task' = [q \in Requests |-> task'[q]]
  BY DEF QueueCore, QueueOK
<1>2. ids \in Nat /\ \A i : i \in 1..ids => i \in 1..ids' /\ i <= ids
  BY DEF QueueCore, QueueOK
<1>3. ASSUME NEW q \in Requests PROVE JobOK(task[q])'
  <2>1. CASE q = r
    BY <1>1, <2>1 DEF JobOK
  <2>2. CASE q # r
    BY <1>1, <1>2, <2>2 DEF JobOK, QueueCore, QueueOK
  <2> QED BY <2>1, <2>2
<1>4. Rows(item)' /\ \A e \in Q!Queued(item') : item'[e].position \in Q!Positions /\ item'[e].id \in 1..ids'
  BY <1>2 DEF QueueCore, QueueOK, Rows, Q!Queued
<1>5. crossed' \subseteq {q \in Requests : task'[q].at # "idle"}
  BY <1>1 DEF QueueCore, QueueOK
<1>6. ASSUME NEW p \in Requests, Inserts(task'[p])
      PROVE  /\ \A e \in Q!Queued(item') : item'[e].id # task'[p].id
             /\ \A q \in Requests : q # p /\ Inserts(task'[q]) => task'[q].id # task'[p].id
  <2>1. \A q \in Requests : Inserts(task[q]) => task[q].id \in 1..ids
    BY DEF QueueCore, QueueOK, JobOK, Inserts
  <2>2. ASSUME NEW q \in Requests, Inserts(task'[q])
        PROVE  \/ task'[q].id = task[q].id /\ Inserts(task[q])
               \/ q = r /\ task'[q].id > ids
    <3>1. CASE q = r
      BY <1>1, <2>2, <3>1
    <3>2. CASE q # r
      BY <1>1, <2>2, <3>2
    <3> QED BY <3>1, <3>2
  <2>3. \A e \in Q!Queued(item) : item[e].id \in 1..ids
    BY DEF QueueCore, QueueOK
  <2> QED BY <1>2, <1>6, <2>1, <2>2, <2>3 DEF QueueCore, QueueOK
<1>7. ASSUME NEW p \in Requests, NEW q \in Requests, p # q
      PROVE  task'[p].locks \cap task'[q].locks = {}
  <2>1. \A x \in Requests \ {r} : to.locks \cap task[x].locks = {}
    BY DEF QueueCore, QueueOK, Q!Locked
  <2> QED BY <1>1, <1>7, <2>1 DEF QueueCore, QueueOK
<1>8. Settled'
  <2>1. ASSUME NEW q \in Requests, q \notin crossed' PROVE SettledJob(item, task'[q])
    BY <1>1, <2>1 DEF QueueCore, Settled
  <2> QED BY <2>1 DEF Settled
<1> QED BY <1>1, <1>3, <1>4, <1>5, <1>6, <1>7, <1>8 DEF QueueCore, QueueOK, Inserts

\* The tail is after every row.
LEMMA TailAfterAll ==
  ASSUME NEW q, Rows(q)
  PROVE  /\ Q!Max(Q!Ends(q)) \in Nat
         /\ \A e \in Q!Queued(q) : q[e].position < Q!Max(Q!Ends(q))
<1> DEFINE S == Q!Queued(q)
           after == {q[e].position + 1 : e \in S}
           f == [e \in S |-> q[e].position + 1]
<1>1. IsFiniteSet(S) /\ \A e \in S : q[e].position \in Nat
  BY QueuedFinite
<1>2. Q!Ends(q) = after \cup {0}
  BY DEF Q!Ends
<1>3. after \cup {0} \subseteq Nat /\ f \in Surjection(S, after)
  BY <1>1 DEF Surjection
<1>4. \A e \in S : q[e].position + 1 \in after
  OBVIOUS
<1> HIDE DEF S, f, after
<1>5. IsFiniteSet(after \cup {0})
  BY <1>1, <1>3, FS_Surjection, FS_AddElement
<1>6. \E m \in after \cup {0} : \A n \in after \cup {0} : m >= n
  BY <1>3, <1>5, GreatestExists
<1> DEFINE m == Q!Max(Q!Ends(q))
<1>7. m \in after \cup {0} /\ \A n \in after \cup {0} : m >= n
  BY <1>2, <1>6 DEF Q!Max
<1> HIDE DEF m
<1>8. m \in Nat /\ \A e \in S : q[e].position < m
  BY <1>1, <1>3, <1>4, <1>7
<1> QED BY <1>8 DEF S, m

\* A transaction before it has written anything: it owes nothing to the ids given out.
LEMMA ReadJob ==
  ASSUME NEW to, NEW wanted \in Targets \cup {None}, NEW new \in Queueable \cup {None},
         NEW gone \in SUBSET Queueable, NEW write,
         to = [at |-> "read", wanted |-> wanted, list |-> <<>>, new |-> new, id |-> 0,
               gone |-> gone, write |-> write, locks |-> {}],
         DOMAIN write \subseteq Queueable, \A x \in DOMAIN write : write[x] \in Nat,
         IF new = None THEN DOMAIN write = {} ELSE new \in DOMAIN write /\ gone = {}
  PROVE  JobOK(to)'
BY DEF JobOK

LEMMA QueueAdds ==
  ASSUME QueueCore, NEW r \in Requests, NEW e \in Queueable, NEW wanted \in Targets \cup {None},
         Q!Add(r, e, wanted)
  PROVE  QueueCore'
<1> DEFINE shifted == Shifted(item, wanted)
           position == IF wanted = None THEN Q!Max(Q!Ends(item)) ELSE wanted
<1>1. PICK write : write = [x \in shifted \cup {e} |->
                              IF x = e THEN position ELSE item[x].position + 1]
  OBVIOUS
<1>2. PICK to : to = [at |-> "read", wanted |-> wanted, list |-> <<>>, new |-> e, id |-> 0,
                      gone |-> {}, write |-> write, locks |-> {}]
  OBVIOUS
<1>3. /\ item[e] = None /\ task[r].at = "idle" /\ task' = [task EXCEPT ![r] = to]
      /\ UNCHANGED <<item, ids, crossed>>
  <2>1. Q!Job("read", wanted, <<>>, e, {}, write) = to
    BY <1>2 DEF Q!Job
  <2> QED BY <1>1, <2>1 DEF Q!Add, Q!Begin, Shifted
<1>4. /\ shifted \subseteq Queueable /\ e # None /\ \A x \in shifted : item[x].position \in Nat
      /\ position \in Nat
  BY TailAfterAll, QueuedFinite, QueueAssumption DEF QueueCore, QueueOK, Shifted
<1>5. /\ DOMAIN write = shifted \cup {e} /\ \A x \in DOMAIN write : write[x] \in Nat
      /\ write = [x \in shifted \cup {e} |-> IF x # e THEN item[x].position + 1 ELSE position]
  <2> HIDE DEF shifted, position
  <2> QED BY <1>1, <1>4
<1>6. /\ to.at = "read" /\ to.wanted = wanted /\ to.list = <<>> /\ to.new = e /\ to.gone = {}
      /\ to.write = write /\ to.locks = {}
  BY <1>2
<1>7. SettledJob(item, to)
  BY <1>3, <1>5, <1>6 DEF SettledJob
<1>8. JobOK(to)'
  <2> HIDE DEF shifted, position
  <2> QED BY <1>2, <1>4, <1>5, ReadJob
<1> QED BY <1>3, <1>6, <1>7, <1>8, OneJob DEF QueueCore, QueueOK, Inserts

LEMMA QueueLeaves ==
  ASSUME QueueCore, NEW r \in Requests, NEW E \in SUBSET Queueable, Q!Leave(r, E)
  PROVE  QueueCore'
<1>1. PICK to : to = [at |-> "read", wanted |-> None, list |-> <<>>, new |-> None, id |-> 0,
                      gone |-> E, write |-> <<>>, locks |-> {}]
  OBVIOUS
<1>2. /\ E \subseteq Q!Queued(item) /\ task[r].at = "idle" /\ task' = [task EXCEPT ![r] = to]
      /\ UNCHANGED <<item, ids, crossed>>
  <2>1. Q!Job("read", None, <<>>, None, E, <<>>) = to
    BY <1>1 DEF Q!Job
  <2> QED BY <2>1 DEF Q!Leave, Q!Begin
<1>3. /\ to.at = "read" /\ to.wanted = None /\ to.list = <<>> /\ to.new = None /\ to.gone = E
      /\ to.locks = {}
  BY <1>1
<1>4. SettledJob(item, to)
  BY <1>2, <1>3 DEF SettledJob
<1>5. JobOK(to)'
  <2>1. DOMAIN <<>> = {}
    OBVIOUS
  <2> QED BY <1>1, <2>1, ReadJob
<1> QED BY <1>2, <1>3, <1>4, <1>5, OneJob DEF QueueCore, QueueOK, Inserts

LEMMA QueueRefuses ==
  ASSUME QueueCore, NEW r \in Requests, Q!Refused(r)
  PROVE  QueueCore'
<1>1. PICK to : to = Q!Idle
  OBVIOUS
<1>2. /\ task' = [task EXCEPT ![r] = to] /\ crossed' = crossed \ {r} /\ UNCHANGED <<item, ids>>
  BY <1>1 DEF Q!Refused
<1>3. to.at = "idle" /\ to.locks = {} /\ ~Inserts(to) /\ SettledJob(item, to)
  BY <1>1, IdleJob DEF Inserts, SettledJob
<1>4. JobOK(to)'
  BY <1>1 DEF JobOK, Q!Idle, Q!Job
<1> QED BY <1>2, <1>3, <1>4, OneJob DEF QueueCore, QueueOK

-----------------------------------------------------------------------------
(* The flush, and the numbering after it                                    *)

\* A transaction that has read q and may write, with the id its new row gets.
Flushing(q, t) ==
  /\ Rows(q)
  /\ t.new \in Queueable \cup {None} /\ t.gone \subseteq Queueable /\ t.id \in Nat
  /\ DOMAIN t.write \subseteq Queueable /\ \A e \in DOMAIN t.write : t.write[e] \in Nat
  /\ t.new # None => t.gone = {} /\ t.new \in DOMAIN t.write
  /\ \A e \in DOMAIN t.write : e \notin t.gone /\ (e # t.new => q[e] # None)
  /\ t.new # None => \A e \in Q!Queued(q) : q[e].id # t.id

LEMMA SeesRows ==
  ASSUME NEW q, NEW t, Flushing(q, t)
  PROVE  LET v == Sees(q, t) IN
         /\ Rows(v)
         /\ Q!Queued(v) = (Q!Queued(q) \ t.gone) \cup ({t.new} \ {None})
         /\ \A e \in Q!Queued(v) :
              /\ v[e].id = IF e = t.new THEN t.id ELSE q[e].id
              /\ v[e].position = IF e \in DOMAIN t.write THEN t.write[e] ELSE q[e].position
         /\ DOMAIN t.write \subseteq Q!Queued(v)
<1> DEFINE v == Sees(q, t)
           S == Q!Queued(q)
<1>1. /\ S \subseteq Queueable /\ \A e \in S : q[e] \in Items
      /\ \A e \in Queueable : e \in S <=> q[e] # None
  BY QueuedFinite DEF Flushing, Q!Queued, Rows
<1>2. ASSUME NEW e \in Queueable
      PROVE  v[e] = IF e \in t.gone THEN None
                    ELSE IF e = t.new THEN [id |-> t.id, position |-> t.write[e]]
                    ELSE IF e \in DOMAIN t.write THEN [id |-> q[e].id, position |-> t.write[e]]
                    ELSE q[e]
  BY DEF Sees, Flushing
<1>3. \A i, p \in Nat : [id |-> i, position |-> p] \in Items
  BY DEF Items
<1>4. \A x \in Items : x # None
  BY QueueAssumption
<1>5. \A e \in S : q[e].id \in Nat
  BY <1>1 DEF Items
<1>6. ASSUME NEW e \in Queueable
      PROVE  /\ v[e] \in Items \cup {None}
             /\ v[e] # None <=> e \in (S \ t.gone) \cup ({t.new} \ {None})
  <2>1. CASE e \in t.gone
    BY <1>2, <2>1 DEF Flushing
  <2>2. CASE e \notin t.gone /\ e \in DOMAIN t.write
    <3>1. e = t.new \/ e \in S
      BY <1>1, <2>2 DEF Flushing
    <3> DEFINE i == IF e = t.new THEN t.id ELSE q[e].id
               p == t.write[e]
    <3>2. v[e] = [id |-> i, position |-> p] /\ i \in Nat /\ p \in Nat
      BY <1>2, <1>5, <2>2, <3>1 DEF Flushing
    <3> HIDE DEF i, p, v
    <3>3. v[e] \in Items /\ v[e] # None
      BY <1>3, <1>4, <3>2
    <3> QED BY <2>2, <3>1, <3>3, QueueAssumption
  <2>3. CASE e \notin t.gone /\ e \notin DOMAIN t.write
    <3>1. e # t.new /\ v[e] = q[e]
      BY <1>2, <2>3, QueueAssumption DEF Flushing
    <3> QED BY <1>1, <2>3, <3>1 DEF Flushing, Rows
  <2> QED BY <2>1, <2>2, <2>3
<1>7. v = [e \in Queueable |-> v[e]] /\ DOMAIN v = Queueable
  BY DEF Sees
<1> HIDE DEF v
<1>8. Q!Queued(v) = (S \ t.gone) \cup ({t.new} \ {None})
  BY <1>1, <1>6, <1>7 DEF Q!Queued, Flushing
<1>9. ASSUME NEW e \in Q!Queued(v)
      PROVE  /\ v[e].id = IF e = t.new THEN t.id ELSE q[e].id
             /\ v[e].position = IF e \in DOMAIN t.write THEN t.write[e] ELSE q[e].position
  <2>1. e \in Queueable /\ e \notin t.gone /\ (e = t.new => e \in DOMAIN t.write)
    BY <1>1, <1>8, QueueAssumption DEF Flushing
  <2> DEFINE i == IF e = t.new THEN t.id ELSE q[e].id
             p == t.write[e]
  <2>2. v[e] = IF e \in DOMAIN t.write THEN [id |-> i, position |-> p] ELSE q[e]
    BY <1>2, <2>1
  <2>3. e \notin DOMAIN t.write => i = q[e].id
    BY <2>1
  <2> HIDE DEF i, p
  <2>4. v[e].id = i /\ v[e].position = IF e \in DOMAIN t.write THEN p ELSE q[e].position
    BY <2>2, <2>3
  <2> QED BY <2>4 DEF i, p
<1>10. ASSUME NEW x \in Q!Queued(v), NEW y \in Q!Queued(v), x # y
       PROVE  v[x].id # v[y].id
  <2>1. x # None /\ y # None
    BY <1>1, <1>8, QueueAssumption
  <2>2. /\ x # t.new => x \in S
        /\ y # t.new => y \in S
    BY <1>8
  <2>3. \A i, j \in S : i # j => q[i].id # q[j].id
    BY DEF Flushing, Rows
  <2>4. t.new # None => \A i \in S : q[i].id # t.id
    BY DEF Flushing
  <2> QED BY <1>9, <1>10, <2>1, <2>2, <2>3, <2>4
<1>11. DOMAIN t.write \subseteq Q!Queued(v)
  BY <1>1, <1>8, QueueAssumption DEF Flushing
<1> QED BY <1>6, <1>7, <1>8, <1>9, <1>10, <1>11 DEF Rows, v

\* Once renumbered, what a transaction sees has the places of what it saw as its positions.
LEMMA Renumbered ==
  ASSUME NEW q, NEW t, Flushing(q, t), NEW f,
         f.new = t.new, f.gone = t.gone, f.id = t.id, f.write = Q!Compacted(t, Sees(q, t))
  PROVE  LET v == Sees(q, t)  w == Sees(q, f)  n == Cardinality(Q!Queued(v)) IN
         /\ Q!Queued(w) = Q!Queued(v)
         /\ \A e \in Q!Queued(v) : w[e].position = Q!Place(v, e)
         /\ DOMAIN f.write \subseteq Queueable \ t.gone /\ DOMAIN t.write \subseteq DOMAIN f.write
         /\ \A e \in DOMAIN f.write : f.write[e] \in 0..(n - 1)
<1> DEFINE v == Sees(q, t)
           w == Sees(q, f)
           S == Q!Queued(v)
           n == Cardinality(S)
           off == {e \in S : v[e].position # Q!Place(v, e)}
<1>1. /\ Rows(v) /\ S = (Q!Queued(q) \ t.gone) \cup ({t.new} \ {None})
      /\ \A e \in S :
           v[e].position = IF e \in DOMAIN t.write THEN t.write[e] ELSE q[e].position
      /\ DOMAIN t.write \subseteq S
  BY SeesRows
<1>2. S \subseteq Queueable \ t.gone /\ n \in Nat
  BY <1>1, QueuedFinite, QueueAssumption DEF Flushing
<1>3. \A e \in S : Q!Place(v, e) \in 0..(n - 1)
  BY <1>1, PlacesInOrder
<1>4. f.write = [e \in DOMAIN t.write \cup off |-> IF e \in off THEN Q!Place(v, e) ELSE t.write[e]]
  BY DEF Q!Compacted
<1> HIDE DEF n, v
<1>5. DOMAIN f.write = DOMAIN t.write \cup off /\ \A e \in DOMAIN f.write : f.write[e] = Q!Place(v, e)
  BY <1>1, <1>4
<1>6. \A e \in S \ DOMAIN f.write : q[e].position = Q!Place(v, e)
  BY <1>1, <1>5
<1>7. DOMAIN f.write \subseteq S /\ \A e \in DOMAIN f.write : f.write[e] \in 0..(n - 1)
  BY <1>1, <1>3, <1>5
<1> HIDE DEF off, S
<1>8. Flushing(q, f)
  <2>1. ASSUME NEW e \in DOMAIN f.write
        PROVE  e \notin t.gone /\ (e # t.new => q[e] # None)
    <3>1. e \in S
      BY <1>7
    <3>2. e \in Q!Queued(q) \ t.gone \/ (e = t.new /\ t.new # None)
      BY <1>1, <3>1
    <3> QED BY <3>2 DEF Q!Queued, Flushing
  <2>2. \A e \in DOMAIN f.write : f.write[e] \in Nat
    BY <1>2, <1>7
  <2> QED BY <1>2, <1>5, <1>7, <2>1, <2>2 DEF Flushing
<1>9. /\ Q!Queued(w) = S
      /\ \A e \in S :
           w[e].position = IF e \in DOMAIN f.write THEN f.write[e] ELSE q[e].position
  BY <1>1, <1>8, SeesRows DEF S, v
<1>10. \A e \in S : w[e].position = Q!Place(v, e)
  BY <1>5, <1>6, <1>9
<1> QED BY <1>2, <1>5, <1>7, <1>9, <1>10 DEF S, n, v

\* The numbering leaves what Mended asks for, if the transaction met no other before it.
LEMMA FlushMends ==
  ASSUME NEW q, NEW t, Flushing(q, t), t.at = "read", SettledJob(q, t), t.list = <<>>,
         t.wanted \in Nat \cup {None}, t.new = None => DOMAIN t.write = {},
         NEW f, f.new = t.new, f.gone = t.gone, f.id = t.id, f.list = t.list, f.wanted = t.wanted,
         f.write = Q!Compacted(t, Sees(q, t))
  PROVE  MendedBy(q, f, Sees(q, f))
<1> DEFINE v == Sees(q, t)
           w == Sees(q, f)
           S == Q!Queued(v)
           Q0 == Q!Queued(q)
<1>1. /\ Q!Queued(w) = S /\ \A e \in S : w[e].position = Q!Place(v, e)
  BY Renumbered
<1>2. /\ Rows(v) /\ S = (Q0 \ t.gone) \cup ({t.new} \ {None})
      /\ \A e \in S :
           v[e].position = IF e \in DOMAIN t.write THEN t.write[e] ELSE q[e].position
      /\ DOMAIN t.write \subseteq S
  BY SeesRows
<1>3. /\ \A e \in S : Q!Place(v, e) \in 0..(Cardinality(S) - 1)
      /\ \A x, y \in S : Q!Precedes(v, x, y) => Q!Place(v, x) < Q!Place(v, y)
      /\ \A x, y \in S : x # y => Q!Place(v, x) # Q!Place(v, y)
      /\ IsFiniteSet(S) /\ \A e \in S : v[e].position \in Nat /\ v[e].id \in Nat
  BY <1>2, PlacesInOrder, QueuedFinite
<1>4. /\ Rows(q) /\ \A e \in Q0 : q[e].position \in Nat
      /\ \A e \in Q0 : q[e] # None
      /\ IsFiniteSet(Q0) /\ Cardinality(Q0) \in Nat
  BY QueuedFinite DEF Flushing, Q!Queued
<1>5. t.new # None => /\ t.new \notin Q0 /\ t.gone = {} /\ t.new \in S
                     /\ t.write = [x \in Shifted(q, t.wanted) \cup {t.new} |->
                          IF x # t.new THEN q[x].position + 1
                          ELSE IF t.wanted = None THEN Q!Max(Q!Ends(q)) ELSE t.wanted]
  BY <1>2, <1>4 DEF SettledJob, Flushing
<1>6. \A e \in Q0 : e \in Shifted(q, t.wanted) <=> t.wanted # None /\ q[e].position >= t.wanted
  BY DEF Shifted
<1>7. ASSUME NEW e \in Q0 \ t.gone
      PROVE  /\ e \in S
             /\ v[e].position = IF t.new # None /\ t.wanted # None /\ q[e].position >= t.wanted
                                THEN q[e].position + 1 ELSE q[e].position
  <2>1. CASE t.new = None
    BY <1>2, <2>1
  <2>2. CASE t.new # None
    <3>1. e # t.new /\ (e \in DOMAIN t.write <=> e \in Shifted(q, t.wanted))
      BY <1>5, <2>2
    <3>2. e \in DOMAIN t.write => t.write[e] = q[e].position + 1
      BY <1>5, <2>2, <3>1
    <3> QED BY <1>2, <1>6, <2>2, <3>1, <3>2
  <2> QED BY <2>1, <2>2
<1> HIDE DEF v, w, S, Q0
<1>8. Q!Dense(w)
  <2> DEFINE g == [e \in S |-> Q!Place(v, e)]
  <2>1. {g[e] : e \in S} = 0..(Cardinality(S) - 1)
    <3>1. /\ g = [e \in S |-> g[e]] /\ \A e \in S : g[e] \in 0..(Cardinality(S) - 1)
          /\ \A x, y \in S : g[x] = g[y] => x = y
      BY <1>3
    <3> HIDE DEF g
    <3> QED BY <1>3, <3>1, IntoAsMany
  <2>2. {w[e].position : e \in S} = {g[e] : e \in S}
    BY <1>1
  <2> QED BY <1>1, <2>1, <2>2 DEF Q!Dense, Q!Cardinality, Cardinality
<1>9. ASSUME NEW x \in Q0 \ t.gone, NEW y \in Q0 \ t.gone, q[x].position < q[y].position
      PROVE  w[x].position < w[y].position
  <2>1. v[x].position < v[y].position
    BY <1>4, <1>7, <1>9
  <2> QED BY <1>1, <1>3, <1>7, <2>1 DEF Q!Precedes
<1>10. ASSUME t.new # None, t.wanted = None \/ Q!Dense(q)
       PROVE  w[t.new].position = IF t.wanted = None \/ t.wanted > Cardinality(Q0)
                                  THEN Cardinality(Q0) ELSE t.wanted
  <2> DEFINE before == {x \in S : Q!Precedes(v, x, t.new)}
             low == {x \in Q0 : q[x].position < t.wanted}
  <2>1. w[t.new].position = Cardinality(before)
    BY <1>1, <1>5, <1>10 DEF Q!Place, Q!Cardinality, Cardinality, S
  <2>2. v[t.new].position = IF t.wanted = None THEN Q!Max(Q!Ends(q)) ELSE t.wanted
    BY <1>2, <1>5, <1>10
  <2>3. S = Q0 \cup {t.new} /\ t.gone = {}
    BY <1>2, <1>5, <1>10
  <2>4. ~Q!Precedes(v, t.new, t.new)
    BY <1>3, <1>5, <1>10 DEF Q!Precedes
  <2>5. CASE t.wanted = None
    <3>1. \A x \in Q0 : Q!Precedes(v, x, t.new)
      BY <1>4, <1>7, <2>2, <2>3, <2>5, TailAfterAll DEF Q!Precedes, Q0
    <3>2. before = Q0
      BY <2>3, <2>4, <3>1
    <3> QED BY <2>1, <2>5, <3>2
  <2>6. CASE t.wanted # None
    <3>1. t.wanted \in Nat
      BY <2>6
    <3>2. \A x \in Q0 : Q!Precedes(v, x, t.new) <=> q[x].position < t.wanted
      BY <1>4, <1>7, <1>10, <2>2, <2>3, <2>6, <3>1 DEF Q!Precedes
    <3>3. before = low
      BY <2>3, <2>4, <3>2
    <3> DEFINE g == [x \in Q0 |-> q[x].position]
    <3>4. {g[x] : x \in Q0} = 0..(Cardinality(Q0) - 1)
      BY <1>10, <2>6 DEF Q!Dense, Q!Cardinality, Cardinality, Q0
    <3> DEFINE k == t.wanted
    <3>5. Cardinality({x \in Q0 : g[x] < k}) = IF k > Cardinality(Q0) THEN Cardinality(Q0) ELSE k
      <4>1. g = [x \in Q0 |-> g[x]]
        OBVIOUS
      <4>2. IsFiniteSet(Q0) /\ k \in Nat
        BY <1>4, <3>1
      <4> HIDE DEF g, k
      <4> QED BY <3>4, <4>1, <4>2, CountBelow
    <3>6. low = {x \in Q0 : g[x] < t.wanted}
      OBVIOUS
    <3> QED BY <2>1, <2>6, <3>3, <3>5, <3>6
  <2> QED BY <2>5, <2>6
<1>11. Q!ToSet(f.list) = {} /\ Len(f.list) = 0 /\ \A i \in DOMAIN f.list : FALSE
  BY DEF Q!ToSet
<1>12. ASSUME NEW x \in S, NEW y \in S, x # y PROVE w[x].position # w[y].position
  BY <1>1, <1>3, <1>12
<1>13. \A x \in Q0 \ t.gone : w[x].position >= 0
  <2>1. \A x \in S : w[x].position \in 0..(Cardinality(S) - 1)
    BY <1>1, <1>3
  <2> QED BY <1>7, <2>1
<1> QED
  <2>1. Q!Queued(w) = (Q0 \ t.gone) \cup ({t.new} \ {None})
    BY <1>1, <1>2
  <2>2. \A x, y \in Q!Queued(w) : x # y => w[x].position # w[y].position
    BY <1>1, <1>12
  <2> QED
    BY <1>8, <1>9, <1>10, <1>11, <1>13, <2>1, <2>2
    DEF MendedBy, w, Q0, Q!Cardinality, Cardinality

\* The id that a flush gives to the row it inserts.
LEMMA IdGiven ==
  ASSUME NEW t, JobOK(t), NEW n
  PROVE  [t EXCEPT !.id = n]
           = [at |-> t.at, wanted |-> t.wanted, list |-> t.list, new |-> t.new, id |-> n,
              gone |-> t.gone, write |-> t.write, locks |-> t.locks]
BY DEF JobOK

LEMMA QueueFlushes ==
  ASSUME QueueCore, NEW r \in Requests, Q!Flush(r)
  PROVE  QueueCore'
<1> DEFINE j == task[r]
<1>1. JobOK(j) /\ Rows(item) /\ ids \in Nat
  BY DEF QueueCore, QueueOK
<1>2. PICK t : t = [at |-> j.at, wanted |-> j.wanted, list |-> j.list, new |-> j.new, id |-> ids + 1,
                    gone |-> j.gone, write |-> j.write, locks |-> j.locks]
  OBVIOUS
<1>3. t = [j EXCEPT !.id = ids + 1]
  BY <1>1, <1>2, IdGiven
<1>4. PICK write : write = Q!Compacted(t, Sees(item, t))
  OBVIOUS
<1>5. PICK to : to = [at |-> "numbered", wanted |-> t.wanted, list |-> t.list, new |-> t.new,
                      id |-> t.id, gone |-> t.gone, write |-> write, locks |-> Q!Touched(t)]
  OBVIOUS
<1>6. /\ t.at = "read" /\ Q!Touched(t) \cap Q!Locked(r) = {} /\ Q!Writable(t)
      /\ ids' = (IF t.new = None THEN ids ELSE ids + 1)
      /\ task' = [task EXCEPT ![r] = to]
      /\ UNCHANGED <<item, crossed>>
  BY <1>3, <1>4, <1>5, ViewSees DEF Q!Flush
<1>7. /\ t.wanted = j.wanted /\ t.list = j.list /\ t.new = j.new /\ t.id = ids + 1
      /\ t.gone = j.gone /\ t.write = j.write /\ t.at = j.at /\ t.locks = j.locks
  BY <1>2
<1> HIDE DEF j
<1>8. /\ to.at = "numbered" /\ to.wanted = t.wanted /\ to.list = t.list /\ to.new = t.new
      /\ to.id = t.id /\ to.gone = t.gone /\ to.write = write /\ to.locks = Q!Touched(t)
      /\ to = [at |-> to.at, wanted |-> to.wanted, list |-> to.list, new |-> to.new, id |-> to.id,
               gone |-> to.gone, write |-> to.write, locks |-> to.locks]
  BY <1>5
<1>9. Flushing(item, t) /\ t.list = <<>> /\ (t.new = None => DOMAIN t.write = {})
      /\ t.wanted \in Nat \cup {None}
  <2>1. \A e \in Q!Queued(item) : item[e].id # t.id
    BY <1>7 DEF QueueCore, QueueOK
  <2>2. \A e \in DOMAIN t.write : e # t.new => item[e] # None
    BY <1>6 DEF Q!Writable
  <2>3. \A e \in DOMAIN t.write : e \notin t.gone
    BY <1>1, <1>7 DEF JobOK
  <2> QED BY <1>1, <1>6, <1>7, <2>1, <2>2, <2>3, QueueAssumption DEF JobOK, Flushing
<1>10. /\ DOMAIN write \subseteq Queueable \ t.gone /\ DOMAIN t.write \subseteq DOMAIN write
       /\ \A e \in DOMAIN write : write[e] \in Q!Positions /\ write[e] \in Nat
  <2> DEFINE v == Sees(item, t)
             n == Cardinality(Q!Queued(v))
             m == Cardinality(Queueable)
  <2>1. /\ DOMAIN write \subseteq Queueable \ t.gone /\ DOMAIN t.write \subseteq DOMAIN write
        /\ \A e \in DOMAIN write : write[e] \in 0..(n - 1)
    BY <1>4, <1>8, <1>9, Renumbered
  <2>2. n \in Nat /\ n <= m /\ m \in Nat
    BY <1>9, SeesRows, QueuedFinite
  <2>3. Q!Positions = 0..(MaxListed + m)
    BY DEF Q!Positions, Q!Cardinality, Cardinality
  <2> HIDE DEF n, m
  <2>4. \A i \in 0..(n - 1) : i \in 0..(MaxListed + m) /\ i \in Nat
    BY <2>2, QueueAssumption
  <2> QED BY <2>1, <2>3, <2>4
<1>11. SettledJob(item, j) => SettledJob(item, to)
  <2>1. SettledJob(item, j) => SettledJob(item, t)
    BY <1>6, <1>7 DEF SettledJob
  <2>2. SettledJob(item, t) => MendedBy(item, to, Sees(item, to))
    BY <1>4, <1>6, <1>8, <1>9, FlushMends
  <2> QED BY <1>8, <2>1, <2>2 DEF SettledJob
<1>12. JobOK(to)'
  <2>1. Q!Touched(t) \subseteq Queueable /\ (t.new # None => t.new \in Q!Touched(t))
    BY <1>9 DEF Q!Touched, Flushing
  <2>2. t.new # None => t.id \in 1..ids'
    BY <1>1, <1>6, <1>7
  <2> QED BY <1>1, <1>7, <1>8, <1>9, <1>10, <2>1, <2>2 DEF JobOK, Flushing
<1>13. ids' \in Nat /\ ids <= ids' /\ to.id > ids
  BY <1>1, <1>6, <1>7, <1>8
<1>14. r \notin crossed => SettledJob(item, j)
  BY DEF QueueCore, Settled, j
<1> QED BY <1>6, <1>8, <1>11, <1>12, <1>13, <1>14, OneJob

-----------------------------------------------------------------------------
(* The commit, and the cascade                                              *)

LEMMA QueueCommits ==
  ASSUME QueueCore, NEW r \in Requests, Q!Commit(r)
  PROVE  QueueCore'
<1> DEFINE t == task[r]
<1>1. /\ t.at = "numbered" /\ Q!Writable(t) /\ item' = Sees(item, t)
      /\ task' = [task EXCEPT ![r] = Q!Idle] /\ ids' = ids
      /\ crossed' = (crossed \ {r}) \cup {q \in Requests \ {r} : task[q].at # "idle"}
  BY ViewSees DEF Q!Commit, Q!Meet
<1>2. /\ task'[r] = Q!Idle /\ (\A q \in Requests \ {r} : task'[q] = task[q])
      /\ task' = [q \in Requests |-> task'[q]] /\ ids \in Nat
  BY <1>1 DEF QueueCore, QueueOK
<1>3. JobOK(t) /\ (Inserts(t) <=> t.new # None)
  BY <1>1 DEF QueueCore, QueueOK, Inserts
<1>4. t.new # None => t.id \in 1..ids /\ \A e \in Q!Queued(item) : item[e].id # t.id
  BY <1>1, <1>3 DEF QueueCore, QueueOK, JobOK
<1>5. Flushing(item, t)
  <2>1. Rows(item) /\ \A e \in DOMAIN t.write : e # t.new => item[e] # None
    BY <1>1 DEF Q!Writable, QueueCore, QueueOK
  <2>2. /\ t.new \in Queueable \cup {None} /\ t.gone \subseteq Queueable /\ t.id \in Nat
        /\ DOMAIN t.write \subseteq Queueable /\ \A e \in DOMAIN t.write : t.write[e] \in Nat
        /\ t.new # None => t.gone = {} /\ t.new \in DOMAIN t.write
        /\ \A e \in DOMAIN t.write : e \notin t.gone
    BY <1>1, <1>3 DEF JobOK
  <2> HIDE DEF t
  <2> QED BY <1>4, <2>1, <2>2 DEF Flushing
<1>6. /\ Rows(item')
      /\ Q!Queued(item') = (Q!Queued(item) \ t.gone) \cup ({t.new} \ {None})
      /\ \A e \in Q!Queued(item') :
           /\ item'[e].id = IF e = t.new THEN t.id ELSE item[e].id
           /\ item'[e].position = IF e \in DOMAIN t.write THEN t.write[e] ELSE item[e].position
  BY <1>1, <1>5, SeesRows
<1>7. ASSUME NEW e \in Q!Queued(item')
      PROVE  /\ item'[e].position \in Q!Positions /\ item'[e].id \in 1..ids
             /\ \/ item'[e].id = t.id /\ Inserts(t)
                \/ \E x \in Q!Queued(item) : item'[e].id = item[x].id
  <2>1. CASE e = t.new
    <3>1. e # None
      BY <1>6, QueueAssumption DEF Rows, Q!Queued
    <3>2. Inserts(t) /\ t.id \in 1..ids /\ item'[e].id = t.id
      BY <1>3, <1>4, <1>6, <2>1, <3>1
    <3>3. e \in DOMAIN t.write /\ t.write[e] \in Q!Positions
      BY <1>1, <1>3, <2>1, <3>1 DEF JobOK
    <3> HIDE DEF t
    <3> QED BY <1>6, <3>2, <3>3
  <2>2. CASE e # t.new
    <3>1. e \in Q!Queued(item)
      BY <1>6, <2>2
    <3> QED BY <1>1, <1>3, <1>6, <2>2, <3>1 DEF JobOK, QueueCore, QueueOK
  <2> QED BY <2>1, <2>2
<1>8. ASSUME NEW q \in Requests PROVE JobOK(task[q])'
  <2>1. CASE q = r
    BY <1>2, <2>1 DEF JobOK, Q!Idle, Q!Job
  <2>2. CASE q # r
    BY <1>1, <1>2, <2>2 DEF JobOK, QueueCore, QueueOK
  <2> QED BY <2>1, <2>2
<1>9. crossed' \subseteq {q \in Requests : task'[q].at # "idle"}
  BY <1>1, <1>2 DEF QueueCore, QueueOK
<1>10. ASSUME NEW p \in Requests, Inserts(task'[p])
       PROVE  /\ \A e \in Q!Queued(item') : item'[e].id # task'[p].id
              /\ \A q \in Requests : q # p /\ Inserts(task'[q]) => task'[q].id # task'[p].id
  <2>1. p # r /\ Inserts(task[p])
    BY <1>2, <1>10, IdleJob DEF Inserts
  <2>2. \A q \in Requests : Inserts(task'[q]) => Inserts(task[q]) /\ task'[q] = task[q]
    BY <1>2, IdleJob DEF Inserts
  <2> QED BY <1>2, <1>7, <2>1, <2>2 DEF QueueCore, QueueOK
<1>11. ASSUME NEW p \in Requests, NEW q \in Requests, p # q
       PROVE  task'[p].locks \cap task'[q].locks = {}
  BY <1>2, <1>11, IdleJob DEF QueueCore, QueueOK
<1>12. Settled'
  <2>1. \A q \in Requests \ crossed' : task'[q].at = "idle"
    BY <1>1, <1>2, IdleJob
  <2> QED BY <2>1 DEF Settled, SettledJob
<1> QED BY <1>1, <1>2, <1>6, <1>7, <1>8, <1>9, <1>10, <1>11, <1>12 DEF QueueCore, QueueOK, Inserts

LEMMA QueueUnsubscribes ==
  ASSUME QueueCore, Q!Unsubscribe
  PROVE  QueueCore'
<1>1. /\ item' = [e \in Queueable |-> IF e \in OfShow THEN None ELSE item[e]]
      /\ crossed' = {r \in Requests : task[r].at # "idle"} /\ UNCHANGED <<ids, task>>
  BY DEF Q!Unsubscribe
<1>2. /\ \A e \in Q!Queued(item') : e \in Q!Queued(item) /\ item'[e] = item[e]
      /\ Rows(item')
  BY <1>1 DEF Q!Queued, QueueCore, QueueOK, Rows
<1>3. \A r \in Requests : JobOK(task[r])'
  BY <1>1 DEF JobOK, QueueCore, QueueOK
<1>4. Settled'
  BY <1>1 DEF Settled, SettledJob
<1> QED BY <1>1, <1>2, <1>3, <1>4 DEF QueueCore, QueueOK, Inserts
-----------------------------------------------------------------------------
(* The new order                                                            *)

\* A set in a sequence.
LEMMA InSequence ==
  ASSUME NEW S, IsFiniteSet(S), NEW s \in Q!SetToSeqs(S)
  PROVE  /\ s \in Seq(S) /\ Len(s) = Cardinality(S) /\ DOMAIN s = 1..Cardinality(S)
         /\ \A i, j \in DOMAIN s : i # j => s[i] # s[j]
         /\ \A x \in S : \E i \in DOMAIN s : s[i] = x
         /\ {s[i] : i \in DOMAIN s} = S
<1> DEFINE n == Cardinality(S)
<1>1. n \in Nat
  BY FS_CardinalityType
<1>2. s \in [1..n -> S] /\ \A i, j \in 1..n : i # j => s[i] # s[j]
  BY DEF Q!SetToSeqs, Q!Cardinality, Cardinality
<1>3. IsFiniteSet(1..n) /\ Cardinality(1..n) = n
  <2>1. IsFiniteSet(1..n) /\ Cardinality(1..n) = IF 1 > n THEN 0 ELSE n - 1 + 1
    <3>1. 1 \in Int /\ n \in Int
      BY <1>1
    <3> HIDE DEF n
    <3> QED BY <3>1, FS_Interval
  <2> HIDE DEF n
  <2> QED BY <1>1, <2>1
<1>4. s \in Injection(1..n, S)
  BY <1>2 DEF Injection, IsInjective
<1>5. s \in Surjection(1..n, S)
  <2>1. Cardinality(1..n) = Cardinality(S)
    BY <1>3
  <2> HIDE DEF n
  <2> QED BY <1>4, <2>1, FS_Injection
<1>6. \A x \in S : \E i \in 1..n : s[i] = x
  BY <1>5 DEF Surjection
<1> HIDE DEF n
<1>7. s \in Seq(S) /\ Len(s) = n /\ DOMAIN s = 1..n
  BY <1>1, <1>2, LenProperties, IsASeq
<1>8. {s[i] : i \in DOMAIN s} = S
  BY <1>2, <1>6, <1>7
<1> QED BY <1>2, <1>6, <1>7, <1>8 DEF n

\* A list of some of a set, then the rest of it.
Joined(order, list, tail) ==
  /\ DOMAIN order = 1..(Len(list) + Len(tail))
  /\ \A i \in DOMAIN order :
       order[i] = IF i <= Len(list) THEN list[i] ELSE tail[i - Len(list)]

\* The last places in it: one for each of the set, the listed ones' in the list.
LastPlaces(order, list, tail, S) ==
  /\ \A x \in S : /\ Q!LastAt(order, x) \in 1..(Len(list) + Len(tail))
                  /\ order[Q!LastAt(order, x)] = x
  /\ \A x, y \in S : x # y => Q!LastAt(order, x) # Q!LastAt(order, y)
  /\ \A i \in DOMAIN list :
       (\A j \in DOMAIN list : j > i => list[j] # list[i]) => Q!LastAt(order, list[i]) = i
  /\ \A j \in DOMAIN tail : Q!LastAt(order, tail[j]) = Len(list) + j

LEMMA InTwoSequences ==
  ASSUME NEW S, NEW E \in SUBSET S, NEW rest \in SUBSET S, IsFiniteSet(rest),
         E \cup rest = S, E \cap rest = {},
         NEW list \in Seq(E), {list[i] : i \in DOMAIN list} = E,
         NEW tail \in Q!SetToSeqs(rest), NEW order, Joined(order, list, tail)
  PROVE  LastPlaces(order, list, tail, S)
<1> DEFINE k == Len(list)
           m == Len(tail)
           n == k + m
<1>1. /\ tail \in Seq(rest) /\ m \in Nat /\ DOMAIN tail = 1..m
      /\ \A i, j \in 1..m : i # j => tail[i] # tail[j]
      /\ \A x \in rest : \E i \in 1..m : tail[i] = x
      /\ \A i \in 1..m : tail[i] \in rest
  <2>1. /\ tail \in Seq(rest)
        /\ \A i, j \in DOMAIN tail : i # j => tail[i] # tail[j]
        /\ \A x \in rest : \E i \in DOMAIN tail : tail[i] = x
        /\ {tail[i] : i \in DOMAIN tail} = rest
    BY InSequence
  <2>2. m \in Nat /\ DOMAIN tail = 1..m
    BY <2>1, LenProperties
  <2> HIDE DEF m
  <2> QED BY <2>1, <2>2
<1>2. /\ k \in Nat /\ DOMAIN list = 1..k
      /\ \A x \in E : \E i \in 1..k : list[i] = x
      /\ \A i \in 1..k : list[i] \in E
  <2>1. k \in Nat /\ DOMAIN list = 1..k
    BY LenProperties
  <2> QED BY <2>1
<1>3. /\ DOMAIN order = 1..n
      /\ \A i \in 1..n : order[i] = IF i <= k THEN list[i] ELSE tail[i - k]
  BY DEF Joined
<1> HIDE DEF k, m
<1>4. /\ \A i \in 1..k : i \in 1..n /\ order[i] = list[i]
      /\ \A j \in 1..m : k + j \in 1..n /\ order[k + j] = tail[j]
  <2>1. \A j \in 1..m : k + j \in 1..n /\ ~(k + j <= k) /\ (k + j) - k = j
    BY <1>1, <1>2
  <2>2. \A i \in 1..k : i \in 1..n /\ i <= k
    BY <1>1, <1>2
  <2> QED BY <1>3, <2>1, <2>2
<1>5. ASSUME NEW i \in 1..n
      PROVE  \/ i \in 1..k /\ order[i] = list[i] /\ order[i] \in E
             \/ \E j \in 1..m : i = k + j /\ order[i] = tail[j] /\ order[i] \in rest
  <2>1. CASE i <= k
    <3>1. i \in 1..k
      BY <1>1, <1>2, <2>1
    <3> QED BY <1>2, <1>3, <2>1, <3>1
  <2>2. CASE ~(i <= k)
    <3>1. i - k \in 1..m /\ i = k + (i - k)
      BY <1>1, <1>2, <2>2
    <3>2. order[i] = tail[i - k]
      BY <1>3, <2>2
    <3> DEFINE j == i - k
    <3>3. j \in 1..m /\ i = k + j /\ order[i] = tail[j]
      BY <3>1, <3>2
    <3> HIDE DEF j
    <3> QED BY <1>1, <3>3
  <2> QED BY <2>1, <2>2
\* Whatever place is the last is the one that is chosen.
<1>6. ASSUME NEW x, NEW i \in 1..n, order[i] = x, \A j \in 1..n : order[j] = x => j <= i
      PROVE  Q!LastAt(order, x) = i
  <2>1. i \in DOMAIN order /\ order[i] = x /\ \A j \in DOMAIN order : order[j] = x => j <= i
    BY <1>3, <1>6
  <2>2. \A l \in DOMAIN order : (order[l] = x /\ \A j \in DOMAIN order : order[j] = x => j <= l) => l = i
    <3> SUFFICES ASSUME NEW l \in 1..n, order[l] = x, \A j \in 1..n : order[j] = x => j <= l
                 PROVE  l = i
      BY <1>3
    <3>1. l <= i /\ i <= l
      BY <1>6
    <3> QED BY <1>1, <1>2, <3>1
  <2> QED BY <2>1, <2>2 DEF Q!LastAt
<1>7. ASSUME NEW x \in S
      PROVE  \E i \in 1..n : order[i] = x /\ \A j \in 1..n : order[j] = x => j <= i
  <2> DEFINE at == {i \in 1..n : order[i] = x}
  <2>1. n \in Nat /\ at \in SUBSET Nat /\ at \in SUBSET (1..n)
    BY <1>1, <1>2
  <2>2. IsFiniteSet(1..n)
    <3>1. 1 \in Int /\ n \in Int
      BY <2>1
    <3> HIDE DEF n
    <3> QED BY <3>1, FS_Interval
  <2>3. at # {}
    <3>1. CASE x \in E
      BY <1>2, <1>4, <3>1
    <3>2. CASE x \in rest
      <4>1. PICK j \in 1..m : tail[j] = x
        BY <1>1, <3>2
      <4>2. k + j \in 1..n /\ order[k + j] = x
        BY <1>4, <4>1
      <4> QED BY <4>2
    <3> QED BY <3>1, <3>2
  <2>4. IsFiniteSet(at)
    <3> HIDE DEF at
    <3> QED BY <2>1, <2>2, FS_Subset
  <2>5. \E i \in at : \A j \in at : i >= j
    <3> HIDE DEF at
    <3> QED BY <2>1, <2>3, <2>4, GreatestExists
  <2> QED BY <2>1, <2>5
<1>8. ASSUME NEW x \in S
      PROVE  Q!LastAt(order, x) \in 1..n /\ order[Q!LastAt(order, x)] = x
  <2>1. PICK i \in 1..n : order[i] = x /\ \A j \in 1..n : order[j] = x => j <= i
    BY <1>7
  <2>2. Q!LastAt(order, x) = i
    BY <1>6, <2>1
  <2> QED BY <2>1, <2>2
<1>9. ASSUME NEW i \in 1..k, \A j \in 1..k : j > i => list[j] # list[i]
      PROVE  Q!LastAt(order, list[i]) = i
  <2>1. ASSUME NEW j \in 1..n, order[j] = list[i] PROVE j <= i
    <3>1. list[i] \in E
      BY <1>2
    <3>2. j \in 1..k /\ list[j] = list[i]
      BY <1>5, <2>1, <3>1
    <3> QED BY <1>2, <1>9, <3>2
  <2> QED BY <1>4, <1>6, <2>1
<1>10. ASSUME NEW j \in 1..m PROVE Q!LastAt(order, tail[j]) = k + j
  <2>1. ASSUME NEW i \in 1..n, order[i] = tail[j] PROVE i <= k + j
    <3>1. tail[j] \in rest
      BY <1>1
    <3>2. PICK l \in 1..m : i = k + l /\ order[i] = tail[l]
      BY <1>5, <2>1, <3>1
    <3>3. l = j
      BY <1>1, <2>1, <3>2
    <3> QED BY <1>1, <1>2, <3>2, <3>3
  <2>2. k + j \in 1..n /\ order[k + j] = tail[j]
    BY <1>4
  <2> DEFINE i == k + j
  <2>3. i \in 1..n /\ order[i] = tail[j] /\ \A l \in 1..n : order[l] = tail[j] => l <= i
    BY <2>1, <2>2
  <2> HIDE DEF i
  <2>4. Q!LastAt(order, tail[j]) = i
    BY <1>6, <2>3
  <2> QED BY <2>4 DEF i
<1>11. ASSUME NEW x \in S, NEW y \in S, x # y PROVE Q!LastAt(order, x) # Q!LastAt(order, y)
  BY <1>8, <1>11
<1> QED BY <1>1, <1>2, <1>8, <1>9, <1>10, <1>11 DEF LastPlaces, k, m

\* Without repetitions a list of a set is as long as the set is large.
LEMMA OnceEach ==
  ASSUME NEW E, IsFiniteSet(E), NEW list \in Seq(E), {list[i] : i \in DOMAIN list} = E,
         Q!IsInjective(list)
  PROVE  Len(list) = Cardinality(E)
<1> DEFINE k == Len(list)
<1>1. k \in Nat /\ DOMAIN list = 1..k /\ list \in [1..k -> E]
  BY LenProperties
<1>2. IsFiniteSet(1..k) /\ Cardinality(1..k) = k
  <2>1. IsFiniteSet(1..k) /\ Cardinality(1..k) = IF 1 > k THEN 0 ELSE k - 1 + 1
    <3>1. 1 \in Int /\ k \in Int
      BY <1>1
    <3> HIDE DEF k
    <3> QED BY <3>1, FS_Interval
  <2> HIDE DEF k
  <2> QED BY <1>1, <2>1
<1> HIDE DEF k
<1>3. list \in Injection(1..k, E)
  BY <1>1 DEF Q!IsInjective, Injection, IsInjective
<1>4. list \in Surjection(1..k, E)
  BY <1>1 DEF Surjection
<1>5. Cardinality(1..k) = Cardinality(E)
  BY <1>2, <1>3, <1>4, FS_Surjection
<1> QED BY <1>2, <1>5 DEF k

LEMMA QueueReorders ==
  ASSUME QueueCore, NEW r \in Requests, NEW list \in Q!BoundedSeq(Queueable, MaxListed),
         Q!Reorder(r, list)
  PROVE  QueueCore'
<1> DEFINE S == Q!Queued(item)
           n == Cardinality(S)
           E == Q!ToSet(list)
           rest == S \ E
           k == Len(list)
           m == Cardinality(rest)
<1>1. /\ Rows(item) /\ S \subseteq Queueable /\ IsFiniteSet(S) /\ n \in Nat
      /\ n <= Cardinality(Queueable) /\ Cardinality(Queueable) \in Nat
      /\ \A e \in S : item[e].position \in Nat
  BY QueuedFinite DEF QueueCore, QueueOK
<1>2. E \in SUBSET S /\ E = {list[i] : i \in DOMAIN list}
  BY DEF Q!Reorder, Q!ToSet
<1>3. k \in 0..MaxListed /\ DOMAIN list = 1..k /\ list \in Seq(E)
  <2>1. PICK l \in 0..MaxListed : list \in [1..l -> Queueable]
    BY DEF Q!BoundedSeq, Q!SeqOf
  <2>2. l \in Nat /\ \A i \in 1..l : list[i] \in E
    BY <1>2, <2>1, QueueAssumption
  <2>3. list \in [1..l -> E]
    <3> HIDE DEF E
    <3> QED BY <2>1, <2>2
  <2>4. list \in Seq(E) /\ Len(list) = l
    <3> HIDE DEF E
    <3> QED BY <2>2, <2>3, IsASeq, LenProperties
  <2> QED BY <2>1, <2>4
<1>4. /\ IsFiniteSet(rest) /\ IsFiniteSet(E) /\ m \in Nat /\ Cardinality(E) \in Nat
      /\ m <= n /\ n = Cardinality(E) + m
  <2>1. IsFiniteSet(rest) /\ IsFiniteSet(E) /\ m <= n
    BY <1>1, <1>2, FS_Subset
  <2>2. m \in Nat /\ Cardinality(E) \in Nat
    BY <2>1, FS_CardinalityType
  <2>3. Cardinality(E \cup rest) = Cardinality(E) + m - Cardinality(E \cap rest)
    BY <2>1, FS_Union
  <2>4. E \cap rest = {} /\ E \cup rest = S
    BY <1>2
  <2>5. Cardinality(E \cap rest) = 0 /\ Cardinality(E \cup rest) = n
    BY <2>4, FS_EmptySet
  <2> HIDE DEF n, m, E, rest
  <2> QED BY <1>1, <2>1, <2>2, <2>3, <2>5
<1>5. PICK tail \in Q!SetToSeqs(rest) :
        /\ \A i, j \in DOMAIN tail : item[tail[i]].position < item[tail[j]].position => i < j
        /\ LET order == list \o tail
               moved == {x \in S : item[x].position # Q!LastAt(order, x) - 1}
           IN  Q!Begin(r, Q!Job("numbered", None, list, None, {},
                                [x \in moved |-> Q!LastAt(order, x) - 1]))
  BY DEF Q!Reorder
<1> DEFINE order == list \o tail
           place(x) == Q!LastAt(order, x) - 1
           moved == {x \in S : item[x].position # place(x)}
<1>6. PICK write : write = [x \in moved |-> place(x)]
  OBVIOUS
<1>7. PICK to : to = [at |-> "numbered", wanted |-> None, list |-> list, new |-> None, id |-> 0,
                      gone |-> {}, write |-> write, locks |-> {}]
  OBVIOUS
<1>8. /\ task[r].at = "idle" /\ task' = [task EXCEPT ![r] = to] /\ UNCHANGED <<item, ids, crossed>>
  <2>1. Q!Job("numbered", None, list, None, {}, write) = to
    BY <1>7 DEF Q!Job
  <2> QED BY <1>5, <1>6, <2>1 DEF Q!Begin
<1>9. /\ to.at = "numbered" /\ to.wanted = None /\ to.list = list /\ to.new = None
      /\ to.id = 0 /\ to.gone = {} /\ to.write = write /\ to.locks = {}
  BY <1>7
<1>10. /\ tail \in Seq(rest) /\ Len(tail) = m /\ DOMAIN tail = 1..m
       /\ \A x \in rest : \E j \in 1..m : tail[j] = x
  <2> HIDE DEF rest
  <2> QED BY <1>4, InSequence
<1>11. LastPlaces(order, list, tail, S)
  <2>1. rest \in SUBSET S /\ E \cup rest = S /\ E \cap rest = {}
    BY <1>2
  <2>2. Joined(order, list, tail)
    <3> HIDE DEF S, rest, E
    <3>1. list \in Seq(S) /\ tail \in Seq(S)
      BY <1>2, <1>3, <1>10, <2>1, SeqMonotonic
    <3>2. /\ order \in Seq(S) /\ Len(order) = Len(list) + Len(tail)
          /\ \A i \in 1..(Len(list) + Len(tail)) :
               order[i] = IF i <= Len(list) THEN list[i] ELSE tail[i - Len(list)]
      BY <3>1, ConcatProperties
    <3> HIDE DEF order
    <3> QED BY <3>2, LenProperties DEF Joined
  <2> HIDE DEF S, rest, E, order
  <2> QED BY <1>2, <1>3, <1>4, <2>1, <2>2, InTwoSequences
<1>12. /\ \A x \in S : place(x) \in 0..(k + m - 1)
       /\ \A x, y \in S : x # y => place(x) # place(y)
       /\ \A i \in 1..k : (\A j \in 1..k : j > i => list[j] # list[i]) => place(list[i]) = i - 1
       /\ \A j \in 1..m : place(tail[j]) = k + j - 1
  <2>1. /\ \A x \in S : Q!LastAt(order, x) \in 1..(k + m)
        /\ \A x, y \in S : x # y => Q!LastAt(order, x) # Q!LastAt(order, y)
        /\ \A i \in 1..k : (\A j \in 1..k : j > i => list[j] # list[i]) => Q!LastAt(order, list[i]) = i
        /\ \A j \in 1..m : Q!LastAt(order, tail[j]) = k + j
    <3> HIDE DEF S, order
    <3> QED BY <1>3, <1>10, <1>11 DEF LastPlaces
  <2>2. k \in Nat
    BY <1>3, QueueAssumption
  <2> HIDE DEF S, order, m, k
  <2> QED BY <1>4, <2>1, <2>2
<1> HIDE DEF place
<1>13. DOMAIN write \subseteq S /\ \A x \in DOMAIN write : write[x] = place(x)
  BY <1>6
<1>14. ASSUME NEW x \in S
       PROVE  (IF x \in DOMAIN write THEN write[x] ELSE item[x].position) = place(x)
  BY <1>6
<1> HIDE DEF moved
<1>15. \A x \in DOMAIN write : write[x] \in 0..(k + m - 1) /\ write[x] \in Nat
  <2> HIDE DEF S, k, m
  <2> QED BY <1>12, <1>13
<1>16. Flushing(item, to)
  <2>1. \A e \in S : item[e] # None
    BY DEF Q!Queued
  <2> HIDE DEF S, n
  <2> QED BY <1>1, <1>9, <1>13, <1>15, <2>1 DEF Flushing
<1> DEFINE v == Sees(item, to)
<1>17. Q!Queued(v) = S /\ \A e \in S : v[e].position = place(e)
  <2>1. /\ Q!Queued(v) = (S \ to.gone) \cup ({to.new} \ {None})
        /\ \A e \in Q!Queued(v) :
             v[e].position = IF e \in DOMAIN to.write THEN to.write[e] ELSE item[e].position
    BY <1>16, SeesRows
  <2> HIDE DEF v, S
  <2> QED BY <1>9, <1>14, <2>1
<1> HIDE DEF v
<1>18. Q!IsInjective(list) => Q!Dense(v)
  <2> SUFFICES ASSUME Q!IsInjective(list) PROVE Q!Dense(v)
    OBVIOUS
  <2>1. k = Cardinality(E)
    <3> HIDE DEF E
    <3> QED BY <1>2, <1>3, <1>4, OnceEach
  <2> DEFINE g == [x \in S |-> place(x)]
  <2>2. {g[e] : e \in S} = 0..(Cardinality(S) - 1)
    <3>1. k + m = Cardinality(S)
      BY <1>4, <2>1
    <3>2. 0..(k + m - 1) = 0..(Cardinality(S) - 1)
      <4>1. k \in Nat /\ m \in Nat /\ Cardinality(S) \in Nat
        BY <1>1, <1>3, <1>4, QueueAssumption
      <4> HIDE DEF S, k, m
      <4> QED BY <3>1, <4>1
    <3>3. /\ g = [e \in S |-> g[e]] /\ \A e \in S : g[e] \in 0..(Cardinality(S) - 1)
          /\ \A x, y \in S : g[x] = g[y] => x = y
      <4>1. /\ \A x \in S : place(x) \in 0..(Cardinality(S) - 1)
            /\ \A x, y \in S : x # y => place(x) # place(y)
        BY <1>12, <3>2
      <4> HIDE DEF S
      <4> QED BY <4>1
    <3> HIDE DEF g, S
    <3> QED BY <1>1, <3>3, IntoAsMany
  <2>3. {v[e].position : e \in S} = {g[e] : e \in S}
    BY <1>17
  <2> HIDE DEF S
  <2> QED BY <1>17, <2>2, <2>3 DEF Q!Dense, Q!Cardinality, Cardinality
<1>19. ASSUME NEW x \in rest, NEW y \in rest, item[x].position < item[y].position
       PROVE  v[x].position < v[y].position
  <2>1. PICK i \in 1..m, j \in 1..m : tail[i] = x /\ tail[j] = y
    BY <1>10
  <2>2. i < j
    BY <1>5, <1>10, <1>19, <2>1
  <2>3. v[x].position = k + i - 1 /\ v[y].position = k + j - 1
    BY <1>12, <1>17, <2>1
  <2>4. k \in Nat /\ i \in Nat /\ j \in Nat
    BY <1>3, QueueAssumption
  <2> QED BY <2>2, <2>3, <2>4
<1>20. ASSUME NEW x \in rest PROVE v[x].position >= k
  <2>1. PICK j \in 1..m : tail[j] = x
    BY <1>10
  <2>2. v[x].position = k + j - 1
    BY <1>12, <1>17, <2>1
  <2>3. k \in Nat /\ j \in Nat /\ j >= 1
    BY <1>3, QueueAssumption
  <2> QED BY <2>2, <2>3
<1>21. \A i \in DOMAIN list :
         (\A j \in DOMAIN list : j > i => list[j] # list[i]) => v[list[i]].position = i - 1
  BY <1>2, <1>3, <1>12, <1>17
<1>22. \A x, y \in Q!Queued(v) : x # y => v[x].position # v[y].position
  BY <1>12, <1>17
<1>23. MendedBy(item, to, v)
  <2>1. S \ (E \cup {}) = rest
    OBVIOUS
  <2>2. S = (S \ {}) \cup ({None} \ {None})
    OBVIOUS
  <2> HIDE DEF rest
  <2> QED
    BY <1>9, <1>17, <1>18, <1>19, <1>20, <1>21, <1>22, <2>1, <2>2 DEF MendedBy
<1>24. SettledJob(item, to)
  BY <1>9, <1>23 DEF SettledJob, v
<1>25. JobOK(to)'
  <2>1. \A x \in DOMAIN write : write[x] \in Q!Positions
    <3> DEFINE c == Cardinality(Queueable)
    <3>1. Q!Positions = 0..(MaxListed + c)
      BY DEF Q!Positions, Q!Cardinality, Cardinality
    <3>2. \A i \in 0..(k + m - 1) : i \in 0..(MaxListed + c)
      <4>1. /\ n \in Nat /\ m \in Nat /\ c \in Nat /\ m <= n /\ n <= c
            /\ MaxListed \in Nat /\ k \in 0..MaxListed
        BY <1>1, <1>3, <1>4, QueueAssumption
      <4> HIDE DEF n, m, c, k
      <4> QED BY <4>1
    <3> QED BY <1>15, <3>1, <3>2
  <2>2. DOMAIN write \subseteq Queueable /\ \A x \in DOMAIN write : write[x] \in Nat
    BY <1>1, <1>13, <1>15
  <2> HIDE DEF n, S, m, k
  <2> QED BY <1>7, <1>9, <2>1, <2>2 DEF JobOK
<1> QED BY <1>8, <1>9, <1>24, <1>25, OneJob DEF QueueCore, QueueOK, Inserts

-----------------------------------------------------------------------------
LEMMA QueueSteps ==
  ASSUME QueueCore, Q!Next \/ UNCHANGED <<item, ids, task, crossed>>
  PROVE  QueueCore'
<1>1. ASSUME NEW r \in Requests, NEW e \in Queueable, NEW wanted \in Targets \cup {None},
             Q!Add(r, e, wanted)
      PROVE  QueueCore'
  BY <1>1, QueueAdds
<1>2. ASSUME NEW r \in Requests, NEW E \in SUBSET Queueable, Q!Leave(r, E)
      PROVE  QueueCore'
  BY <1>2, QueueLeaves
<1>3. ASSUME NEW r \in Requests, NEW list \in Q!BoundedSeq(Queueable, MaxListed),
             Q!Reorder(r, list)
      PROVE  QueueCore'
  BY <1>3, QueueReorders
<1>4. ASSUME NEW r \in Requests, Q!Flush(r) \/ Q!Commit(r) \/ Q!Refused(r)
      PROVE  QueueCore'
  BY <1>4, QueueFlushes, QueueCommits, QueueRefuses
<1>5. CASE Q!Unsubscribe
  BY <1>5, QueueUnsubscribes
<1>6. CASE UNCHANGED <<item, ids, task, crossed>>
  <2>1. \A r \in Requests : JobOK(task[r])'
    BY <1>6 DEF JobOK, QueueCore, QueueOK
  <2> QED BY <1>6, <2>1 DEF QueueCore, QueueOK, Settled
<1> QED BY <1>1, <1>2, <1>3, <1>4, <1>5, <1>6 DEF Q!Next

\* The positions a commit leaves are those its transaction saw, which were settled.
LEMMA CommitsMend == QueueCore => Q!Mended
<1> SUFFICES ASSUME QueueCore, NEW r \in Requests \ crossed, Q!Commit(r)
             PROVE  MendedBy(item, task[r], item')
  BY DEF Q!Mended, MendedBy, Q!Cardinality, Cardinality
<1>1. task[r].at = "numbered" /\ item' = Sees(item, task[r])
  BY ViewSees DEF Q!Commit
<1>2. SettledJob(item, task[r])
  BY DEF QueueCore, Settled
<1> QED BY <1>1, <1>2 DEF SettledJob

\* The queue's part of a behaviour keeps what its transactions rely on.
LEMMA QueueInvariant == Spec => [](whose = "queue" => QueueCore)
<1> DEFINE Inv == whose = "queue" => QueueCore
<1>1. Init => Inv
  BY QueueInit DEF Init
<1>2. Inv /\ [Next]_vars => Inv'
  <2> SUFFICES ASSUME Inv, [Next]_vars, whose' = "queue"
               PROVE  QueueCore'
    OBVIOUS
  <2>1. whose = "queue"
    BY WhoseStays DEF vars
  <2>2. Q!Next \/ UNCHANGED <<item, ids, task, crossed>>
    BY <2>1 DEF Next, vars, queueVars, OnlyProcessing, OnlyTimeline, OnlyServing,
                OnlyRefreshing, OnlySubscribing, OnlySignIn, OnlyQueue, OnlyArtwork,
                OnlyNotifying
  <2> QED BY <2>1, <2>2, QueueSteps
<1> QED BY <1>1, <1>2, PTL DEF Spec

(* services.py:91, queue_routes.py:65, 98: a request that met no other, whatever gaps and    *)
(* equal positions it found, loses no episode, sets no two at one position, keeps the order  *)
(* of those it was not asked to move, puts those it was asked to move where it was asked to, *)
(* and leaves no gap unless it was a list that repeats an episode.                           *)
THEOREM QueueIsMended == Spec => QueueMends
<1>1. (whose = "queue" => QueueCore) /\ [Next]_vars => [whose = "queue" => Q!Mended]_vars
  BY CommitsMend
<1> QED BY <1>1, QueueInvariant, PTL DEF Spec, QueueMends

-----------------------------------------------------------------------------
(* Notifying                                                                *)

PhoneRows == [Tokens -> Phones \cup {None}]
PassRows == [on : BOOLEAN, seen : PhoneRows, new : PhoneRows, todo : SUBSET Tokens,
             dead : SUBSET Tokens]

\* Rows are given new ids, and a pass changes of a row only since when it fails.
PassesOK ==
  /\ ids \in 0..MaxRows
  /\ device \in PhoneRows /\ refused \in [Tokens -> N!Ages]
  /\ \A t \in N!Known(device) : device[t].id <= ids
  /\ pass \in [Passes -> PassRows]
  /\ \A p \in Passes :
       /\ ~pass[p].on => pass[p] = N!Idle
       /\ pass[p].todo \cup pass[p].dead \subseteq N!Known(pass[p].seen)
       /\ \A t \in N!Known(pass[p].seen) :
            /\ pass[p].seen[t].id <= ids
            /\ pass[p].new[t] # None /\ pass[p].new[t].id = pass[p].seen[t].id

\* A pass has the row that is there.
Has(p, t) == pass[p].on /\ t \in N!Known(pass[p].seen) /\ N!Same(p, t)

\* What the pass has is what is stored, and what it will store is what was answered.
Follows(p, t) ==
  /\ device[t] = pass[p].seen[t]
  /\ t \in pass[p].todo => /\ pass[p].new[t] = pass[p].seen[t] /\ t \notin pass[p].dead
                           /\ refused[t] = pass[p].seen[t].failing
  /\ t \notin pass[p].todo => /\ pass[p].new[t].failing = refused[t]
                              /\ t \in pass[p].dead => refused[t] = ForgetAfter

PhoneOK(t) ==
  /\ device[t] = None => refused[t] = None
  /\ t \notin excused =>
       /\ \A p, q \in Passes : Has(p, t) /\ Has(q, t) => p = q
       /\ \A p \in Passes : Has(p, t) => Follows(p, t)
       /\ device[t] # None /\ (\A p \in Passes : ~Has(p, t)) => device[t].failing = refused[t]

NotifyCore == PassesOK /\ early = {} /\ \A t \in Tokens : PhoneOK(t)

LEMMA IdlePass == N!Idle \in PassRows /\ ~N!Idle.on /\ N!Known(N!Idle.seen) = {}
                  /\ N!Idle.todo = {} /\ N!Idle.dead = {}
BY DEF N!Idle, PassRows, PhoneRows, N!Known

LEMMA NotifyInit == N!Init => NotifyCore
<1> SUFFICES ASSUME N!Init PROVE NotifyCore
  OBVIOUS
<1>1. \A p \in Passes : pass[p] = N!Idle
  BY DEF N!Init
<1>2. \A t \in Tokens : device[t] = None /\ refused[t] = None
  BY DEF N!Init
<1>3. PassesOK
  <2>1. device \in PhoneRows /\ refused \in [Tokens -> N!Ages] /\ ids \in 0..MaxRows
    BY NotifyingAssumption DEF N!Init, PhoneRows, N!Ages
  <2>2. pass \in [Passes -> PassRows]
    BY IdlePass DEF N!Init
  <2>3. N!Known(device) = {}
    BY <1>2 DEF N!Known
  <2> QED BY <1>1, <2>1, <2>2, <2>3, IdlePass DEF PassesOK
<1>4. \A t \in Tokens : PhoneOK(t)
  BY <1>1, <1>2, IdlePass DEF PhoneOK, Has
<1> QED BY <1>3, <1>4 DEF NotifyCore, N!Init

\* A pass is that of its phones' rows.
LEMMA PassOf ==
  ASSUME PassesOK, NEW p \in Passes
  PROVE  /\ pass[p] = [on |-> pass[p].on, seen |-> pass[p].seen, new |-> pass[p].new,
                       todo |-> pass[p].todo, dead |-> pass[p].dead]
         /\ pass[p].on \in BOOLEAN /\ pass[p].seen \in PhoneRows /\ pass[p].new \in PhoneRows
         /\ pass[p].todo \subseteq Tokens /\ pass[p].dead \subseteq Tokens
BY DEF PassesOK, PassRows

LEMMA PhoneRegistered ==
  ASSUME NotifyCore, NEW t \in Tokens, N!RegisterDevice(t)
  PROVE  NotifyCore'
<1>1. /\ device[t] = None /\ ids \in 0..MaxRows /\ ids < MaxRows /\ ids' = ids + 1
      /\ UNCHANGED <<pass, refused, early>> /\ excused' = excused \ {t}
  BY DEF N!RegisterDevice, NotifyCore, PassesOK
<1>2. [id |-> ids + 1, failing |-> None] \in Phones
  BY <1>1, NotifyingAssumption DEF Phones, N!Ages
<1>3. /\ device' \in PhoneRows /\ device'[t] = [id |-> ids + 1, failing |-> None]
      /\ \A u \in Tokens \ {t} : device'[u] = device[u]
  BY <1>2 DEF N!RegisterDevice, NotifyCore, PassesOK, PhoneRows
<1>4. device'[t] # None /\ device'[t].id = ids + 1 /\ device'[t].failing = None
  BY <1>2, <1>3, NotifyingAssumption
<1>5. PassesOK'
  <2>1. \A u \in N!Known(device)' : device'[u].id <= ids'
    BY <1>1, <1>3, <1>4 DEF NotifyCore, PassesOK, N!Known, PhoneRows, Phones
  <2>2. ids' \in 0..MaxRows
    BY <1>1, NotifyingAssumption
  <2>3. ASSUME NEW p \in Passes, NEW u \in N!Known(pass[p].seen)
        PROVE  pass[p].seen[u].id <= ids'
    BY <1>1, <2>3, PassOf DEF NotifyCore, PassesOK, N!Known, PhoneRows, Phones
  <2> QED BY <1>1, <1>3, <2>1, <2>2, <2>3 DEF NotifyCore, PassesOK, N!Known
<1>6. ASSUME NEW u \in Tokens PROVE PhoneOK(u)'
  <2>1. CASE u = t
    <3>1. ASSUME NEW p \in Passes PROVE ~Has(p, t)'
      BY <1>1, <1>3, <1>4, PassOf DEF Has, N!Same, NotifyCore, PassesOK, N!Known, PhoneRows, Phones
    <3> QED BY <1>1, <1>3, <1>4, <2>1, <3>1 DEF PhoneOK, NotifyCore
  <2>2. CASE u # t
    <3>1. device'[u] = device[u] /\ (u \in excused' <=> u \in excused)
      BY <1>1, <1>3, <2>2
    <3> QED BY <1>1, <3>1 DEF PhoneOK, NotifyCore, Has, Follows, N!Same
  <2> QED BY <2>1, <2>2
<1> QED BY <1>1, <1>5, <1>6 DEF NotifyCore

LEMMA PhoneForgotten ==
  ASSUME NotifyCore, NEW t \in Tokens, N!ForgetDevice(t)
  PROVE  NotifyCore'
<1>1. UNCHANGED <<ids, pass, excused, early>>
  BY DEF N!ForgetDevice
<1>2. /\ device' \in PhoneRows /\ device'[t] = None
      /\ \A u \in Tokens \ {t} : device'[u] = device[u] /\ refused'[u] = refused[u]
      /\ refused' \in [Tokens -> N!Ages] /\ refused'[t] = None
  BY DEF N!ForgetDevice, NotifyCore, PassesOK, PhoneRows, N!Ages
<1>3. PassesOK'
  BY <1>1, <1>2 DEF NotifyCore, PassesOK, N!Known
<1>4. ASSUME NEW u \in Tokens PROVE PhoneOK(u)'
  BY <1>1, <1>2 DEF PhoneOK, NotifyCore, Has, Follows, N!Same
<1> QED BY <1>1, <1>3, <1>4 DEF NotifyCore

LEMMA PassStarted ==
  ASSUME NotifyCore, NEW p \in Passes, N!Start(p)
  PROVE  NotifyCore'
<1> DEFINE new == [on |-> TRUE, seen |-> device, new |-> device, todo |-> N!Known(device),
                   dead |-> {}]
<1>1. /\ ~pass[p].on /\ pass' = [pass EXCEPT ![p] = new]
      /\ UNCHANGED <<device, ids, refused, early>>
      /\ excused' = excused \cup ((UNION {N!Known(pass[q].seen) : q \in {q \in Passes : pass[q].on}})
                                   \cap N!Known(device))
  BY DEF N!Start
<1>2. new \in PassRows /\ new.on /\ new.seen = device /\ new.new = device
      /\ new.todo = N!Known(device) /\ new.dead = {}
  BY DEF NotifyCore, PassesOK, PassRows, N!Known
<1> HIDE DEF new
<1>3. /\ pass' \in [Passes -> PassRows] /\ pass'[p] = new
      /\ \A q \in Passes \ {p} : pass'[q] = pass[q]
  BY <1>1, <1>2 DEF NotifyCore, PassesOK
<1>4. PassesOK'
  <2>1. ASSUME NEW t \in N!Known(device)
        PROVE  device[t].id <= ids /\ device[t] # None
    BY DEF NotifyCore, PassesOK, N!Known
  <2>2. ASSUME NEW q \in Passes
        PROVE  /\ ~pass'[q].on => pass'[q] = N!Idle
               /\ pass'[q].todo \cup pass'[q].dead \subseteq N!Known(pass'[q].seen)
               /\ \A t \in N!Known(pass'[q].seen) :
                    /\ pass'[q].seen[t].id <= ids
                    /\ pass'[q].new[t] # None /\ pass'[q].new[t].id = pass'[q].seen[t].id
    <3>1. CASE q = p
      BY <1>2, <1>3, <2>1, <3>1
    <3>2. CASE q # p
      BY <1>3, <3>2 DEF NotifyCore, PassesOK
    <3> QED BY <3>1, <3>2
  <2> QED BY <1>1, <1>3, <2>2 DEF NotifyCore, PassesOK, N!Known
<1>5. ASSUME NEW t \in Tokens PROVE PhoneOK(t)'
  <2>1. device[t] = None => refused[t] = None
    BY DEF NotifyCore, PhoneOK
  <2> SUFFICES ASSUME t \notin excused', device[t] # None PROVE PhoneOK(t)'
    BY <1>1, <2>1 DEF PhoneOK, Has, N!Same
  <2>2. t \in N!Known(device) /\ t \notin excused
    BY <1>1 DEF N!Known
  <2>3. \A q \in Passes : ~Has(q, t)
    BY <1>1, <2>2 DEF Has
  <2>4. device[t].failing = refused[t]
    BY <2>2, <2>3 DEF NotifyCore, PhoneOK
  <2>5. \A q \in Passes \ {p} : ~Has(q, t)'
    BY <1>1, <1>3, <2>3 DEF Has, N!Same, N!Known
  <2>6. Has(p, t)'
    BY <1>1, <1>2, <1>3, <2>2 DEF Has, N!Same, N!Known
  <2>7. Follows(p, t)'
    BY <1>1, <1>2, <1>3, <2>2, <2>4 DEF Follows, N!Known
  <2> QED BY <1>1, <2>1, <2>5, <2>6, <2>7 DEF PhoneOK
<1> QED BY <1>1, <1>4, <1>5 DEF NotifyCore

\* What an answer of the relay does to a pass and to the history of the phone's row.
LEMMA PassTold ==
  ASSUME NotifyCore, NEW p \in Passes, NEW t \in pass[p].todo,
         NEW failing \in N!Ages, NEW dead \in {pass[p].dead, pass[p].dead \cup {t}},
         pass' = [pass EXCEPT ![p] =
           [on |-> pass[p].on, seen |-> pass[p].seen,
            new |-> [pass[p].new EXCEPT ![t] = [id |-> pass[p].new[t].id, failing |-> failing]],
            todo |-> pass[p].todo \ {t}, dead |-> dead]],
         UNCHANGED <<device, ids, excused, early>>,
         refused' \in [Tokens -> N!Ages], \A u \in Tokens \ {t} : refused'[u] = refused[u],
         refused'[t] # refused[t] => N!Same(p, t),
         N!Same(p, t) /\ refused[t] = pass[p].seen[t].failing =>
           /\ refused'[t] = failing
           /\ dead # pass[p].dead => failing = ForgetAfter
  PROVE  NotifyCore'
<1>1. /\ t \in Tokens /\ t \in N!Known(pass[p].seen) /\ pass[p].new[t] \in Phones
      /\ pass[p].new[t] # None /\ pass[p].on
  BY PassOf, IdlePass DEF NotifyCore, PassesOK, PhoneRows, N!Known
<1> DEFINE entry == [id |-> pass[p].new[t].id, failing |-> failing]
<1>2. entry \in Phones /\ entry # None /\ entry.id = pass[p].new[t].id /\ entry.failing = failing
  <2>1. entry \in Phones
    BY <1>1 DEF Phones
  <2> QED BY <2>1, NotifyingAssumption
<1> HIDE DEF entry
<1> DEFINE q == [on |-> pass[p].on, seen |-> pass[p].seen,
                 new |-> [pass[p].new EXCEPT ![t] = entry],
                 todo |-> pass[p].todo \ {t}, dead |-> dead]
<1>3. /\ q.on = pass[p].on /\ q.seen = pass[p].seen /\ q.new[t] = entry
      /\ \A u \in Tokens \ {t} : q.new[u] = pass[p].new[u]
      /\ q.todo = pass[p].todo \ {t} /\ q.dead = dead /\ q \in PassRows
  BY <1>1, <1>2, PassOf DEF NotifyCore, PassRows, PhoneRows
<1>4. pass' = [pass EXCEPT ![p] = q]
  BY DEF entry
<1> HIDE DEF q
<1>5. /\ pass' \in [Passes -> PassRows] /\ pass'[p] = q
      /\ \A o \in Passes \ {p} : pass'[o] = pass[o]
  BY <1>3, <1>4 DEF NotifyCore, PassesOK
<1>6. PassesOK'
  <2>1. ASSUME NEW o \in Passes
        PROVE  /\ ~pass'[o].on => pass'[o] = N!Idle
               /\ pass'[o].todo \cup pass'[o].dead \subseteq N!Known(pass'[o].seen)
               /\ \A u \in N!Known(pass'[o].seen) :
                    /\ pass'[o].seen[u].id <= ids
                    /\ pass'[o].new[u] # None /\ pass'[o].new[u].id = pass'[o].seen[u].id
    <3>1. CASE o = p
      BY <1>1, <1>2, <1>3, <1>5, <3>1 DEF NotifyCore, PassesOK, N!Known
    <3>2. CASE o # p
      BY <1>5, <3>2 DEF NotifyCore, PassesOK
    <3> QED BY <3>1, <3>2
  <2> QED BY <1>5, <2>1 DEF NotifyCore, PassesOK, N!Known
<1>7. \A o \in Passes, u \in Tokens : Has(o, u)' <=> Has(o, u)
  BY <1>3, <1>5 DEF Has, N!Same, N!Known
<1>8. ASSUME NEW u \in Tokens PROVE PhoneOK(u)'
  <2>1. device[u] = None => refused'[u] = None
    BY DEF NotifyCore, PhoneOK, N!Same
  <2> SUFFICES ASSUME u \notin excused PROVE PhoneOK(u)'
    BY <2>1 DEF PhoneOK
  <2>2. \A o \in Passes \ {p} : Has(o, u) => Follows(o, u) /\ (u = t => ~Has(p, u))
    BY DEF NotifyCore, PhoneOK
  <2>3. \A o \in Passes \ {p} : Has(o, u)' => Follows(o, u)'
    BY <1>1, <1>5, <1>7, <2>2 DEF Follows, Has
  <2>4. Has(p, u)' => Follows(p, u)'
    <3>1. CASE u = t
      <4> SUFFICES ASSUME Has(p, t) PROVE Follows(p, t)'
        BY <1>7, <3>1
      <4>1. Follows(p, t) /\ N!Same(p, t)
        BY <3>1 DEF NotifyCore, PhoneOK, Has
      <4>2. refused'[t] = failing /\ (t \in dead => failing = ForgetAfter)
        BY <4>1 DEF Follows
      <4>3. /\ pass'[p].seen = pass[p].seen /\ pass'[p].new[t].failing = failing
            /\ t \notin pass'[p].todo /\ pass'[p].dead = dead
        BY <1>2, <1>3, <1>5
      <4> QED BY <4>1, <4>2, <4>3 DEF Follows
    <3>2. CASE u # t
      BY <1>3, <1>5, <1>7, <3>2 DEF NotifyCore, PhoneOK, Follows
    <3> QED BY <3>1, <3>2
  <2>5. device[u] # None /\ (\A o \in Passes : ~Has(o, u)) => device[u].failing = refused'[u]
    BY <1>1 DEF NotifyCore, PhoneOK, Has
  <2>6. \A o, r \in Passes : Has(o, u)' /\ Has(r, u)' => o = r
    BY <1>7 DEF NotifyCore, PhoneOK
  <2> QED BY <1>7, <2>1, <2>3, <2>4, <2>5, <2>6 DEF PhoneOK
<1> QED BY <1>6, <1>8 DEF NotifyCore

\* A pass, changed one column after another.
Columns(q) == q = [on |-> q.on, seen |-> q.seen, new |-> q.new, todo |-> q.todo, dead |-> q.dead]

LEMMA TwoChanged ==
  ASSUME NEW q, Columns(q), NEW todo, NEW new
  PROVE  [[q EXCEPT !.todo = todo] EXCEPT !.new = new]
           = [on |-> q.on, seen |-> q.seen, new |-> new, todo |-> todo, dead |-> q.dead]
<1> DEFINE r == [q EXCEPT !.todo = todo]
<1>1. r = [on |-> q.on, seen |-> q.seen, new |-> q.new, todo |-> todo, dead |-> q.dead]
  BY DEF Columns
<1>2. Columns(r) /\ r.on = q.on /\ r.seen = q.seen /\ r.dead = q.dead /\ r.todo = todo
  BY <1>1 DEF Columns
<1> HIDE DEF r
<1>3. [r EXCEPT !.new = new]
        = [on |-> q.on, seen |-> q.seen, new |-> new, todo |-> todo, dead |-> q.dead]
  BY <1>2 DEF Columns
<1> QED BY <1>3 DEF r

LEMMA PassAccepted ==
  ASSUME NotifyCore, NEW p \in Passes, NEW t \in Tokens, N!Accepted(p, t)
  PROVE  NotifyCore'
<1>1. t \in pass[p].todo /\ UNCHANGED <<device, ids, excused, early>>
  BY DEF N!Accepted
<1>2. pass[p].new[t] = [id |-> pass[p].new[t].id, failing |-> pass[p].new[t].failing]
  <2>1. pass[p].new[t] \in Phones
    BY <1>1, PassOf DEF NotifyCore, PassesOK, PhoneRows, N!Known
  <2> QED BY <2>1 DEF Phones
<1>3. pass' = [pass EXCEPT ![p] =
           [on |-> pass[p].on, seen |-> pass[p].seen,
            new |-> [pass[p].new EXCEPT ![t] = [id |-> pass[p].new[t].id, failing |-> None]],
            todo |-> pass[p].todo \ {t}, dead |-> pass[p].dead]]
  <2> DEFINE q == pass[p]
             n == [q.new EXCEPT ![t] = [q.new[t] EXCEPT !.failing = None]]
  <2>1. pass' = [pass EXCEPT ![p] = [[q EXCEPT !.todo = q.todo \ {t}] EXCEPT !.new = n]]
    BY PassOf DEF N!Accepted, NotifyCore, PassesOK
  <2>2. n = [q.new EXCEPT ![t] = [id |-> q.new[t].id, failing |-> None]]
    BY <1>2
  <2> HIDE DEF n
  <2>3. [[q EXCEPT !.todo = q.todo \ {t}] EXCEPT !.new = n]
          = [on |-> q.on, seen |-> q.seen, new |-> n, todo |-> q.todo \ {t}, dead |-> q.dead]
    <3>1. Columns(q)
      BY PassOf DEF NotifyCore, Columns
    <3> HIDE DEF q
    <3> QED BY <3>1, TwoChanged
  <2> QED BY <2>1, <2>2, <2>3
<1>4. /\ refused' \in [Tokens -> N!Ages] /\ \A u \in Tokens \ {t} : refused'[u] = refused[u]
      /\ refused'[t] = IF N!Same(p, t) THEN None ELSE refused[t]
  BY DEF N!Accepted, NotifyCore, PassesOK, N!Ages
<1>5. None \in N!Ages
  BY DEF N!Ages
<1> QED BY <1>1, <1>3, <1>4, <1>5, PassTold

LEMMA PassRefused ==
  ASSUME NotifyCore, NEW p \in Passes, NEW t \in Tokens, N!Refused(p, t)
  PROVE  NotifyCore'
<1> DEFINE since == pass[p].seen[t].failing
           failing == IF since = None THEN 0 ELSE since
           dead == IF since = ForgetAfter THEN pass[p].dead \cup {t} ELSE pass[p].dead
<1>1. t \in pass[p].todo /\ UNCHANGED <<device, ids, excused, early>>
  BY DEF N!Refused
<1>2. /\ pass[p].new[t] = [id |-> pass[p].new[t].id, failing |-> pass[p].new[t].failing]
      /\ since \in N!Ages
  <2>1. pass[p].new[t] \in Phones /\ pass[p].seen[t] \in Phones
    BY <1>1, PassOf DEF NotifyCore, PassesOK, PhoneRows, N!Known
  <2> QED BY <2>1 DEF Phones
<1>3. failing \in N!Ages
  BY <1>2, NotifyingAssumption DEF N!Ages
<1> HIDE DEF failing, dead, since
<1>4. pass' = [pass EXCEPT ![p] =
           [on |-> pass[p].on, seen |-> pass[p].seen,
            new |-> [pass[p].new EXCEPT ![t] = [id |-> pass[p].new[t].id, failing |-> failing]],
            todo |-> pass[p].todo \ {t}, dead |-> dead]]
  <2> DEFINE q == pass[p]
             n == [q.new EXCEPT ![t] = [q.new[t] EXCEPT !.failing = failing]]
  <2>1. pass' = [pass EXCEPT ![p] = [[[q EXCEPT !.todo = q.todo \ {t}] EXCEPT !.new = n]
                                       EXCEPT !.dead = dead]]
    BY PassOf DEF N!Refused, NotifyCore, PassesOK, since, failing, dead
  <2>2. n = [q.new EXCEPT ![t] = [id |-> q.new[t].id, failing |-> failing]]
    BY <1>2
  <2> HIDE DEF n
  <2>3. Columns(q)
    BY PassOf DEF NotifyCore, Columns
  <2> DEFINE r == [[q EXCEPT !.todo = q.todo \ {t}] EXCEPT !.new = n]
  <2>4. pass' = [pass EXCEPT ![p] = [r EXCEPT !.dead = dead]]
    BY <2>1
  <2> HIDE DEF q
  <2>5. r = [on |-> q.on, seen |-> q.seen, new |-> n, todo |-> q.todo \ {t}, dead |-> q.dead]
    BY <2>3, TwoChanged
  <2> HIDE DEF r
  <2>6. Columns(r) /\ r.on = q.on /\ r.seen = q.seen /\ r.new = n /\ r.todo = q.todo \ {t}
    BY <2>5 DEF Columns
  <2>7. [r EXCEPT !.dead = dead]
          = [on |-> q.on, seen |-> q.seen, new |-> n, todo |-> q.todo \ {t}, dead |-> dead]
    BY <2>6 DEF Columns
  <2> QED BY <2>2, <2>4, <2>7 DEF q
<1>5. /\ refused' \in [Tokens -> N!Ages] /\ \A u \in Tokens \ {t} : refused'[u] = refused[u]
      /\ refused'[t] = IF refused[t] = None /\ N!Same(p, t) THEN 0 ELSE refused[t]
  BY NotifyingAssumption DEF N!Refused, NotifyCore, PassesOK, N!Ages
<1>6. /\ refused[t] = since => refused'[t] = failing \/ ~N!Same(p, t)
      /\ dead # pass[p].dead => failing = ForgetAfter
  BY <1>5, NotifyingAssumption DEF failing, dead
<1> QED BY <1>1, <1>3, <1>4, <1>5, <1>6, PassTold DEF dead, since

\* The rows a commit writes are those of its own phones, and their ids stay.
LEMMA PassCommitted ==
  ASSUME NotifyCore, NEW p \in Passes, N!Commit(p)
  PROVE  NotifyCore'
<1>1. /\ pass[p].on /\ pass[p].todo = {} /\ pass' = [pass EXCEPT ![p] = N!Idle]
      /\ UNCHANGED <<ids, excused>>
      /\ \A t \in N!Changed(p) : N!Same(p, t)
  BY DEF N!Commit, N!Over
<1>2. /\ pass' \in [Passes -> PassRows] /\ pass'[p] = N!Idle
      /\ \A q \in Passes \ {p} : pass'[q] = pass[q]
  BY <1>1, IdlePass DEF NotifyCore, PassesOK
<1>3. ASSUME NEW t \in Tokens
      PROVE  /\ device'[t] = IF t \in N!Deleted(p) THEN None
                             ELSE IF t \in N!Changed(p) THEN pass[p].new[t] ELSE device[t]
             /\ refused'[t] = IF t \in N!Deleted(p) THEN None ELSE refused[t]
  BY DEF N!Commit
<1>4. ASSUME NEW t \in Tokens, t \in N!Changed(p)
      PROVE  /\ device[t] # None /\ t \in N!Known(pass[p].seen)
             /\ pass[p].new[t] \in Phones /\ pass[p].new[t] # None
             /\ pass[p].new[t].id = device[t].id
  BY <1>1, <1>4, PassOf DEF N!Changed, N!Same, N!Known, NotifyCore, PassesOK, PhoneRows
<1>5. \A t \in Tokens : /\ device[t] = None => device'[t] = None
                        /\ device'[t] # None => device'[t].id = device[t].id
  BY <1>3, <1>4
<1>6. \A q \in Passes, t \in Tokens : Has(q, t)' => q # p /\ Has(q, t)
  BY <1>2, <1>5, IdlePass DEF Has, N!Same, N!Known
<1>7. PassesOK'
  <2>1. device' \in PhoneRows /\ refused' \in [Tokens -> N!Ages]
    <3>1. /\ device' = [t \in Tokens |-> device'[t]] /\ refused' = [t \in Tokens |-> refused'[t]]
      BY DEF N!Commit
    <3>2. None \in N!Ages
      BY DEF N!Ages
    <3> QED BY <1>3, <1>4, <3>1, <3>2 DEF NotifyCore, PassesOK, PhoneRows
  <2>2. \A t \in N!Known(device)' : device'[t].id <= ids'
    BY <1>1, <1>5 DEF NotifyCore, PassesOK, N!Known
  <2>3. ASSUME NEW q \in Passes
        PROVE  /\ ~pass'[q].on => pass'[q] = N!Idle
               /\ pass'[q].todo \cup pass'[q].dead \subseteq N!Known(pass'[q].seen)
               /\ \A t \in N!Known(pass'[q].seen) :
                    /\ pass'[q].seen[t].id <= ids
                    /\ pass'[q].new[t] # None /\ pass'[q].new[t].id = pass'[q].seen[t].id
    <3>1. CASE q = p
      BY <1>2, <3>1, IdlePass
    <3>2. CASE q # p
      BY <1>2, <3>2 DEF NotifyCore, PassesOK
    <3> QED BY <3>1, <3>2
  <2> QED BY <1>1, <1>2, <2>1, <2>2, <2>3 DEF NotifyCore, PassesOK, N!Known
<1>8. early' = {}
  <2>1. ASSUME NEW t \in N!Deleted(p), t \notin excused PROVE refused[t] = ForgetAfter
    <3>1. t \in Tokens /\ t \in pass[p].dead /\ Has(p, t)
      BY <1>1, PassOf DEF N!Deleted, Has, NotifyCore, PassesOK
    <3> QED BY <1>1, <2>1, <3>1 DEF NotifyCore, PhoneOK, Follows
  <2> QED BY <2>1 DEF N!Commit, NotifyCore
<1>9. ASSUME NEW t \in Tokens PROVE PhoneOK(t)'
  <2>1. device'[t] = None => refused'[t] = None
    <3>1. device[t] = None => refused[t] = None
      BY DEF NotifyCore, PhoneOK
    <3> QED BY <1>3, <1>4, <3>1
  <2> SUFFICES ASSUME t \notin excused PROVE PhoneOK(t)'
    BY <1>1, <2>1 DEF PhoneOK
  <2>2. \A q \in Passes : Has(q, t) => Follows(q, t)
    BY DEF NotifyCore, PhoneOK
  <2>3. \A q, r \in Passes : Has(q, t) /\ Has(r, t) => q = r
    BY DEF NotifyCore, PhoneOK
  <2>4. CASE Has(p, t)
    <3>1. \A q \in Passes : ~Has(q, t)'
      BY <1>6, <2>3, <2>4
    <3>2. device[t] = pass[p].seen[t] /\ pass[p].new[t].failing = refused[t]
          /\ t \in N!Known(pass[p].seen)
      BY <1>1, <2>2, <2>4 DEF Follows, Has
    <3>3. device'[t] # None => device'[t] = pass[p].new[t] /\ refused'[t] = refused[t]
      BY <1>3, <3>2 DEF N!Changed
    <3> QED BY <2>1, <3>1, <3>2, <3>3 DEF PhoneOK
  <2>5. CASE ~Has(p, t)
    <3>1. t \notin N!Deleted(p) /\ t \notin N!Changed(p)
      BY <1>1, <2>5 DEF N!Deleted, N!Changed, Has, NotifyCore, PassesOK
    <3>2. device'[t] = device[t] /\ refused'[t] = refused[t]
      BY <1>3, <3>1
    <3>3. \A q \in Passes : /\ Has(q, t)' <=> Has(q, t)
                            /\ Has(q, t) => Follows(q, t)'
      BY <1>2, <2>2, <2>5, <3>2, IdlePass DEF Has, Follows, N!Same, N!Known
    <3> QED BY <2>1, <2>3, <3>2, <3>3 DEF NotifyCore, PhoneOK
  <2> QED BY <2>4, <2>5
<1> QED BY <1>7, <1>8, <1>9 DEF NotifyCore

\* Passes that end without a commit excuse every phone they asked for.
LEMMA PassesLost ==
  ASSUME NotifyCore, UNCHANGED <<device, ids, refused, early>>, excused \subseteq excused',
         pass' = [q \in Passes |-> pass'[q]],
         \A q \in Passes : \/ pass'[q] = pass[q]
                           \/ pass'[q] = N!Idle /\ N!Known(pass[q].seen) \subseteq excused'
  PROVE  NotifyCore'
<1>1. PassesOK'
  <2>1. ASSUME NEW q \in Passes
        PROVE  /\ pass'[q] \in PassRows
               /\ ~pass'[q].on => pass'[q] = N!Idle
               /\ pass'[q].todo \cup pass'[q].dead \subseteq N!Known(pass'[q].seen)
               /\ \A t \in N!Known(pass'[q].seen) :
                    /\ pass'[q].seen[t].id <= ids
                    /\ pass'[q].new[t] # None /\ pass'[q].new[t].id = pass'[q].seen[t].id
    <3>1. CASE pass'[q] = N!Idle
      BY <3>1, IdlePass
    <3>2. CASE pass'[q] = pass[q]
      BY <3>2 DEF NotifyCore, PassesOK
    <3> QED BY <3>1, <3>2
  <2> QED BY <2>1 DEF NotifyCore, PassesOK, N!Known
<1>2. ASSUME NEW t \in Tokens PROVE PhoneOK(t)'
  <2>1. \A q \in Passes : Has(q, t)' => Has(q, t) /\ pass'[q] = pass[q]
    BY IdlePass DEF Has, N!Same, N!Known
  <2>2. t \notin excused' => \A q \in Passes : Has(q, t) => Has(q, t)'
    BY DEF Has, N!Same, N!Known
  <2> QED BY <2>1, <2>2 DEF NotifyCore, PhoneOK, Follows
<1> QED BY <1>1, <1>2 DEF NotifyCore

LEMMA DayPasses ==
  ASSUME NotifyCore, N!Tick
  PROVE  NotifyCore'
<1>1. UNCHANGED <<ids, pass, excused, early>> /\ \A p \in Passes : ~pass[p].on
  BY DEF N!Tick
<1>2. \A a \in N!Ages : N!Older(a) \in N!Ages
  BY NotifyingAssumption DEF N!Ages, N!Older
<1>3. ASSUME NEW t \in Tokens
      PROVE  /\ device[t] = None => device'[t] = None
             /\ device[t] # None => /\ device'[t] \in Phones
                                    /\ device'[t].id = device[t].id
                                    /\ device'[t].failing = N!Older(device[t].failing)
             /\ refused'[t] = N!Older(refused[t]) /\ refused'[t] \in N!Ages
  <2> DEFINE n == N!Older(device[t].failing)
             d == device[t]
  <2>1. /\ device'[t] = IF d = None THEN None ELSE [d EXCEPT !.failing = n]
        /\ refused'[t] = N!Older(refused[t])
    BY DEF N!Tick
  <2>2. d # None => d \in Phones
    BY DEF NotifyCore, PassesOK, PhoneRows
  <2>3. refused[t] \in N!Ages
    BY DEF NotifyCore, PassesOK
  <2>4. d # None => n \in N!Ages
    BY <1>2, <2>2 DEF Phones
  <2> HIDE DEF n, d
  <2>5. d # None => [d EXCEPT !.failing = n] = [id |-> d.id, failing |-> n]
    BY <2>2 DEF Phones
  <2>6. d # None => /\ device'[t] \in Phones /\ device'[t].id = d.id /\ device'[t].failing = n
    BY <2>1, <2>2, <2>4, <2>5 DEF Phones
  <2> QED BY <1>2, <2>1, <2>3, <2>6 DEF n, d
<1>4. \A t \in Tokens : device'[t] # None => device[t] # None
  BY <1>3
<1>5. PassesOK'
  <2>1. device' = [t \in Tokens |-> device'[t]] /\ refused' = [t \in Tokens |-> refused'[t]]
    BY DEF N!Tick
  <2> QED BY <1>1, <1>3, <1>4, <2>1 DEF NotifyCore, PassesOK, PhoneRows, N!Known
<1>6. ASSUME NEW t \in Tokens PROVE PhoneOK(t)'
  <2>1. \A p \in Passes : ~Has(p, t) /\ ~Has(p, t)'
    BY <1>1 DEF Has
  <2>2. N!Older(None) = None
    BY DEF N!Older
  <2>3. device'[t] = None => device[t] = None
    BY <1>3, NotifyingAssumption
  <2> QED BY <1>1, <1>3, <1>4, <2>1, <2>2, <2>3 DEF NotifyCore, PhoneOK
<1> QED BY <1>1, <1>5, <1>6 DEF NotifyCore

LEMMA NotifyStep == NotifyCore /\ N!Next => NotifyCore'
<1> SUFFICES ASSUME NotifyCore, N!Next PROVE NotifyCore'
  OBVIOUS
<1>1. ASSUME NEW p \in Passes, N!CommitRefused(p) PROVE NotifyCore'
  <2>1. /\ UNCHANGED <<device, ids, refused, early>> /\ pass' = [pass EXCEPT ![p] = N!Idle]
        /\ excused' = excused \cup N!Known(pass[p].seen)
    BY <1>1 DEF N!CommitRefused, N!Over
  <2>2. /\ pass' = [q \in Passes |-> pass'[q]] /\ pass'[p] = N!Idle
        /\ \A q \in Passes \ {p} : pass'[q] = pass[q]
    BY <2>1 DEF NotifyCore, PassesOK
  <2> QED BY <2>1, <2>2, PassesLost
<1>2. CASE N!Stop
  BY <1>2, PassesLost DEF N!Stop
<1> QED BY <1>1, <1>2, PhoneRegistered, PhoneForgotten, PassStarted, PassAccepted, PassRefused,
           PassCommitted, DayPasses DEF N!Next

LEMMA NotifyFollows == NotifyCore => N!NotifyConsistent
<1> SUFFICES ASSUME NotifyCore PROVE N!NotifyConsistent
  OBVIOUS
<1>1. \A t \in N!Known(device) : device[t].id \in 1..ids /\ device[t].failing \in N!Ages
  BY DEF NotifyCore, PassesOK, N!Known, PhoneRows, Phones
<1>2. \A t \in N!Known(device) \ excused :
        (\A p \in Passes : ~pass[p].on) => device[t].failing = refused[t]
  BY DEF NotifyCore, PhoneOK, Has, N!Known
<1> QED BY <1>1, <1>2 DEF N!NotifyConsistent, N!NotifyTypeOK, N!ForgottenWhenDead, NotifyCore,
                           PassesOK

\* refresh.py:539: with any phones, passes and answers of the relay, no phone is forgotten
\* before its time, and between passes its row says since when the relay has refused it.
THEOREM NotifiesConsistently == Spec => []NotifyConsistent
<1> DEFINE Inv == whose = "notifying" => NotifyCore
<1>1. Init => Inv
  BY NotifyInit DEF Init
<1>2. Inv /\ [Next]_vars => Inv'
  <2> SUFFICES ASSUME Inv, [Next]_vars, whose' = "notifying" PROVE NotifyCore'
    OBVIOUS
  <2>1. CASE Next
    BY <2>1, NotifyStep, WhoseStays
       DEF Next, OnlyProcessing, OnlyTimeline, OnlyServing, OnlyRefreshing, OnlySubscribing,
           OnlySignIn, OnlyQueue, OnlyArtwork
  <2>2. CASE vars' = vars
    BY <2>2 DEF vars, notifyingVars, NotifyCore, PassesOK, PhoneOK, Has, Follows, N!Known, N!Same
  <2> QED BY <2>1, <2>2
<1>3. Inv => NotifyConsistent
  BY NotifyFollows DEF NotifyConsistent
<1> QED BY <1>1, <1>2, <1>3, PTL DEF Spec

-----------------------------------------------------------------------------
(* Sign-in                                                                  *)

Logins ==
  {q \in [at : {"idle", "hashing"}, name : Names \cup {Owner}, source : Sources \cup {None},
          good : BOOLEAN, code : L!Codes \cup {None}, age : 0..Window, stale : BOOLEAN] :
     q.at = "hashing" => q.name \in Names /\ q.source \in Sources}
LoginsUnder(name) == {r \in Requests : request[r].at = "hashing" /\ request[r].name = name}
LoginsFrom(source) == {r \in Requests : request[r].at = "hashing" /\ request[r].source = source}

\* Of attempts of these kinds there are so few that every login that is being verified may
\* still fail, and no more than the limit and the requests there are will have.
Within(kinds, logins, limit) ==
  /\ IsFiniteSet(L!Rows(kinds))
  /\ Cardinality(L!Rows(kinds)) + Cardinality(logins) <= limit - 1 + Cardinality(Requests)

SignInTypes ==
  /\ attempts \in [L!Attempt -> Nat]
  /\ secret \in BOOLEAN /\ lastStep \in L!Codes \cup {None}
  /\ request \in [Requests -> Logins]
  /\ accepted \in [L!Codes -> 0..1]
\* The last step taken is remembered for as long as a code of it or before could sign in.
TakenRemembered == \A s \in L!Codes : accepted[s] > 0 => lastStep # None /\ s <= lastStep
SignInCore ==
  /\ SignInTypes /\ TakenRemembered
  /\ \A name \in Names : Within(L!FailuresSince(name), LoginsUnder(name), MaxFailures)
  /\ \A source \in Sources :
       Within(L!FailuresFrom(source), LoginsFrom(source), SourceMaxFailures)

LEMMA StepsApart ==
  /\ L!Codes = (-2)..1 /\ L!Steps = (-1)..1 /\ None \notin L!Codes /\ None \notin Int
  /\ L!Steps \subseteq L!Codes
BY ServingAssumption DEF L!Codes, L!Steps, L!ValidWindow

LEMMA IdleLogin == L!Idle \in Logins
BY SignInAssumption DEF L!Idle, Logins

LEMMA LoginsFinite ==
  ASSUME NEW some \in SUBSET Requests
  PROVE  /\ IsFiniteSet(some) /\ Cardinality(some) \in Nat /\ Cardinality(Requests) \in Nat
         /\ Cardinality(some) <= Cardinality(Requests)
BY ArtworkAssumption, FS_Subset, FS_CardinalityType

Crossing(kinds, limit) ==
  {k \in 0..(Window - 1) : L!Cardinality(L!Rows({a \in kinds : a.age >= k})) >= limit}

\* A wait is over once there are not as many failures as the limit.
LEMMA Waits ==
  ASSUME NEW kinds, NEW limit
  PROVE  /\ L!WaitFrom(kinds, limit) \in Nat
         /\ L!WaitFrom(kinds, limit) = 0 => Crossing(kinds, limit) = {}
<1>1. CASE Crossing(kinds, limit) = {}
  BY <1>1 DEF L!WaitFrom, Crossing
<1>2. CASE Crossing(kinds, limit) # {}
  <2>1. Window - 1 \in Int /\ 0 \in Int
    BY SignInAssumption
  <2>2. IsFiniteSet(0..(Window - 1))
    BY <2>1, FS_Interval
  <2>3. Crossing(kinds, limit) \in SUBSET (0..(Window - 1))
    BY DEF Crossing
  <2>4. IsFiniteSet(Crossing(kinds, limit)) /\ Crossing(kinds, limit) \in SUBSET Nat
    <3>1. IsFiniteSet(Crossing(kinds, limit))
      BY <2>2, <2>3, FS_Subset
    <3>2. 0..(Window - 1) \subseteq Nat
      BY <2>1
    <3> QED BY <2>3, <3>1, <3>2
  <2>5. \E m \in Crossing(kinds, limit) : \A n \in Crossing(kinds, limit) : m >= n
    BY <1>2, <2>4, GreatestExists
  <2>6. L!Max(Crossing(kinds, limit)) \in Crossing(kinds, limit)
    BY <2>5 DEF L!Max
  <2>7. L!WaitFrom(kinds, limit) = Window - L!Max(Crossing(kinds, limit))
    BY <1>2 DEF L!WaitFrom, Crossing
  <2>8. L!Max(Crossing(kinds, limit)) \in 0..(Window - 1)
    BY <2>3, <2>6
  <2> QED BY <2>7, <2>8, SignInAssumption
<1> QED BY <1>1, <1>2

LEMMA UnlockedBelow ==
  ASSUME NEW kinds \in SUBSET L!Attempt, NEW limit \in Nat, L!WaitFrom(kinds, limit) = 0,
         IsFiniteSet(L!Rows(kinds))
  PROVE  Cardinality(L!Rows(kinds)) < limit
<1>1. 0 \in 0..(Window - 1)
  BY SignInAssumption
<1>2. {a \in kinds : a.age >= 0} = kinds
  BY DEF L!Attempt
<1>3. ~(L!Cardinality(L!Rows(kinds)) >= limit)
  BY <1>1, <1>2, Waits DEF Crossing
<1>4. ~(Cardinality(L!Rows(kinds)) >= limit)
  BY <1>3 DEF L!Cardinality, Cardinality
<1> QED BY <1>4, FS_CardinalityType

\* Nothing locks who may try: neither the name nor the address.
LEMMA UnlockedBoth ==
  ASSUME NEW name, NEW source, L!SecondsUntilUnlocked(name, source) = 0
  PROVE  L!UsernameWait(name) = 0 /\ L!SourceWait(source) = 0
<1>1. PICK m, n : m = L!UsernameWait(name) /\ n = L!SourceWait(source)
  OBVIOUS
<1>2. m \in Nat /\ n \in Nat
  BY <1>1, Waits DEF L!UsernameWait, L!SourceWait
<1>3. L!Max({m, n}) = 0
  BY <1>1 DEF L!SecondsUntilUnlocked
<1>4. \E x \in {m, n} : \A y \in {m, n} : x >= y
  BY <1>2
<1>5. L!Max({m, n}) \in {m, n} /\ \A y \in {m, n} : L!Max({m, n}) >= y
  BY <1>4 DEF L!Max
<1> QED BY <1>1, <1>2, <1>3, <1>5

-----------------------------------------------------------------------------
\* Attempts and requests, counted.
LEMMA StillWithin ==
  ASSUME NEW old, IsFiniteSet(old), NEW new \in SUBSET old, NEW limit \in Nat,
         NEW some \in SUBSET Requests, NEW fewer \in SUBSET some,
         Cardinality(old) + Cardinality(some) <= limit - 1 + Cardinality(Requests)
  PROVE  /\ IsFiniteSet(new)
         /\ Cardinality(new) + Cardinality(fewer) <= limit - 1 + Cardinality(Requests)
<1>1. IsFiniteSet(new) /\ Cardinality(new) <= Cardinality(old)
  BY FS_Subset
<1>2. Cardinality(new) \in Nat /\ Cardinality(old) \in Nat
  BY <1>1, FS_CardinalityType
<1>3. IsFiniteSet(some) /\ Cardinality(some) \in Nat /\ Cardinality(Requests) \in Nat
  BY LoginsFinite
<1>4. Cardinality(fewer) \in Nat /\ Cardinality(fewer) <= Cardinality(some)
  BY <1>3, FS_Subset, FS_CardinalityType
<1> QED BY <1>1, <1>2, <1>3, <1>4

LEMMA OneMoreWithin ==
  ASSUME NEW old, IsFiniteSet(old), NEW x, NEW new \in SUBSET (old \cup {x}), NEW limit \in Nat,
         NEW some \in SUBSET Requests, NEW r \in some,
         Cardinality(old) + Cardinality(some) <= limit - 1 + Cardinality(Requests)
  PROVE  /\ IsFiniteSet(new)
         /\ Cardinality(new) + Cardinality(some \ {r}) <= limit - 1 + Cardinality(Requests)
<1>1. IsFiniteSet(old \cup {x}) /\ Cardinality(old \cup {x}) <= Cardinality(old) + 1
  <2>1. Cardinality(old) \in Nat
    BY FS_CardinalityType
  <2> QED BY <2>1, FS_AddElement
<1>2. IsFiniteSet(new) /\ Cardinality(new) <= Cardinality(old \cup {x})
  BY <1>1, FS_Subset
<1>3. /\ Cardinality(new) \in Nat /\ Cardinality(old) \in Nat
      /\ Cardinality(old \cup {x}) \in Nat
  BY <1>1, <1>2, FS_CardinalityType
<1>4. IsFiniteSet(some) /\ Cardinality(some) \in Nat /\ Cardinality(Requests) \in Nat
  BY LoginsFinite
<1>5. Cardinality(some \ {r}) = Cardinality(some) - 1
  BY <1>4, FS_RemoveElement
<1> QED BY <1>1, <1>2, <1>3, <1>4, <1>5

LEMMA BegunWithin ==
  ASSUME NEW old, IsFiniteSet(old), NEW limit \in Nat, Cardinality(old) < limit,
         NEW some \in SUBSET Requests
  PROVE  Cardinality(old) + Cardinality(some) <= limit - 1 + Cardinality(Requests)
BY FS_CardinalityType, LoginsFinite

\* Of what kinds the failures are that count.
LEMMA FailureKinds ==
  /\ \A name : L!FailuresSince(name) \subseteq L!Attempt
  /\ \A source : L!FailuresFrom(source) \subseteq L!Attempt
BY DEF L!FailuresSince, L!FailuresFrom

\* A success takes failures out of the count, and adds none.
LEMMA RecordedSuccess ==
  ASSUME SignInTypes, NEW r \in Requests, request[r].at = "hashing",
         attempts' = L!RecordAttempt(r, TRUE)
  PROVE  /\ attempts' \in [L!Attempt -> Nat]
         /\ \A name : L!Rows(L!FailuresSince(name))' \subseteq L!Rows(L!FailuresSince(name))
         /\ \A source : L!Rows(L!FailuresFrom(source))' \subseteq L!Rows(L!FailuresFrom(source))
<1>1. /\ attempts' \in [L!Attempt -> Nat]
      /\ \A a \in L!Attempt : ~a.ok => attempts'[a] = attempts[a]
      /\ \A a \in L!Attempt : attempts[a] > 0 => attempts'[a] > 0
  <2>1. PICK b : b = [name |-> request[r].name, source |-> request[r].source, ok |-> TRUE,
                      age |-> request[r].age]
    OBVIOUS
  <2>2. request[r].age < Window => b \in L!Attempt
    BY <2>1, SignInAssumption DEF SignInTypes, Logins, L!Attempt
  <2>3. b.ok
    BY <2>1
  <2>4. /\ attempts' \in [L!Attempt -> Nat]
        /\ \A a \in L!Attempt : a # b => attempts'[a] = attempts[a]
        /\ b \in L!Attempt => attempts'[b] \in {attempts[b], 1}
    BY <2>1, <2>2 DEF SignInTypes, L!RecordAttempt
  <2>5. ASSUME NEW a \in L!Attempt, attempts[a] > 0 PROVE attempts'[a] > 0
    <3>1. CASE a = b
      <4>1. attempts'[a] \in {attempts[a], 1}
        BY <2>4, <3>1
      <4>2. PICK m, n : m = attempts[a] /\ n = attempts'[a]
        OBVIOUS
      <4>3. m \in Nat /\ m > 0 /\ n \in {m, 1}
        BY <2>5, <4>1, <4>2 DEF SignInTypes
      <4>4. n > 0
        BY <4>3
      <4> QED BY <4>2, <4>4
    <3>2. CASE a # b
      <4>1. attempts'[a] = attempts[a]
        BY <2>4, <3>2
      <4> QED BY <2>5, <4>1
    <3> QED BY <3>1, <3>2
  <2> QED BY <2>3, <2>4, <2>5
<1>2. \A name : L!FailuresSince(name)' \subseteq L!FailuresSince(name)
  BY <1>1 DEF L!FailuresSince
<1>3. \A name : L!Rows(L!FailuresSince(name))' \subseteq L!Rows(L!FailuresSince(name))
  <2> SUFFICES ASSUME NEW name, NEW a \in L!FailuresSince(name)'
               PROVE  a \in L!FailuresSince(name) /\ attempts'[a] = attempts[a]
    BY DEF L!Rows
  <2> QED BY <1>1, <1>2 DEF L!FailuresSince
<1>4. \A source : L!Rows(L!FailuresFrom(source))' \subseteq L!Rows(L!FailuresFrom(source))
  BY <1>1 DEF L!Rows, L!FailuresFrom
<1> QED BY <1>1, <1>3, <1>4

\* A failure is one more, under its name and from its address.
LEMMA RecordedFailure ==
  ASSUME SignInTypes, NEW r \in Requests, request[r].at = "hashing",
         attempts' = L!RecordAttempt(r, FALSE)
  PROVE  /\ attempts' \in [L!Attempt -> Nat]
         /\ \E x :
             /\ \A name : L!Rows(L!FailuresSince(name))'
                            \subseteq L!Rows(L!FailuresSince(name)) \cup
                                        (IF name = request[r].name THEN {x} ELSE {})
             /\ \A source : L!Rows(L!FailuresFrom(source))'
                            \subseteq L!Rows(L!FailuresFrom(source)) \cup
                                        (IF source = request[r].source THEN {x} ELSE {})
<1>1. PICK a : a = [name |-> request[r].name, source |-> request[r].source, ok |-> FALSE,
                    age |-> request[r].age]
  OBVIOUS
<1>2. /\ a.name = request[r].name /\ a.source = request[r].source /\ ~a.ok
      /\ a.age = request[r].age
  BY <1>1
<1>3. request[r].age < Window => a \in L!Attempt
  BY <1>1, SignInAssumption DEF SignInTypes, Logins, L!Attempt
<1>4. /\ attempts' \in [L!Attempt -> Nat]
      /\ \A b \in L!Attempt : b # a => attempts'[b] = attempts[b]
      /\ a \in L!Attempt => attempts'[a] \in {attempts[a], attempts[a] + 1}
  BY <1>1, <1>3 DEF SignInTypes, L!RecordAttempt
<1>5. \A name : L!FailuresSince(name)' = L!FailuresSince(name)
  <2>1. \A b \in L!Attempt : b.ok => attempts'[b] = attempts[b]
    BY <1>2, <1>4
  <2> QED BY <2>1 DEF L!FailuresSince
<1>6. PICK x : x = <<a, attempts[a] + 1>>
  OBVIOUS
<1>7. ASSUME NEW kinds \in SUBSET L!Attempt
      PROVE  L!Rows(kinds)' \subseteq L!Rows(kinds) \cup (IF a \in kinds THEN {x} ELSE {})
  <2> SUFFICES ASSUME NEW y \in L!Rows(kinds)'
               PROVE  y \in L!Rows(kinds) \cup (IF a \in kinds THEN {x} ELSE {})
    OBVIOUS
  <2>1. PICK b \in kinds : y \in {b} \X (1..attempts'[b])
    BY DEF L!Rows
  <2>2. y = <<b, y[2]>> /\ y[2] \in 1..attempts'[b]
    <3>1. PICK ns : ns = 1..attempts'[b]
      OBVIOUS
    <3>2. y \in {b} \X ns
      BY <2>1, <3>1
    <3>3. y = <<b, y[2]>> /\ y[2] \in ns
      BY <3>2
    <3> QED BY <3>1, <3>3
  <2>b. b \in L!Attempt
    OBVIOUS
  <2>3. CASE y[2] \in 1..attempts[b]
    <3>1. y \in {b} \X (1..attempts[b])
      BY <2>2, <2>3
    <3> QED BY <3>1 DEF L!Rows
  <2>4. CASE y[2] \notin 1..attempts[b]
    <3>1. b = a
      BY <1>4, <2>2, <2>b, <2>4
    <3>2. attempts[a] \in Nat /\ attempts'[a] \in {attempts[a], attempts[a] + 1}
      BY <1>4, <2>b, <3>1 DEF SignInTypes
    <3>3. y[2] \in 1..attempts'[a] /\ y[2] \notin 1..attempts[a]
      BY <2>2, <2>4, <3>1
    <3>4. y[2] = attempts[a] + 1
      <4>1. PICK m, k, n : m = attempts[a] /\ k = attempts'[a] /\ n = y[2]
        OBVIOUS
      <4>2. m \in Nat /\ k \in {m, m + 1} /\ n \in 1..k /\ n \notin 1..m
        BY <3>2, <3>3, <4>1
      <4>3. n = m + 1
        BY <4>2
      <4> QED BY <4>1, <4>3
    <3> QED BY <1>6, <2>2, <3>1, <3>4
  <2> QED BY <2>3, <2>4
<1>8. ASSUME NEW name
      PROVE  L!Rows(L!FailuresSince(name))'
               \subseteq L!Rows(L!FailuresSince(name)) \cup
                           (IF name = request[r].name THEN {x} ELSE {})
  <2>1. PICK kinds : kinds = L!FailuresSince(name)
    OBVIOUS
  <2>2. L!Rows(L!FailuresSince(name))' = L!Rows(kinds)' /\ kinds \in SUBSET L!Attempt
    BY <1>5, <2>1, FailureKinds DEF L!Rows
  <2>3. a \in kinds => name = request[r].name
    BY <1>2, <2>1 DEF L!FailuresSince
  <2> QED BY <1>7, <2>1, <2>2, <2>3
<1>9. ASSUME NEW source
      PROVE  L!Rows(L!FailuresFrom(source))'
               \subseteq L!Rows(L!FailuresFrom(source)) \cup
                           (IF source = request[r].source THEN {x} ELSE {})
  <2>1. PICK kinds : kinds = L!FailuresFrom(source)
    OBVIOUS
  <2>2. L!Rows(L!FailuresFrom(source))' = L!Rows(kinds)' /\ kinds \in SUBSET L!Attempt
    BY <2>1, FailureKinds DEF L!Rows, L!FailuresFrom
  <2>3. a \in kinds => source = request[r].source
    BY <1>2, <2>1 DEF L!FailuresFrom
  <2> QED BY <1>7, <2>1, <2>2, <2>3
<1> QED BY <1>4, <1>8, <1>9

\* Time passing adds no failure, though a success may leave the window.
Younger(a) == [name |-> a.name, source |-> a.source, ok |-> a.ok, age |-> a.age - 1]

LEMMA AgedRows ==
  ASSUME SignInTypes, NEW new \in SUBSET L!Attempt, NEW old \in SUBSET L!Attempt,
         \A a \in new : a.age > 0 => Younger(a) \in old,
         \A a \in L!Attempt : attempts'[a] = IF a.age = 0 THEN 0 ELSE attempts[Younger(a)],
         IsFiniteSet(L!Rows(old))
  PROVE  /\ IsFiniteSet(L!Rows(new)')
         /\ Cardinality(L!Rows(new)') <= Cardinality(L!Rows(old))
<1>1. PICK rowsNow : rowsNow = L!Rows(new)'
  OBVIOUS
<1>2. PICK rowsThen : rowsThen = L!Rows(old)
  OBVIOUS
<1>3. ASSUME NEW x \in rowsNow
      PROVE  /\ x = <<x[1], x[2]>> /\ x[1] \in new /\ x[1].age > 0
             /\ <<Younger(x[1]), x[2]>> \in rowsThen
  <2>1. PICK a \in new : x \in {a} \X (1..attempts'[a])
    BY <1>1, <1>3 DEF L!Rows
  <2>2. x = <<a, x[2]>> /\ x[1] = a /\ x[2] \in 1..attempts'[a]
    BY <2>1
  <2>3. a.age # 0 /\ a.age \in Nat
    BY <2>2 DEF L!Attempt
  <2>4. Younger(a) \in old /\ attempts'[a] = attempts[Younger(a)]
    BY <2>3
  <2>5. <<Younger(a), x[2]>> \in {Younger(a)} \X (1..attempts[Younger(a)])
    BY <2>2, <2>4
  <2>6. <<Younger(a), x[2]>> \in rowsThen
    BY <1>2, <2>4, <2>5 DEF L!Rows
  <2> QED BY <2>2, <2>3, <2>6
<1>4. PICK f : f = [x \in rowsNow |-> <<Younger(x[1]), x[2]>>]
  OBVIOUS
<1>5. f \in [rowsNow -> rowsThen]
  BY <1>3, <1>4
<1>6. ASSUME NEW x \in rowsNow, NEW y \in rowsNow, f[x] = f[y] PROVE x = y
  <2>1. Younger(x[1]) = Younger(y[1]) /\ x[2] = y[2]
    BY <1>4, <1>6
  <2>2. x[1] \in L!Attempt /\ y[1] \in L!Attempt
    BY <1>3
  <2>3. x[1] = y[1]
    BY <2>1, <2>2 DEF Younger, L!Attempt
  <2> QED BY <1>3, <2>1, <2>3
<1>7. f \in Injection(rowsNow, rowsThen)
  BY <1>5, <1>6 DEF Injection, IsInjective
<1> QED BY <1>1, <1>2, <1>7, FS_Injection

LEMMA AgedFailures ==
  ASSUME SignInTypes, L!Tick, NEW name
  PROVE  /\ \A a \in L!Attempt :
              attempts'[a] = IF a.age = 0 THEN 0 ELSE attempts[Younger(a)]
         /\ \A a \in L!FailuresSince(name)' :
              a.age > 0 => Younger(a) \in L!FailuresSince(name)
<1>1. \A a \in L!Attempt : [a EXCEPT !.age = @ - 1] = Younger(a)
  BY DEF L!Attempt, Younger
<1>2. \A a \in L!Attempt : attempts'[a] = IF a.age = 0 THEN 0 ELSE attempts[Younger(a)]
  BY <1>1 DEF L!Tick
<1>3. ASSUME NEW a \in L!FailuresSince(name)', a.age > 0
      PROVE  Younger(a) \in L!FailuresSince(name)
  <2>1. /\ a \in L!Attempt /\ a.name = name /\ ~a.ok
        /\ \A w \in L!Attempt : w.name = name /\ w.ok /\ attempts'[w] > 0 => a.age < w.age
    BY <1>3 DEF L!FailuresSince
  <2>2. /\ Younger(a) \in L!Attempt /\ Younger(a).name = name /\ ~Younger(a).ok
        /\ Younger(a).age = a.age - 1 /\ a.age \in 1..(Window - 1)
    BY <1>3, <2>1, SignInAssumption DEF Younger, L!Attempt
  <2>3. ASSUME NEW w \in L!Attempt, w.name = name, w.ok, attempts[w] > 0
        PROVE  a.age - 1 < w.age
    <3>1. CASE w.age = Window - 1
      BY <2>2, <3>1, SignInAssumption
    <3>2. CASE w.age # Window - 1
      <4>1. PICK v : v = [name |-> w.name, source |-> w.source, ok |-> w.ok, age |-> w.age + 1]
        OBVIOUS
      <4>2. v \in L!Attempt /\ v.age = w.age + 1 /\ v.name = name /\ v.ok
        BY <2>3, <3>2, <4>1, SignInAssumption DEF L!Attempt
      <4>3. Younger(v) = w /\ v.age # 0 /\ w.age \in Nat
        BY <4>1 DEF Younger, L!Attempt
      <4>4. attempts'[v] > 0
        BY <1>2, <2>3, <4>2, <4>3
      <4> QED BY <2>1, <2>2, <4>2, <4>3, <4>4
    <3> QED BY <3>1, <3>2
  <2> QED BY <2>2, <2>3 DEF L!FailuresSince
<1> QED BY <1>2, <1>3

-----------------------------------------------------------------------------
\* What the invariant says of counting, spelt out.
LEMMA WithinKept ==
  ASSUME SignInCore,
         \A name \in Names :
           /\ L!Rows(L!FailuresSince(name))' \subseteq L!Rows(L!FailuresSince(name))
           /\ LoginsUnder(name)' \subseteq LoginsUnder(name),
         \A source \in Sources :
           /\ L!Rows(L!FailuresFrom(source))' \subseteq L!Rows(L!FailuresFrom(source))
           /\ LoginsFrom(source)' \subseteq LoginsFrom(source),
         SignInTypes', TakenRemembered'
  PROVE  SignInCore'
<1>1. ASSUME NEW name \in Names
      PROVE  Within(L!FailuresSince(name), LoginsUnder(name), MaxFailures)'
  BY StillWithin, SignInAssumption DEF SignInCore, Within, LoginsUnder
<1>2. ASSUME NEW source \in Sources
      PROVE  Within(L!FailuresFrom(source), LoginsFrom(source), SourceMaxFailures)'
  BY StillWithin, SignInAssumption DEF SignInCore, Within, LoginsFrom
<1> QED BY <1>1, <1>2 DEF SignInCore

\* Whose logins there are, once one of them has changed.
LEMMA OneLogin ==
  ASSUME SignInTypes, NEW r \in Requests, NEW q \in Logins,
         request' = [request EXCEPT ![r] = q]
  PROVE  /\ request' \in [Requests -> Logins]
         /\ request'[r] = q /\ \A o \in Requests : o # r => request'[o] = request[o]
         /\ q.at = "idle" =>
              /\ \A name : LoginsUnder(name)' = LoginsUnder(name) \ {r}
              /\ \A source : LoginsFrom(source)' = LoginsFrom(source) \ {r}
BY DEF SignInTypes, LoginsUnder, LoginsFrom

LEMMA LoginBegins ==
  ASSUME SignInCore, NEW r \in Requests, NEW name \in Names, NEW source \in Sources,
         NEW right \in BOOLEAN, NEW code \in L!Steps \cup {None},
         L!Login(r, name, source, right, code)
  PROVE  SignInCore'
<1> DEFINE good == name = Owner /\ right /\ (secret => code \in L!Unused(lastStep))
<1>1. PICK q :
        /\ q = [at |-> "hashing", name |-> name, source |-> source, good |-> good,
                code |-> IF good /\ secret THEN code ELSE None, age |-> 0, stale |-> FALSE]
        /\ request' = [request EXCEPT ![r] = q]
  BY DEF L!Login
<1>g. good \in BOOLEAN
  OBVIOUS
<1> HIDE DEF good
<1>2. /\ q \in Logins /\ q.at = "hashing" /\ q.name = name /\ q.source = source
  BY <1>1, <1>g, StepsApart, SignInAssumption DEF Logins
<1>3. UNCHANGED <<attempts, secret, lastStep, accepted>> /\ L!SecondsUntilUnlocked(name, source) = 0
  BY DEF L!Login
<1>4. /\ request' \in [Requests -> Logins]
      /\ request'[r] = q /\ \A o \in Requests : o # r => request'[o] = request[o]
  BY <1>1, <1>2, OneLogin DEF SignInCore
<1>5. SignInTypes' /\ TakenRemembered'
  BY <1>3, <1>4 DEF SignInCore, SignInTypes, TakenRemembered
<1>6. /\ L!WaitFrom(L!FailuresSince(name), MaxFailures) = 0
      /\ L!WaitFrom(L!FailuresFrom(source), SourceMaxFailures) = 0
  BY <1>3, UnlockedBoth DEF L!UsernameWait, L!SourceWait
<1>7. ASSUME NEW n \in Names
      PROVE  Within(L!FailuresSince(n), LoginsUnder(n), MaxFailures)'
  <2>1. L!Rows(L!FailuresSince(n))' = L!Rows(L!FailuresSince(n))
    BY <1>3 DEF L!Rows, L!FailuresSince
  <2>2. IsFiniteSet(L!Rows(L!FailuresSince(n)))
    BY DEF SignInCore, Within
  <2>3. CASE n = name
    <3>1. Cardinality(L!Rows(L!FailuresSince(n))) < MaxFailures
      BY <1>6, <2>2, <2>3, UnlockedBelow, FailureKinds, SignInAssumption
    <3>2. LoginsUnder(n)' \in SUBSET Requests
      BY DEF LoginsUnder
    <3> QED BY <2>1, <2>2, <3>1, <3>2, BegunWithin, SignInAssumption DEF Within
  <2>4. CASE n # name
    <3>1. LoginsUnder(n)' \subseteq LoginsUnder(n) /\ LoginsUnder(n) \subseteq Requests
      BY <1>2, <1>4, <2>4 DEF LoginsUnder
    <3> QED BY <2>1, <2>2, <3>1, StillWithin, SignInAssumption DEF SignInCore, Within
  <2> QED BY <2>3, <2>4
<1>8. ASSUME NEW n \in Sources
      PROVE  Within(L!FailuresFrom(n), LoginsFrom(n), SourceMaxFailures)'
  <2>1. L!Rows(L!FailuresFrom(n))' = L!Rows(L!FailuresFrom(n))
    BY <1>3 DEF L!Rows, L!FailuresFrom
  <2>2. IsFiniteSet(L!Rows(L!FailuresFrom(n)))
    BY DEF SignInCore, Within
  <2>3. CASE n = source
    <3>1. Cardinality(L!Rows(L!FailuresFrom(n))) < SourceMaxFailures
      BY <1>6, <2>2, <2>3, UnlockedBelow, FailureKinds, SignInAssumption
    <3>2. LoginsFrom(n)' \in SUBSET Requests
      BY DEF LoginsFrom
    <3> QED BY <2>1, <2>2, <3>1, <3>2, BegunWithin, SignInAssumption DEF Within
  <2>4. CASE n # source
    <3>1. LoginsFrom(n)' \subseteq LoginsFrom(n) /\ LoginsFrom(n) \subseteq Requests
      BY <1>2, <1>4, <2>4 DEF LoginsFrom
    <3> QED BY <2>1, <2>2, <3>1, StillWithin, SignInAssumption DEF SignInCore, Within
  <2> QED BY <2>3, <2>4
<1> QED BY <1>5, <1>7, <1>8 DEF SignInCore

LEMMA LoginFails ==
  ASSUME SignInCore, NEW r \in Requests, L!Fail(r)
  PROVE  SignInCore'
<1>1. /\ request[r].at = "hashing" /\ attempts' = L!RecordAttempt(r, FALSE)
      /\ request' = [request EXCEPT ![r] = L!Idle] /\ L!Idle.at = "idle"
      /\ UNCHANGED <<secret, lastStep, accepted>>
  BY DEF L!Fail, L!Idle
<1>2. /\ request' \in [Requests -> Logins]
      /\ \A name : LoginsUnder(name)' = LoginsUnder(name) \ {r}
      /\ \A source : LoginsFrom(source)' = LoginsFrom(source) \ {r}
  BY <1>1, OneLogin, IdleLogin DEF SignInCore
<1>3. PICK x :
        /\ attempts' \in [L!Attempt -> Nat]
        /\ \A name : L!Rows(L!FailuresSince(name))'
                       \subseteq L!Rows(L!FailuresSince(name)) \cup
                                   (IF name = request[r].name THEN {x} ELSE {})
        /\ \A source : L!Rows(L!FailuresFrom(source))'
                         \subseteq L!Rows(L!FailuresFrom(source)) \cup
                                     (IF source = request[r].source THEN {x} ELSE {})
  BY <1>1, RecordedFailure DEF SignInCore
<1>4. SignInTypes' /\ TakenRemembered'
  BY <1>1, <1>2, <1>3 DEF SignInCore, SignInTypes, TakenRemembered
<1>5. ASSUME NEW n \in Names
      PROVE  Within(L!FailuresSince(n), LoginsUnder(n), MaxFailures)'
  <2>1. LoginsUnder(n) \in SUBSET Requests /\ LoginsUnder(n)' = LoginsUnder(n) \ {r}
    BY <1>2 DEF LoginsUnder
  <2>2. CASE n = request[r].name
    <3>1. r \in LoginsUnder(n)
      BY <1>1, <2>2 DEF LoginsUnder
    <3>2. L!Rows(L!FailuresSince(n))' \in SUBSET (L!Rows(L!FailuresSince(n)) \cup {x})
      BY <1>3, <2>2
    <3> QED BY <2>1, <3>1, <3>2, OneMoreWithin, SignInAssumption DEF SignInCore, Within
  <2>3. CASE n # request[r].name
    <3>1. L!Rows(L!FailuresSince(n))' \in SUBSET L!Rows(L!FailuresSince(n))
      BY <1>3, <2>3
    <3> QED BY <2>1, <3>1, StillWithin, SignInAssumption DEF SignInCore, Within
  <2> QED BY <2>2, <2>3
<1>6. ASSUME NEW n \in Sources
      PROVE  Within(L!FailuresFrom(n), LoginsFrom(n), SourceMaxFailures)'
  <2>1. LoginsFrom(n) \in SUBSET Requests /\ LoginsFrom(n)' = LoginsFrom(n) \ {r}
    BY <1>2 DEF LoginsFrom
  <2>2. CASE n = request[r].source
    <3>1. r \in LoginsFrom(n)
      BY <1>1, <2>2 DEF LoginsFrom
    <3>2. L!Rows(L!FailuresFrom(n))' \in SUBSET (L!Rows(L!FailuresFrom(n)) \cup {x})
      BY <1>3, <2>2
    <3> QED BY <2>1, <3>1, <3>2, OneMoreWithin, SignInAssumption DEF SignInCore, Within
  <2>3. CASE n # request[r].source
    <3>1. L!Rows(L!FailuresFrom(n))' \in SUBSET L!Rows(L!FailuresFrom(n))
      BY <1>3, <2>3
    <3> QED BY <2>1, <3>1, StillWithin, SignInAssumption DEF SignInCore, Within
  <2> QED BY <2>2, <2>3
<1> QED BY <1>4, <1>5, <1>6 DEF SignInCore

\* The code that signs in is one of a step after the last that did, and that step is now it.
LEMMA LoginSucceeds ==
  ASSUME SignInCore, NEW r \in Requests, L!Succeed(r)
  PROVE  SignInCore'
<1>1. /\ request[r].at = "hashing" /\ attempts' = L!RecordAttempt(r, TRUE)
      /\ request' = [request EXCEPT ![r] = L!Idle] /\ L!Idle.at = "idle"
      /\ secret' = secret
  BY DEF L!Succeed, L!Idle
<1>2. /\ request' \in [Requests -> Logins]
      /\ \A name : LoginsUnder(name)' = LoginsUnder(name) \ {r}
      /\ \A source : LoginsFrom(source)' = LoginsFrom(source) \ {r}
  BY <1>1, OneLogin, IdleLogin DEF SignInCore
<1>3. /\ attempts' \in [L!Attempt -> Nat]
      /\ \A name : L!Rows(L!FailuresSince(name))' \subseteq L!Rows(L!FailuresSince(name))
      /\ \A source : L!Rows(L!FailuresFrom(source))' \subseteq L!Rows(L!FailuresFrom(source))
  BY <1>1, RecordedSuccess DEF SignInCore
<1>4. PICK c : c = request[r].code
  OBVIOUS
<1>5. c \in L!Codes \cup {None}
  BY <1>4 DEF SignInCore, SignInTypes, Logins
<1>6. CASE c = None
  <2>1. lastStep' = lastStep /\ accepted' = accepted
    BY <1>4, <1>6 DEF L!Succeed
  <2>2. SignInTypes' /\ TakenRemembered'
    BY <1>1, <1>2, <1>3, <2>1 DEF SignInCore, SignInTypes, TakenRemembered
  <2> QED BY <1>2, <1>3, <2>2, WithinKept
<1>7. CASE c # None
  <2>1. lastStep' = c /\ accepted' \in {accepted, [accepted EXCEPT ![c] = @ + 1]}
    BY <1>4, <1>7 DEF L!Succeed
  <2>2. c \in L!Steps /\ (lastStep = None \/ c > lastStep)
    BY <1>4, <1>7 DEF L!Succeed, L!Claimed, L!Unused
  <2>3. \A s \in L!Codes : accepted[s] > 0 => s < c
    BY <2>2, StepsApart DEF SignInCore, SignInTypes, TakenRemembered
  <2>4. accepted[c] = 0 /\ c \in L!Codes
    BY <1>5, <1>7, <2>3, StepsApart DEF SignInCore, SignInTypes
  <2>5. /\ accepted' \in [L!Codes -> 0..1]
        /\ \A s \in L!Codes : accepted'[s] > 0 => accepted[s] > 0 \/ s = c
    BY <2>1, <2>4 DEF SignInCore, SignInTypes
  <2>6. TakenRemembered'
    BY <1>7, <2>1, <2>3, <2>4, <2>5, StepsApart DEF TakenRemembered
  <2>7. SignInTypes'
    BY <1>1, <1>2, <1>3, <2>1, <2>4, <2>5 DEF SignInCore, SignInTypes
  <2> QED BY <1>2, <1>3, <2>6, <2>7, WithinKept
<1> QED BY <1>6, <1>7

LEMMA EnrolmentChanges ==
  ASSUME SignInCore, NEW on \in BOOLEAN, L!Enrol(on)
  PROVE  SignInCore'
<1>1. /\ attempts' = attempts /\ secret' = on /\ lastStep' = None
      /\ accepted' = [s \in L!Codes |-> 0]
      /\ request' = [r \in Requests |-> [request[r] EXCEPT !.stale = request[r].code # None]]
  BY DEF L!Enrol
<1>2. \A r \in Requests : /\ request'[r] \in Logins /\ request'[r].at = request[r].at
                          /\ request'[r].name = request[r].name
                          /\ request'[r].source = request[r].source
  BY <1>1 DEF SignInCore, SignInTypes, Logins
<1>3. SignInTypes' /\ TakenRemembered'
  BY <1>1, <1>2 DEF SignInCore, SignInTypes, TakenRemembered
<1>4. /\ \A name \in Names :
           /\ L!Rows(L!FailuresSince(name))' \subseteq L!Rows(L!FailuresSince(name))
           /\ LoginsUnder(name)' \subseteq LoginsUnder(name)
      /\ \A source \in Sources :
           /\ L!Rows(L!FailuresFrom(source))' \subseteq L!Rows(L!FailuresFrom(source))
           /\ LoginsFrom(source)' \subseteq LoginsFrom(source)
  BY <1>1, <1>2 DEF L!Rows, L!FailuresSince, L!FailuresFrom, LoginsUnder, LoginsFrom
<1> QED BY <1>3, <1>4, WithinKept

LEMMA AgedWithin ==
  ASSUME NEW old, IsFiniteSet(old), NEW new, IsFiniteSet(new),
         Cardinality(new) <= Cardinality(old), NEW limit \in Nat,
         NEW some \in SUBSET Requests, NEW fewer \in SUBSET some,
         Cardinality(old) + Cardinality(some) <= limit - 1 + Cardinality(Requests)
  PROVE  Cardinality(new) + Cardinality(fewer) <= limit - 1 + Cardinality(Requests)
<1>1. Cardinality(new) \in Nat /\ Cardinality(old) \in Nat
  BY FS_CardinalityType
<1>2. IsFiniteSet(some) /\ Cardinality(some) \in Nat /\ Cardinality(Requests) \in Nat
  BY LoginsFinite
<1>3. Cardinality(fewer) \in Nat /\ Cardinality(fewer) <= Cardinality(some)
  BY <1>2, FS_Subset, FS_CardinalityType
<1> QED BY <1>1, <1>2, <1>3

LEMMA SignInAges ==
  ASSUME SignInCore, L!Tick
  PROVE  SignInCore'
<1>1. \A s \in L!Codes \cup {None} :
        /\ L!Earlier(s) \in L!Codes \cup {None}
        /\ L!Earlier(s) = None <=> s = None \/ s = -2
        /\ L!Earlier(s) # None => L!Earlier(s) = s - 1
  BY StepsApart DEF L!Earlier
<1>2. /\ lastStep' = L!Earlier(lastStep) /\ secret' = secret
      /\ accepted' = [s \in L!Codes |-> IF s + 1 \in L!Codes THEN accepted[s + 1] ELSE 0]
  BY DEF L!Tick
<1>3. \A r \in Requests :
        /\ request'[r] \in Logins
        /\ request'[r].at = "hashing" =>
             /\ request[r].at = "hashing"
             /\ request'[r].name = request[r].name /\ request'[r].source = request[r].source
  <2> SUFFICES ASSUME NEW r \in Requests
               PROVE  /\ request'[r] \in Logins
                      /\ request'[r].at = "hashing" =>
                           /\ request[r].at = "hashing"
                           /\ request'[r].name = request[r].name
                           /\ request'[r].source = request[r].source
    OBVIOUS
  <2>1. CASE request[r].at = "idle"
    BY <2>1, IdleLogin DEF L!Tick, L!Idle
  <2>2. CASE request[r].at # "idle"
    <3>1. PICK older, code, good :
            /\ request'[r] = [request[r] EXCEPT !.age = older, !.code = code, !.good = good]
            /\ older = (IF request[r].age < Window THEN request[r].age + 1 ELSE request[r].age)
            /\ code = L!Earlier(request[r].code) /\ good \in BOOLEAN
      BY <2>2 DEF L!Tick
    <3>2. request[r] \in Logins
      BY DEF SignInCore, SignInTypes
    <3>3. older \in 0..Window /\ code \in L!Codes \cup {None}
      BY <1>1, <3>1, <3>2, SignInAssumption DEF Logins
    <3> QED BY <3>1, <3>2, <3>3 DEF Logins
  <2> QED BY <2>1, <2>2
<1>4. \A a \in L!Attempt : attempts'[a] = IF a.age = 0 THEN 0 ELSE attempts[Younger(a)]
  BY AgedFailures DEF SignInCore
<1>5. attempts' \in [L!Attempt -> Nat]
  <2>1. \A a \in L!Attempt : a.age # 0 => Younger(a) \in L!Attempt
    BY SignInAssumption DEF L!Attempt, Younger
  <2>2. attempts' = [a \in L!Attempt |-> attempts'[a]]
    BY DEF L!Tick
  <2> QED BY <1>4, <2>1, <2>2 DEF SignInCore, SignInTypes
<1>6. SignInTypes'
  <2>1. request' = [r \in Requests |-> request'[r]]
    BY DEF L!Tick
  <2>2. accepted' \in [L!Codes -> 0..1]
    BY <1>2 DEF SignInCore, SignInTypes
  <2> QED BY <1>1, <1>2, <1>3, <1>5, <2>1, <2>2 DEF SignInCore, SignInTypes
<1>7. TakenRemembered'
  <2> SUFFICES ASSUME NEW s \in L!Codes, accepted'[s] > 0
               PROVE  lastStep' # None /\ s <= lastStep'
    BY DEF TakenRemembered
  <2>1. s + 1 \in L!Codes /\ accepted[s + 1] > 0
    BY <1>2
  <2>2. lastStep # None /\ s + 1 <= lastStep /\ lastStep \in L!Codes
    BY <2>1 DEF SignInCore, SignInTypes, TakenRemembered
  <2>3. s \in (-2)..1 /\ lastStep \in (-2)..1
    BY <2>2, StepsApart
  <2>4. lastStep # -2
    BY <2>2, <2>3
  <2> QED BY <1>1, <1>2, <2>2, <2>3, <2>4
<1>8. ASSUME NEW n \in Names
      PROVE  Within(L!FailuresSince(n), LoginsUnder(n), MaxFailures)'
  <2>1. PICK new, old : new = L!FailuresSince(n)' /\ old = L!FailuresSince(n)
    OBVIOUS
  <2>2. /\ new \in SUBSET L!Attempt /\ old \in SUBSET L!Attempt
        /\ \A a \in new : a.age > 0 => Younger(a) \in old
    BY <2>1, AgedFailures DEF SignInCore, L!FailuresSince
  <2>3. IsFiniteSet(L!Rows(old)) /\ L!Rows(old) = L!Rows(L!FailuresSince(n))
    BY <2>1 DEF SignInCore, Within
  <2>4. /\ IsFiniteSet(L!Rows(new)') /\ Cardinality(L!Rows(new)') <= Cardinality(L!Rows(old))
        /\ L!Rows(new)' = L!Rows(L!FailuresSince(n))'
    BY <1>4, <2>1, <2>2, <2>3, AgedRows DEF SignInCore, L!Rows
  <2>5. LoginsUnder(n) \in SUBSET Requests /\ LoginsUnder(n)' \in SUBSET LoginsUnder(n)
    BY <1>3 DEF LoginsUnder
  <2> QED BY <2>3, <2>4, <2>5, AgedWithin, SignInAssumption DEF SignInCore, Within
<1>9. ASSUME NEW n \in Sources
      PROVE  Within(L!FailuresFrom(n), LoginsFrom(n), SourceMaxFailures)'
  <2>1. PICK old : old = L!FailuresFrom(n) /\ old = L!FailuresFrom(n)'
    BY DEF L!FailuresFrom
  <2>2. /\ old \in SUBSET L!Attempt /\ \A a \in old : a.age > 0 => Younger(a) \in old
    BY <2>1, SignInAssumption DEF L!FailuresFrom, L!Attempt, Younger
  <2>3. IsFiniteSet(L!Rows(old)) /\ L!Rows(old) = L!Rows(L!FailuresFrom(n))
    BY <2>1 DEF SignInCore, Within
  <2>4. /\ IsFiniteSet(L!Rows(old)') /\ Cardinality(L!Rows(old)') <= Cardinality(L!Rows(old))
        /\ L!Rows(old)' = L!Rows(L!FailuresFrom(n))'
    BY <1>4, <2>1, <2>2, <2>3, AgedRows DEF SignInCore, L!Rows
  <2>5. LoginsFrom(n) \in SUBSET Requests /\ LoginsFrom(n)' \in SUBSET LoginsFrom(n)
    BY <1>3 DEF LoginsFrom
  <2> QED BY <2>3, <2>4, <2>5, AgedWithin, SignInAssumption DEF SignInCore, Within
<1> QED BY <1>6, <1>7, <1>8, <1>9 DEF SignInCore

LEMMA SignInInit == L!Init => SignInCore
<1> SUFFICES ASSUME L!Init PROVE SignInCore
  OBVIOUS
<1>1. /\ attempts = [a \in L!Attempt |-> 0] /\ secret \in BOOLEAN /\ lastStep = None
      /\ request = [r \in Requests |-> L!Idle] /\ accepted = [s \in L!Codes |-> 0]
  BY DEF L!Init
<1>2. SignInTypes /\ TakenRemembered
  BY <1>1, IdleLogin DEF SignInTypes, TakenRemembered
<1>3. \A kinds \in SUBSET L!Attempt : L!Rows(kinds) = {}
  BY <1>1 DEF L!Rows
<1>4. /\ \A name : LoginsUnder(name) = {}
      /\ \A source : LoginsFrom(source) = {}
  BY <1>1 DEF L!Idle, LoginsUnder, LoginsFrom
<1>5. IsFiniteSet({}) /\ Cardinality({}) = 0 /\ Cardinality(Requests) \in Nat
  BY FS_EmptySet, FS_CardinalityType, ArtworkAssumption
<1>6. \A name \in Names : Within(L!FailuresSince(name), LoginsUnder(name), MaxFailures)
  BY <1>3, <1>4, <1>5, FailureKinds, SignInAssumption DEF Within
<1>7. \A source \in Sources :
        Within(L!FailuresFrom(source), LoginsFrom(source), SourceMaxFailures)
  <2>1. \A source : L!Rows(L!FailuresFrom(source)) = {}
    BY <1>3, FailureKinds
  <2> QED BY <1>4, <1>5, <2>1, SignInAssumption DEF Within
<1> QED BY <1>2, <1>6, <1>7 DEF SignInCore

LEMMA SignInStays == SignInCore /\ UNCHANGED L!vars => SignInCore'
<1> SUFFICES ASSUME SignInCore, UNCHANGED L!vars PROVE SignInCore'
  OBVIOUS
<1>1. SignInTypes' /\ TakenRemembered'
  BY DEF L!vars, SignInCore, SignInTypes, TakenRemembered
<1>2. /\ \A name \in Names :
           /\ L!Rows(L!FailuresSince(name))' \subseteq L!Rows(L!FailuresSince(name))
           /\ LoginsUnder(name)' \subseteq LoginsUnder(name)
      /\ \A source \in Sources :
           /\ L!Rows(L!FailuresFrom(source))' \subseteq L!Rows(L!FailuresFrom(source))
           /\ LoginsFrom(source)' \subseteq LoginsFrom(source)
  BY DEF L!vars, L!Rows, L!FailuresSince, L!FailuresFrom, LoginsUnder, LoginsFrom
<1> QED BY <1>1, <1>2, WithinKept

LEMMA SignInStep == SignInCore /\ L!Next => SignInCore'
<1> SUFFICES ASSUME SignInCore, L!Next PROVE SignInCore'
  OBVIOUS
<1>1. ASSUME NEW r \in Requests, NEW name \in Names, NEW source \in Sources,
             \/ L!Login(r, name, source, FALSE, None)
             \/ \E code \in L!Steps \cup {None} : L!Login(r, name, source, TRUE, code)
      PROVE  SignInCore'
  <2>1. ASSUME L!Login(r, name, source, FALSE, None) PROVE SignInCore'
    BY <2>1, LoginBegins
  <2>2. ASSUME NEW code \in L!Steps \cup {None}, L!Login(r, name, source, TRUE, code)
        PROVE  SignInCore'
    BY <2>2, LoginBegins
  <2> QED BY <1>1, <2>1, <2>2
<1>2. ASSUME NEW name \in Names, NEW source \in Sources, L!Locked(name, source)
      PROVE  SignInCore'
  BY <1>2, SignInStays DEF L!Locked
<1>3. CASE L!TotpEnable \/ L!TotpDisable
  BY <1>3, EnrolmentChanges DEF L!TotpEnable, L!TotpDisable
<1> QED BY <1>1, <1>2, <1>3, LoginFails, LoginSucceeds, SignInAges DEF L!Next

LEMMA SignInFollows == SignInCore => L!SignInConsistent
<1> SUFFICES ASSUME SignInCore PROVE L!SignInConsistent
  OBVIOUS
<1>1. L!SignInTypeOK
  BY DEF SignInCore, SignInTypes, Logins, L!SignInTypeOK
<1>2. L!OneCodeOneSignIn
  BY DEF SignInCore, SignInTypes, L!OneCodeOneSignIn
<1>3. ASSUME NEW kinds, NEW logins \in SUBSET Requests, NEW limit \in Nat,
             Within(kinds, logins, limit)
      PROVE  L!Cardinality(L!Rows(kinds)) <= limit - 1 + L!Cardinality(Requests)
  <2>1. /\ Cardinality(L!Rows(kinds)) \in Nat /\ Cardinality(logins) \in Nat
        /\ Cardinality(Requests) \in Nat
    BY <1>3, LoginsFinite, FS_CardinalityType DEF Within
  <2>2. Cardinality(L!Rows(kinds)) <= limit - 1 + Cardinality(Requests)
    BY <1>3, <2>1 DEF Within
  <2> QED BY <2>2 DEF L!Cardinality, Cardinality
<1>4. L!FailuresLimited
  <2>1. /\ \A name : LoginsUnder(name) \in SUBSET Requests
        /\ \A source : LoginsFrom(source) \in SUBSET Requests
    BY DEF LoginsUnder, LoginsFrom
  <2> QED BY <1>3, <2>1, SignInAssumption DEF SignInCore, L!FailuresLimited
<1> QED BY <1>1, <1>2, <1>4 DEF L!SignInConsistent

\* throttle.py:20, auth_routes.py:128: however many names, addresses and requests there are and
\* however they cross, a code signs in once, and a window holds no more failures under a name
\* or from an address than its limit and those that were being verified when it was reached.
THEOREM SignsInConsistently == Spec => []SignInConsistent
<1> DEFINE Inv == whose = "signin" => SignInCore
<1>1. Init => Inv
  BY SignInInit DEF Init
<1>2. Inv /\ [Next]_vars => Inv'
  <2> SUFFICES ASSUME Inv, [Next]_vars, whose' = "signin" PROVE SignInCore'
    OBVIOUS
  <2>1. CASE Next
    BY <2>1, SignInStep, WhoseStays
       DEF Next, OnlyProcessing, OnlyTimeline, OnlyServing, OnlyRefreshing, OnlySubscribing,
           OnlyQueue, OnlyArtwork, OnlyNotifying
  <2>2. CASE vars' = vars
    BY <2>2, SignInStays DEF vars, signinVars, L!vars
  <2> QED BY <2>1, <2>2
<1>3. Inv => SignInConsistent
  BY SignInFollows DEF SignInConsistent
<1> QED BY <1>1, <1>2, <1>3, PTL DEF Spec
=============================================================================
