-------------------------- MODULE MigrationsProofs --------------------------
(* Theorems about Migrations, for any set of runs, whatever they are killed *)
(* at and whatever they meet.                                              *)
EXTENDS Migrations, FiniteSetTheorems, TLAPS

-----------------------------------------------------------------------------
(* The inductive invariant.                                                *)

\* The tables of a revision, written out.
TablesAt(n) == {t \in Table : \/ t = "doc_links" /\ n >= 2
                              \/ t = "user_preferences" /\ n >= 3}

\* The row and the tables agree.
Consistent ==
    /\ rows = RowOf(CommittedRevision)
    /\ CommittedRevision \in 0..Latest
    /\ objects \cap Table = TablesAt(CommittedRevision)
    /\ CommittedRevision > 0 =>
          {"schema", "alembic_version", "role"} \subseteq objects
    /\ "alembic_version" \in objects => "schema" \in objects

\* A run that meets the empty database has more than the first revision to
\* apply, or is a downgrade.
Commanded(r) ==
    LET j == job[r] IN
    /\ pc[r] \in {"schema", "begin"} /\ j.command = "upgrade" /\ j.head = 1 =>
          CommittedRevision > 0
    /\ pc[r] \in Running /\ j.command = "upgrade" => j.goal = j.head
    /\ pc[r] \in {"begin", "ensure", "run"} => "schema" \in objects

\* The revisions between the one a run has read and the one it has reached.
OnTheWay(r, k) ==
    \/ txn[r].from <= k /\ k <= txn[r].at
    \/ txn[r].at <= k /\ k <= txn[r].from

\* What an open transaction has done is the way from the revision it read to
\* the one it has reached, and it holds the rows of all those on the way.
Accounted(r) ==
    LET x == txn[r]  j == job[r] IN
    /\ pc[r] \notin {"ensure", "run"} => x = NoTxn
    /\ pc[r] = "ensure" => x = NoTxn
    /\ pc[r] \in {"ensure", "run"} /\ x.from = 0 /\ j.command = "upgrade" =>
          j.goal >= 2
    /\ pc[r] = "run" /\ x.from = 0 =>
          "alembic_version" \in objects \cup x.made
    /\ x.at > x.from => j.command = "upgrade" /\ x.at <= j.goal
    /\ x.at < x.from => j.command = "downgrade" /\ x.at >= 1
    /\ x.made \cap Table = TablesAt(x.at) \ TablesAt(x.from)
    /\ x.dropped = TablesAt(x.from) \ TablesAt(x.at)
    /\ x.made \subseteq Table \cup {"alembic_version", "role"}
    /\ x.from = 0 /\ x.at > 0 => "role" \in x.made
    /\ x.at # x.from =>
          \A k \in 1..Latest : OnTheWay(r, k) => Chain[k] \in x.locks

\* A run that has changed something still starts from what is committed; or
\* it has only inserted the first revision's row beside that of a later one,
\* and will fail.
Grounded(r) ==
    LET x == txn[r] IN
    x.at # x.from =>
        \/ CommittedRevision = x.from
        \/ x.from = 0 /\ x.at = 1 /\ CommittedRevision # 1

Exclusive(q, r) == q # r => txn[q].locks \cap txn[r].locks = {}

MInv ==
    /\ TypeOK
    /\ Consistent
    /\ \A r \in Runner : Commanded(r) /\ Accounted(r) /\ Grounded(r)
    /\ \A q, r \in Runner : Exclusive(q, r)

\* Without downgrades, nobody relies on a later revision than the database's.
Suited ==
    ~undone =>
        /\ serving <= CommittedRevision
        /\ \A r \in Runner :
            /\ pc[r] = "run" => txn[r].from <= CommittedRevision
            /\ pc[r] = "done" /\ job[r].command = "upgrade" =>
                  job[r].head <= CommittedRevision

-----------------------------------------------------------------------------
(* The revisions.                                                          *)

LEMMA ChainFacts ==
    /\ Latest = 3
    /\ \A n \in 1..Latest : Chain[n] \in Revision
    /\ \A m, n \in 1..Latest : Chain[m] = Chain[n] => m = n
<1>1. Latest = 3
  BY DEF Latest, Chain
<1>2. \A m, n \in 1..3 : Chain[m] = Chain[n] => m = n
  BY DEF Chain
<1> QED
  BY <1>1, <1>2 DEF Revision

\* A revision has one row, and the base none.
LEMMA RowFacts ==
    /\ RowOf(0) = {}
    /\ \A n \in 1..Latest : RowOf(n) = {Chain[n]}
    /\ \A n \in 0..Latest : RowOf(n) \subseteq Revision
<1>1. RowOf(0) = {}
  BY DEF RowOf
<1>2. \A n \in 1..Latest : RowOf(n) = {Chain[n]}
  BY ChainFacts DEF RowOf
<1> QED
  BY <1>1, <1>2, ChainFacts

LEMMA CreatesFacts ==
    /\ Creates(1) = {"role"} /\ Creates(2) = {"doc_links"}
    /\ Creates(3) = {"user_preferences"}
BY DEF Creates

\* Each revision adds what it creates to the tables of the one before it.
LEMMA TablesFacts ==
    /\ \A n \in 1..Latest :
          TablesAt(n) = TablesAt(n - 1) \cup (Creates(n) \cap Table)
    /\ \A n \in 0..Latest : TablesAt(n) = UpTo(n) \cap Table
    /\ \A n \in 2..Latest : Creates(n) = TablesAt(n) \ TablesAt(n - 1)
<1>1. /\ TablesAt(0) = {} /\ TablesAt(1) = {}
      /\ TablesAt(2) = {"doc_links"}
      /\ TablesAt(3) = {"doc_links", "user_preferences"}
  BY DEF TablesAt, Table
<1>2. \A n \in 1..3 : TablesAt(n) = TablesAt(n - 1) \cup (Creates(n) \cap Table)
  <2> SUFFICES ASSUME NEW n \in 1..3
               PROVE  TablesAt(n) = TablesAt(n - 1) \cup (Creates(n) \cap Table)
    OBVIOUS
  <2>1. n = 1 \/ n = 2 \/ n = 3
    OBVIOUS
  <2> QED
    BY <1>1, <2>1, CreatesFacts DEF Table
<1>3. \A n \in 2..3 : Creates(n) = TablesAt(n) \ TablesAt(n - 1)
  <2> SUFFICES ASSUME NEW n \in 2..3
               PROVE  Creates(n) = TablesAt(n) \ TablesAt(n - 1)
    OBVIOUS
  <2>1. n = 2 \/ n = 3
    OBVIOUS
  <2> QED
    BY <1>1, <2>1, CreatesFacts
<1>4. \A n \in 0..3 : TablesAt(n) = UpTo(n) \cap Table
  <2> SUFFICES ASSUME NEW n \in 0..3, NEW t \in Table
               PROVE  t \in TablesAt(n) <=> t \in UpTo(n)
    BY DEF TablesAt
  <2>1. t \in UpTo(n) <=> \E k \in 1..n : t \in Creates(k)
    BY DEF UpTo
  <2>2. \A k \in 1..n : k = 1 \/ k = 2 \/ k = 3
    OBVIOUS
  <2>3. CASE t = "doc_links"
    <3>1. t \in Creates(2) /\ t \notin Creates(1) /\ t \notin Creates(3)
      BY <2>3, CreatesFacts
    <3>2. t \in UpTo(n) <=> 2 \in 1..n
      BY <2>1, <2>2, <3>1
    <3> QED
      BY <2>3, <3>2 DEF TablesAt, Table
  <2>4. CASE t = "user_preferences"
    <3>1. t \in Creates(3) /\ t \notin Creates(1) /\ t \notin Creates(2)
      BY <2>4, CreatesFacts
    <3>2. t \in UpTo(n) <=> 3 \in 1..n
      BY <2>1, <2>2, <3>1
    <3> QED
      BY <2>4, <3>2 DEF TablesAt, Table
  <2> QED
    BY <2>3, <2>4 DEF Table
<1> QED
  BY <1>2, <1>3, <1>4, ChainFacts

\* The revision that a version table says it is at.
RevisionIn(table) ==
    IF table = {} THEN 0 ELSE CHOOSE n \in 1..Latest : Chain[n] \in table

LEMMA RevisionOfRow ==
    ASSUME NEW c \in 0..Latest
    PROVE  RevisionIn(RowOf(c)) = c
<1>1. CASE c = 0
  BY <1>1, RowFacts DEF RevisionIn
<1>2. CASE c # 0
  <2>1. c \in 1..Latest
    BY <1>2, ChainFacts
  <2>2. RowOf(c) = {Chain[c]}
    BY <2>1, RowFacts
  <2>3. \A n \in 1..Latest : Chain[n] \in RowOf(c) <=> n = c
    BY <2>1, <2>2, ChainFacts
  <2>4. (CHOOSE n \in 1..Latest : Chain[n] \in RowOf(c)) = c
    BY <2>1, <2>3
  <2> QED
    BY <2>2, <2>4 DEF RevisionIn
<1> QED
  BY <1>1, <1>2

\* A database that is consistent tells its revision.
LEMMA VersionIs ==
    /\ CommittedRevision = RevisionIn(rows)
    /\ CommittedRevision' = RevisionIn(rows')
BY DEF CommittedRevision, RevisionIn

-----------------------------------------------------------------------------
(* The steps.                                                              *)

Release(r) == \E h \in Releases : Released(h) /\ Start(r, "upgrade", h, h)
Undo(r) == \E g \in Downgrades : Start(r, "downgrade", Latest, g)

\* The steps that end a run without a result.
Fails(r) ==
    UnknownRevision(r) \/ UpgradeFails(r) \/ DowngradeFails(r)
        \/ DeadlockDetected(r) \/ Kill(r)

\* The steps that end a run, or the job it was part of, or start one.
Outside(r) == Release(r) \/ Undo(r) \/ Deploy(r) \/ GiveUp(r)

StepOf(r) ==
    \/ Outside(r) \/ Fails(r)
    \/ CreateSchema(r) \/ Begin(r) \/ EnsureVersionTable(r)
    \/ Upgrade(r) \/ Downgrade(r) \/ Commit(r)

LEMMA NextIsAStep == Next => \E r \in Runner : StepOf(r)
BY DEF Next, StepOf, Outside, Fails, Release, Undo

LEMMA FailsFails ==
    ASSUME NEW r, Fails(r)
    PROVE  Fail(r)
BY DEF Fails, UnknownRevision, UpgradeFails, DowngradeFails, DeadlockDetected,
       Kill

\* What the rest of the proof uses of a step of r: the others stay put, and
\* only CREATE SCHEMA and a COMMIT change the database.
LEMMA OthersStay ==
    ASSUME TypeOK, NEW r \in Runner, StepOf(r), NEW q \in Runner, q # r
    PROVE  pc'[q] = pc[q] /\ job'[q] = job[q] /\ txn'[q] = txn[q]
<1> USE DEF TypeOK, GoTo
<1>1. CASE Outside(r)
  BY <1>1 DEF Outside, Release, Undo, Start, Deploy, GiveUp
<1>2. CASE Fails(r)
  BY <1>2, FailsFails DEF Fail, Rollback
<1>3. CASE CreateSchema(r) \/ Begin(r) \/ EnsureVersionTable(r)
  BY <1>3 DEF CreateSchema, Begin, EnsureVersionTable
<1>4. CASE Upgrade(r)
  BY <1>4 DEF Upgrade
<1>5. CASE Downgrade(r)
  BY <1>5 DEF Downgrade
<1>6. CASE Commit(r)
  BY <1>6 DEF Commit
<1> QED
  BY <1>1, <1>2, <1>3, <1>4, <1>5, <1>6 DEF StepOf

LEMMA DatabaseSteps ==
    ASSUME NEW r, StepOf(r)
    PROVE  \/ UNCHANGED <<objects, rows>>
           \/ objects' = objects \cup {"schema"} /\ rows' = rows
           \/ Commit(r)
<1>1. CASE Outside(r)
  BY <1>1 DEF Outside, Release, Undo, Start, Deploy, GiveUp
<1>2. CASE Fails(r)
  BY <1>2, FailsFails DEF Fail
<1>3. CASE CreateSchema(r) \/ Begin(r) \/ EnsureVersionTable(r)
  BY <1>3 DEF CreateSchema, Begin, EnsureVersionTable
<1>4. CASE Upgrade(r) \/ Downgrade(r)
  BY <1>4 DEF Upgrade, Downgrade
<1> QED
  BY <1>1, <1>2, <1>3, <1>4 DEF StepOf

\* A transaction has the type of its fields.
Txn == [made : SUBSET Object, dropped : SUBSET Object, from : 0..Latest,
        at : 0..Latest, locks : SUBSET (Object \cup Revision)]

LEMMA TxnFacts ==
    ASSUME TypeOK, NEW r \in Runner
    PROVE  /\ txn[r].from \in 0..3 /\ txn[r].at \in 0..3
           /\ job[r].head \in 1..3 /\ job[r].goal \in 0..3
BY ChainFacts DEF TypeOK

\* The COMMIT of a run that has got to another revision finds the database at
\* the one it has read, and leaves it at the one it has reached.
LEMMA CommitMoves ==
    ASSUME MInv, NEW r \in Runner, Commit(r)
    PROVE  /\ Consistent'
           /\ CommittedRevision' = IF txn[r].at = txn[r].from
                                   THEN CommittedRevision ELSE txn[r].at
           /\ txn[r].at # txn[r].from => CommittedRevision = txn[r].from
           /\ {"schema", "alembic_version"} \cap objects \subseteq objects'
<1> DEFINE x == txn[r]  c == CommittedRevision
           to == IF x.at = x.from THEN c ELSE x.at
<1>1. /\ x.from \in 0..3 /\ x.at \in 0..3
      /\ c \in 0..3 /\ to \in 0..3
      /\ x.made \in SUBSET Object /\ x.dropped \in SUBSET Object
  BY TxnFacts, ChainFacts DEF MInv, Consistent, TypeOK
<1>2. /\ pc[r] = "run" /\ x.at = job[r].goal
      /\ objects' = (objects \ x.dropped) \cup x.made
      /\ rows' = IF x.at = x.from THEN rows
                 ELSE (rows \ RowOf(x.from)) \cup RowOf(x.at)
  BY DEF Commit, Sees
<1>3. Accounted(r) /\ Grounded(r) /\ Commanded(r)
  BY DEF MInv
<1>4. x.at # x.from => c = x.from
  <2> SUFFICES ASSUME x.at # x.from, c # x.from PROVE FALSE
    OBVIOUS
  <2>1. x.from = 0 /\ x.at = 1
    BY <1>3 DEF Grounded
  <2>2. job[r].command = "upgrade" /\ job[r].goal >= 2
    BY <1>2, <1>3, <2>1 DEF Accounted
  <2> QED
    BY <1>2, <2>1, <2>2
<1>5. rows' = RowOf(to)
  BY <1>2, <1>4 DEF MInv, Consistent
<1>6. CommittedRevision' = to
  BY <1>1, <1>5, RevisionOfRow, VersionIs, ChainFacts
<1>7. /\ objects \cap Table = TablesAt(c)
      /\ x.made \cap Table = TablesAt(x.at) \ TablesAt(x.from)
      /\ x.dropped = TablesAt(x.from) \ TablesAt(x.at)
      /\ TablesAt(x.at) \subseteq Table /\ TablesAt(x.from) \subseteq Table
  BY <1>3 DEF MInv, Consistent, Accounted, TablesAt
<1>8. objects' \cap Table = TablesAt(to)
  <2>1. CASE x.at = x.from
    BY <1>2, <1>7, <2>1
  <2>2. CASE x.at # x.from
    <3>1. objects \cap Table = TablesAt(x.from)
      BY <1>4, <1>7, <2>2
    <3>2. to = x.at
      BY <2>2
    <3> HIDE DEF x, to, c
    <3> QED
      BY <1>2, <1>7, <3>1, <3>2
  <2> QED
    BY <2>1, <2>2
<1>9. {"schema", "alembic_version", "role"} \cap objects \subseteq objects'
  BY <1>2, <1>7 DEF Table
<1>10. "schema" \in objects
  BY <1>2, <1>3 DEF Commanded
<1>11. ASSUME to > 0 PROVE {"schema", "alembic_version", "role"} \subseteq objects'
  <2>1. CASE c > 0
    BY <1>9, <2>1 DEF MInv, Consistent
  <2>2. CASE c = 0
    <3>1. x.from = 0 /\ x.at > 0
      BY <1>1, <1>4, <1>11, <2>2
    <3>2. "role" \in x.made /\ "alembic_version" \in objects \cup x.made
      BY <1>2, <1>3, <3>1 DEF Accounted
    <3> QED
      BY <1>2, <1>9, <1>10, <3>2
  <2> QED
    BY <1>1, <2>1, <2>2
<1>12. Consistent'
  <2>1. rows' = RowOf(CommittedRevision)' /\ CommittedRevision' \in 0..Latest
    BY <1>1, <1>5, <1>6, ChainFacts DEF RowOf
  <2> HIDE DEF to
  <2> QED
    BY <1>6, <1>8, <1>9, <1>10, <1>11, <2>1 DEF Consistent, TablesAt
<1> QED
  BY <1>4, <1>6, <1>9, <1>12

\* Every step leaves a consistent database, and revisions are never given up
\* altogether: not even a downgrade gets below the first one.
LEMMA ConsistentStep ==
    ASSUME MInv, NEW r \in Runner, StepOf(r)
    PROVE  /\ Consistent'
           /\ CommittedRevision > 0 => CommittedRevision' > 0
           /\ {"schema", "alembic_version"} \cap objects \subseteq objects'
           /\ \/ CommittedRevision' = CommittedRevision
              \/ /\ Commit(r) /\ txn[r].at # txn[r].from
                 /\ CommittedRevision = txn[r].from
                 /\ CommittedRevision' = txn[r].at
<1>1. CASE Commit(r)
  <2>1. /\ txn[r].from \in 0..3 /\ txn[r].at \in 0..3
    BY TxnFacts DEF MInv
  <2>2. txn[r].at < txn[r].from => txn[r].at >= 1
    BY DEF MInv, Accounted
  <2> QED
    BY <1>1, <2>1, <2>2, CommitMoves
<1>2. CASE ~Commit(r)
  <2>1. /\ rows' = rows
        /\ objects' = objects \/ objects' = objects \cup {"schema"}
    BY <1>2, DatabaseSteps
  <2>2. CommittedRevision' = CommittedRevision
    BY <2>1, VersionIs
  <2>3. objects' \cap Table = objects \cap Table
    BY <2>1 DEF Table
  <2>4. rows' = RowOf(CommittedRevision)' /\ CommittedRevision' \in 0..Latest
    BY <2>1, <2>2 DEF MInv, Consistent, RowOf
  <2>5. objects' \cap Table = TablesAt(CommittedRevision)'
    BY <2>2, <2>3 DEF MInv, Consistent, TablesAt
  <2>6. Consistent'
    BY <2>1, <2>2, <2>4, <2>5 DEF MInv, Consistent
  <2> QED
    BY <2>1, <2>2, <2>6
<1> QED
  BY <1>1, <1>2

LEMMA TypeStep ==
    ASSUME MInv, NEW r \in Runner, StepOf(r)
    PROVE  TypeOK'
<1> USE DEF MInv, TypeOK, GoTo
<1>0. /\ NoTxn \in [made : SUBSET Object, dropped : SUBSET Object,
                    from : 0..Latest, at : 0..Latest,
                    locks : SUBSET (Object \cup Revision)]
      /\ Latest = 3
  BY ChainFacts DEF NoTxn
<1>1. CASE Outside(r)
  <2>1. ASSUME NEW command \in {"upgrade", "downgrade"},
               NEW head \in 1..Latest, NEW goal \in 0..Latest,
               Start(r, command, head, goal)
        PROVE  TypeOK'
    BY <2>1 DEF Start, Running
  <2>2. CASE Release(r)
    <3>1. PICK h \in Releases : Start(r, "upgrade", h, h)
      BY <2>2 DEF Release
    <3>2. h \in 1..Latest /\ h \in 0..Latest
      BY <1>0, GoalsAssumption
    <3> QED
      BY <2>1, <3>1, <3>2
  <2>3. CASE Undo(r)
    <3>1. PICK g \in Downgrades : Start(r, "downgrade", Latest, g)
      BY <2>3 DEF Undo
    <3>2. g \in 0..Latest /\ Latest \in 1..Latest
      BY <1>0, GoalsAssumption
    <3> QED
      BY <2>1, <3>1, <3>2
  <2>4. CASE Deploy(r) \/ GiveUp(r)
    <3>1. job[r].head \in 0..Latest
      BY <1>0
    <3> QED
      BY <2>4, <3>1 DEF Deploy, GiveUp
  <2> QED
    BY <1>1, <2>2, <2>3, <2>4 DEF Outside
<1>2. CASE Fails(r)
  <2>1. /\ pc' = [pc EXCEPT ![r] = "failed"]
        /\ txn' = [txn EXCEPT ![r] = NoTxn]
        /\ UNCHANGED <<objects, rows, job, serving, undone>>
    BY <1>2, FailsFails DEF Fail, Rollback
  <2> QED
    BY <1>0, <2>1
<1>3. CASE CreateSchema(r)
  BY <1>3 DEF CreateSchema, Running, Object
<1>4. CASE Begin(r)
  <2> DEFINE new == [txn[r] EXCEPT !.from = CommittedRevision,
                                   !.at = CommittedRevision]
  <2>1. txn' = [txn EXCEPT ![r] = new]
    BY <1>4 DEF Begin
  <2>2. new \in Txn
    BY DEF Txn, Consistent
  <2> HIDE DEF new
  <2> QED
    BY <1>4, <2>1, <2>2 DEF Begin, Txn, Running
<1>5. CASE EnsureVersionTable(r)
  <2> DEFINE new == [txn[r] EXCEPT !.made = {"alembic_version"},
                                   !.locks = {"alembic_version"}]
  <2>1. txn' = txn \/ txn' = [txn EXCEPT ![r] = new]
    BY <1>5 DEF EnsureVersionTable
  <2>2. new \in Txn
    BY DEF Txn, Object
  <2> HIDE DEF new
  <2> QED
    BY <1>5, <2>1, <2>2 DEF EnsureVersionTable, Txn, Running
<1>6. CASE Upgrade(r)
  <2> DEFINE n == txn[r].at + 1
             new == [txn[r] EXCEPT !.made = @ \cup Creates(n), !.at = n,
                                   !.locks = @ \cup Needs(r)]
  <2>1. /\ txn' = [txn EXCEPT ![r] = new] /\ txn[r].at < job[r].goal
        /\ AtStep(r, "upgrade")
    BY <1>6 DEF Upgrade
  <2>2. n \in 1..3 /\ txn[r].at \in 0..3
    BY <2>1, TxnFacts
  <2>3. Creates(n) \subseteq Object
    BY <2>2, CreatesFacts DEF Object, Table
  <2>4. Needs(r) \subseteq Object \cup Revision
    BY <2>1, <2>2, <2>3, RowFacts, ChainFacts DEF Needs, Touched
  <2>5. new \in Txn
    <3> HIDE DEF n
    <3>1. txn[r] \in Txn
      BY DEF Txn
    <3>2. /\ txn[r].made \cup Creates(n) \in SUBSET Object
          /\ txn[r].locks \cup Needs(r) \in SUBSET (Object \cup Revision)
          /\ n \in 0..Latest
      BY <1>0, <2>2, <2>3, <2>4, <3>1 DEF Txn
    <3> QED
      BY <3>1, <3>2 DEF Txn
  <2> HIDE DEF new
  <2> QED
    BY <1>6, <2>1, <2>5 DEF Upgrade, Txn
<1>7. CASE Downgrade(r)
  <2> DEFINE n == txn[r].at
             new == [txn[r] EXCEPT !.dropped = @ \cup Creates(n), !.at = n - 1,
                                   !.locks = @ \cup Needs(r)]
  <2>1. /\ txn' = [txn EXCEPT ![r] = new]
        /\ AtStep(r, "downgrade") /\ n > job[r].goal /\ n > 1
    BY <1>7 DEF Downgrade
  <2>2. n \in 2..3 /\ n - 1 \in 1..3
    BY <2>1, TxnFacts
  <2>3. Creates(n) \subseteq Object /\ Creates(n - 1) \subseteq Object
    BY <2>2, CreatesFacts DEF Object, Table
  <2>4. Needs(r) \subseteq Object \cup Revision
    <3>1. Needs(r) = Touched(r, n - 1) \cup Creates(n)
      BY <2>1 DEF Needs, AtStep
    <3>2. Touched(r, n - 1) = Creates(n - 1) \cup RowOf(n - 1) \cup RowOf(n)
      BY DEF Touched
    <3> HIDE DEF n
    <3>3. RowOf(n - 1) \subseteq Revision /\ RowOf(n) \subseteq Revision
      BY <2>2, RowFacts, ChainFacts
    <3> QED
      BY <2>3, <3>1, <3>2, <3>3
  <2>5. new \in Txn
    <3> HIDE DEF n
    <3>1. txn[r] \in Txn
      BY DEF Txn
    <3>2. /\ txn[r].dropped \cup Creates(n) \in SUBSET Object
          /\ txn[r].locks \cup Needs(r) \in SUBSET (Object \cup Revision)
          /\ n - 1 \in 0..Latest
      BY <1>0, <2>2, <2>3, <2>4, <3>1 DEF Txn
    <3> QED
      BY <3>1, <3>2 DEF Txn
  <2> HIDE DEF new
  <2> QED
    BY <1>7, <2>1, <2>5 DEF Downgrade, Txn
<1>8. CASE Commit(r)
  <2>1. objects' \subseteq Object
    BY <1>8 DEF Commit, Sees
  <2>2. rows' \subseteq Revision
    <3>1. RowOf(txn[r].at) \subseteq Revision
      BY TxnFacts, RowFacts, ChainFacts
    <3> QED
      BY <1>8, <3>1 DEF Commit
  <2>3. undone' \in BOOLEAN
    BY <1>8 DEF Commit
  <2> QED
    BY <1>0, <1>8, <2>1, <2>2, <2>3 DEF Commit
<1> QED
  BY <1>1, <1>2, <1>3, <1>4, <1>5, <1>6, <1>7, <1>8 DEF StepOf

\* Two runs that have both got on from the same revision cannot be: they would
\* both hold its row, or, on an empty database, the first revision's.
LEMMA NoTwoOnTheWay ==
    ASSUME MInv, NEW q \in Runner, NEW r \in Runner, q # r,
           txn[q].at # txn[q].from, txn[r].at # txn[r].from,
           NEW k \in 1..Latest, OnTheWay(q, k), OnTheWay(r, k)
    PROVE  FALSE
<1>1. Chain[k] \in txn[q].locks
  BY DEF MInv, Accounted
<1>2. Chain[k] \in txn[r].locks
  BY DEF MInv, Accounted
<1> QED
  BY <1>1, <1>2 DEF MInv, Exclusive

\* A run that takes no part in a step keeps its account and its ground.
LEMMA Bystander ==
    ASSUME MInv, NEW r \in Runner, StepOf(r), NEW q \in Runner, q # r
    PROVE  Commanded(q)' /\ Accounted(q)' /\ Grounded(q)'
<1>1. pc'[q] = pc[q] /\ job'[q] = job[q] /\ txn'[q] = txn[q]
  BY OthersStay DEF MInv
<1>2. /\ CommittedRevision > 0 => CommittedRevision' > 0
      /\ {"schema", "alembic_version"} \cap objects \subseteq objects'
  BY ConsistentStep
<1>3. Commanded(q)'
  BY <1>1, <1>2 DEF MInv, Commanded
<1>4. Accounted(q)'
  BY <1>1, <1>2 DEF MInv, Accounted, TablesAt, OnTheWay
<1>5. Grounded(q)'
  <2>1. CASE CommittedRevision' = CommittedRevision
    BY <1>1, <2>1 DEF MInv, Grounded
  <2>2. CASE txn[q].at = txn[q].from
    BY <1>1, <2>2 DEF Grounded
  <2>3. ASSUME CommittedRevision' # CommittedRevision,
               txn[q].at # txn[q].from
        PROVE  Grounded(q)'
    <3>1. /\ txn[r].at # txn[r].from
          /\ CommittedRevision = txn[r].from
          /\ CommittedRevision' = txn[r].at
      BY <2>3, ConsistentStep
    <3>2. /\ txn[q].from \in 0..3 /\ txn[q].at \in 0..3
          /\ txn[r].from \in 0..3 /\ txn[r].at \in 0..3
      BY TxnFacts DEF MInv
    <3>3. txn[r].at >= 1
      BY <3>1, <3>2 DEF MInv, Accounted
    <3>4. txn[q].at >= 1
      BY <2>3, <3>2 DEF MInv, Accounted
    <3>5. CASE CommittedRevision = txn[q].from /\ txn[q].from # 0
      <4>1. txn[q].from \in 1..Latest
        BY <3>2, <3>5, ChainFacts
      <4>2. OnTheWay(q, txn[q].from) /\ OnTheWay(r, txn[q].from)
        BY <3>1, <3>2, <3>5 DEF OnTheWay
      <4> QED
        BY <2>3, <3>1, <4>1, <4>2, NoTwoOnTheWay
    <3>6. CASE CommittedRevision = txn[q].from /\ txn[q].from = 0
      <4>1. 1 \in 1..Latest
        BY ChainFacts
      <4>2. OnTheWay(q, 1) /\ OnTheWay(r, 1)
        BY <3>1, <3>2, <3>3, <3>4, <3>6 DEF OnTheWay
      <4> QED
        BY <2>3, <3>1, <4>1, <4>2, NoTwoOnTheWay
    <3>7. CASE /\ txn[q].from = 0 /\ txn[q].at = 1
               /\ CommittedRevision # 1
      <4>1. CommittedRevision' # 1
        <5> SUFFICES ASSUME CommittedRevision' = 1 PROVE FALSE
          OBVIOUS
        <5>1. 1 \in 1..Latest
          BY ChainFacts
        <5>2. OnTheWay(q, 1) /\ OnTheWay(r, 1)
          BY <3>1, <3>2, <3>7 DEF OnTheWay
        <5> QED
          BY <2>3, <3>1, <5>1, <5>2, NoTwoOnTheWay
      <4> QED
        BY <1>1, <3>7, <4>1 DEF Grounded
    <3> QED
      BY <2>3, <3>5, <3>6, <3>7 DEF MInv, Grounded
  <2> QED
    BY <2>1, <2>2, <2>3
<1> QED
  BY <1>3, <1>4, <1>5

\* A run without a transaction owes no account.
LEMMA NothingOpen ==
    ASSUME TypeOK, NEW r \in Runner, txn'[r] = NoTxn, pc'[r] # "run",
           pc'[r] = "ensure" =>
              (job'[r].command = "upgrade" => job'[r].goal >= 2)
    PROVE  Accounted(r)' /\ Grounded(r)'
<1>1. /\ txn'[r].from = 0 /\ txn'[r].at = 0
      /\ txn'[r].made = {} /\ txn'[r].dropped = {}
  BY DEF NoTxn
<1>2. Accounted(r)'
  BY <1>1 DEF Accounted, TablesAt
<1>3. Grounded(r)'
  BY <1>1 DEF Grounded
<1> QED
  BY <1>2, <1>3

LEMMA BeginStep ==
    ASSUME MInv, NEW r \in Runner, Begin(r)
    PROVE  Commanded(r)' /\ Accounted(r)' /\ Grounded(r)'
<1> DEFINE c == CommittedRevision
           new == [NoTxn EXCEPT !.from = c, !.at = c]
<1>1. /\ pc[r] = "begin" /\ txn[r] = NoTxn /\ c \in 0..3 /\ "schema" \in objects
      /\ job[r].head \in 1..3
  BY TxnFacts, ChainFacts
     DEF Begin, MInv, Accounted, Commanded, Consistent
<1>2. /\ pc'[r] = IF c = 0 THEN "ensure" ELSE "run"
      /\ job' = job /\ objects' = objects /\ rows' = rows
  BY DEF Begin, GoTo, MInv, TypeOK
<1>3. txn'[r] = new
  BY <1>1 DEF Begin, MInv, TypeOK
<1>4. /\ new.from = c /\ new.at = c /\ new.made = {} /\ new.dropped = {}
      /\ c = 0 => new = NoTxn
  <2>1. NoTxn \in Txn /\ c \in 0..Latest
    BY <1>1, ChainFacts DEF NoTxn, Txn
  <2>2. /\ new.from = c /\ new.at = c /\ new.made = NoTxn.made
        /\ new.dropped = NoTxn.dropped /\ new.locks = NoTxn.locks
        /\ new \in Txn
    BY <2>1 DEF Txn
  <2>3. /\ NoTxn.made = {} /\ NoTxn.dropped = {}
        /\ NoTxn.from = 0 /\ NoTxn.at = 0
    BY DEF NoTxn
  <2> HIDE DEF new, c
  <2> QED
    BY <2>1, <2>2, <2>3 DEF Txn
<1>5. c = 0 /\ job[r].command = "upgrade" => job[r].goal >= 2
  BY <1>1 DEF MInv, Commanded, Running
<1>6. CommittedRevision' = c
  BY <1>2, VersionIs
<1> HIDE DEF c, new
<1>7. Commanded(r)'
  BY <1>1, <1>2 DEF MInv, Commanded, Running
<1>8. Accounted(r)'
  BY <1>1, <1>2, <1>3, <1>4, <1>5 DEF Accounted, TablesAt
<1>9. Grounded(r)'
  BY <1>3, <1>4 DEF Grounded
<1> QED
  BY <1>7, <1>8, <1>9

LEMMA EnsureStep ==
    ASSUME MInv, NEW r \in Runner, EnsureVersionTable(r)
    PROVE  Commanded(r)' /\ Accounted(r)' /\ Grounded(r)'
<1> DEFINE x == txn'[r]
<1>1. /\ pc[r] = "ensure" /\ pc'[r] = "run" /\ txn[r] = NoTxn
      /\ job' = job /\ objects' = objects /\ rows' = rows
      /\ job[r].command = "upgrade" => job[r].goal >= 2
  BY DEF EnsureVersionTable, GoTo, MInv, TypeOK, Accounted, NoTxn
<1>2. /\ x.from = 0 /\ x.at = 0 /\ x.dropped = {}
      /\ x.made \subseteq {"alembic_version"}
      /\ "alembic_version" \in objects \cup x.made
  BY <1>1 DEF EnsureVersionTable, MInv, TypeOK, NoTxn
<1> HIDE DEF x
<1>3. Commanded(r)'
  BY <1>1 DEF MInv, Commanded, Running
<1>4. x.made \cap Table = {}
  BY <1>2 DEF Table
<1>5. Accounted(r)'
  BY <1>1, <1>2, <1>4 DEF Accounted, TablesAt, x
<1>6. Grounded(r)'
  BY <1>2 DEF Grounded, x
<1> QED
  BY <1>3, <1>5, <1>6

LEMMA UpgradeStep ==
    ASSUME MInv, NEW r \in Runner, Upgrade(r)
    PROVE  Commanded(r)' /\ Accounted(r)' /\ Grounded(r)'
<1> DEFINE x == txn[r]  n == x.at + 1  y == txn'[r]  c == CommittedRevision
<1>1. /\ pc[r] = "run" /\ job[r].command = "upgrade" /\ x.at < job[r].goal
      /\ pc' = pc /\ job' = job /\ objects' = objects /\ rows' = rows
      /\ UpgradeApplies(r, n)
  BY DEF Upgrade, AtStep
<1>2. /\ y.made = x.made \cup Creates(n) /\ y.at = n /\ y.from = x.from
      /\ y.dropped = x.dropped /\ y.locks = x.locks \cup Needs(r)
  BY DEF Upgrade, MInv, TypeOK
<1>3. /\ x.from \in 0..3 /\ x.at \in 0..3 /\ n \in 1..3
      /\ job[r].goal \in 0..3
  BY <1>1, TxnFacts DEF MInv
<1>4. x.from <= x.at
  BY <1>1, <1>3 DEF MInv, Accounted
<1>5. Needs(r) = Creates(n) \cup RowOf(n) \cup RowOf(x.at)
  BY <1>1 DEF Needs, AtStep, Touched
<1>6. Chain[n] \in y.locks
  BY <1>2, <1>3, <1>5, RowFacts, ChainFacts
<1>7. x.at > 0 => Chain[x.at] \in y.locks
  BY <1>2, <1>3, <1>5, RowFacts, ChainFacts
<1>8. /\ TablesAt(n) = TablesAt(x.at) \cup (Creates(n) \cap Table)
      /\ Creates(n) \subseteq Table \cup {"role"}
  <2>1. n - 1 = x.at
    BY <1>3
  <2>2. TablesAt(n) = TablesAt(n - 1) \cup (Creates(n) \cap Table)
    BY <1>3, TablesFacts, ChainFacts
  <2>3. n = 1 \/ n = 2 \/ n = 3
    BY <1>3
  <2>4. Creates(n) \subseteq Table \cup {"role"}
    BY <2>3, CreatesFacts DEF Table
  <2> QED
    BY <2>1, <2>2, <2>4
<1>9. Commanded(r)'
  BY <1>1 DEF MInv, Commanded, Running
<1>10. y.made \cap Table = TablesAt(n) \ TablesAt(x.from)
  <2>1. x.made \cap Table = TablesAt(x.at) \ TablesAt(x.from)
    BY DEF MInv, Accounted
  <2>2. Creates(n) \cap Table \cap TablesAt(x.from) = {}
    <3>1. \A t \in TablesAt(x.from) : t \in TablesAt(x.at)
      BY <1>3, <1>4 DEF TablesAt
    <3>2. CASE n = 1
      BY <3>2, CreatesFacts DEF Table
    <3>3. CASE n # 1
      <4>1. n \in 2..Latest /\ n - 1 = x.at
        BY <1>3, <3>3, ChainFacts
      <4>2. Creates(n) = TablesAt(n) \ TablesAt(n - 1)
        BY <4>1, TablesFacts
      <4>3. Creates(n) = TablesAt(n) \ TablesAt(x.at)
        BY <4>1, <4>2
      <4> HIDE DEF n
      <4> QED
        BY <3>1, <4>3
    <3> QED
      BY <3>2, <3>3
  <2> HIDE DEF x, y, n
  <2> QED
    BY <1>2, <1>8, <2>1, <2>2
<1>11. y.dropped = TablesAt(x.from) \ TablesAt(n)
  <2>1. y.dropped = TablesAt(x.from) \ TablesAt(x.at)
    BY <1>2 DEF MInv, Accounted
  <2>2. TablesAt(x.from) \subseteq TablesAt(x.at)
    BY <1>3, <1>4 DEF TablesAt
  <2> HIDE DEF x, y, n
  <2> QED
    BY <1>8, <2>1, <2>2
<1>12. ASSUME NEW k \in 1..Latest, x.from <= k, k <= n
       PROVE  Chain[k] \in y.locks
  <2>1. CASE k = n
    BY <1>6, <2>1
  <2>2. CASE k = x.at
    BY <1>7, <2>2
  <2>3. CASE k < x.at
    <3>1. OnTheWay(r, k) /\ x.at # x.from
      BY <1>12, <1>3, <2>3 DEF OnTheWay
    <3>2. Chain[k] \in x.locks
      BY <3>1 DEF MInv, Accounted
    <3> QED
      BY <1>2, <3>2
  <2> QED
    BY <1>3, <1>12, <2>1, <2>2, <2>3, ChainFacts
<1>13. x.from = 0 => "role" \in y.made
  <2>1. CASE x.at = 0
    BY <1>2, <2>1, CreatesFacts
  <2>2. CASE x.at # 0
    BY <1>2, <1>3, <2>2 DEF MInv, Accounted
  <2> QED
    BY <2>1, <2>2
<1>14. Accounted(r)'
  <2>1. /\ x.made \subseteq Table \cup {"alembic_version", "role"}
        /\ x.from = 0 => "alembic_version" \in objects \cup x.made
        /\ x.from = 0 => job[r].goal >= 2
    BY <1>1 DEF MInv, Accounted
  <2>2. \A k \in 1..Latest : OnTheWay(r, k)' => Chain[k] \in y.locks
    BY <1>2, <1>3, <1>4, <1>12, ChainFacts DEF OnTheWay
  <2>3. y.at > y.from /\ y.at <= job[r].goal
    BY <1>1, <1>2, <1>3, <1>4
  <2>4. y.made \subseteq Table \cup {"alembic_version", "role"}
    BY <1>2, <1>8, <2>1
  <2>5. y.from = 0 => "alembic_version" \in objects \cup y.made
    BY <1>2, <2>1
  <2>6. ~(y.at < y.from)
    BY <1>2, <1>3, <2>3
  <2>7. pc'[r] = "run"
    BY <1>1
  <2>8. /\ y.made \cap Table = TablesAt(y.at) \ TablesAt(y.from)
        /\ y.dropped = TablesAt(y.from) \ TablesAt(y.at)
    BY <1>2, <1>10, <1>11
  <2> HIDE DEF x, n
  <2> QED
    BY <1>1, <1>2, <1>13, <2>1, <2>2, <2>3, <2>4, <2>5, <2>6, <2>7, <2>8
       DEF Accounted, TablesAt
<1>15. Grounded(r)'
  <2>1. CommittedRevision' = c
    BY <1>1, VersionIs
  <2>2. /\ rows = RowOf(c) /\ c \in 0..3 /\ objects \cap Table = TablesAt(c)
    BY ChainFacts DEF MInv, Consistent
  <2>3. Chain[n] # Chain[c] \/ c = 0
    <3>1. c # 0 => rows = {Chain[c]}
      BY <2>2, RowFacts, ChainFacts
    <3> QED
      BY <1>1, <3>1 DEF UpgradeApplies
  <2>4. CASE x.at = x.from
    <3>1. CASE x.from = 0
      BY <1>2, <2>1, <2>3, <2>4, <3>1, ChainFacts DEF Grounded
    <3>2. CASE x.from # 0
      <4>1. RowOf(x.from) \subseteq rows
        BY <1>1, <2>4 DEF UpgradeApplies, SeesRow
      <4>2. x.from \in 1..Latest
        BY <1>3, <3>2, ChainFacts
      <4>3. Chain[x.from] \in RowOf(c)
        BY <2>2, <4>1, <4>2, RowFacts
      <4>4. c # 0
        BY <4>3, RowFacts
      <4>5. c \in 1..Latest /\ RowOf(c) = {Chain[c]}
        BY <2>2, <4>4, RowFacts, ChainFacts
      <4>6. c = x.from
        BY <4>2, <4>3, <4>5, ChainFacts
      <4> QED
        BY <1>2, <2>1, <4>6 DEF Grounded
    <3> QED
      BY <3>1, <3>2
  <2>5. CASE x.at # x.from
    <3>1. CASE c = x.from
      BY <1>2, <2>1, <3>1 DEF Grounded
    <3>2. CASE x.from = 0 /\ x.at = 1 /\ c # 1
      <4>1. Creates(2) \cap Table \cap Sees(r) = {}
        BY <1>1, <3>2 DEF UpgradeApplies
      <4>2. "doc_links" \notin Sees(r) /\ "doc_links" \in Table
        BY <4>1, CreatesFacts DEF Table
      <4>3. x.dropped = {}
        BY <3>2 DEF MInv, Accounted, TablesAt
      <4>4. "doc_links" \notin TablesAt(c)
        BY <2>2, <4>2, <4>3 DEF Sees
      <4>5. c < 2
        BY <2>2, <4>2, <4>4 DEF TablesAt
      <4>6. c = x.from
        BY <2>2, <3>2, <4>5
      <4> QED
        BY <3>1, <4>6
    <3> QED
      BY <2>5, <3>1, <3>2 DEF MInv, Grounded
  <2> QED
    BY <2>4, <2>5
<1> QED
  BY <1>9, <1>14, <1>15

LEMMA DowngradeStep ==
    ASSUME MInv, NEW r \in Runner, Downgrade(r)
    PROVE  Commanded(r)' /\ Accounted(r)' /\ Grounded(r)'
<1> DEFINE x == txn[r]  n == x.at  y == txn'[r]  c == CommittedRevision
<1>1. /\ pc[r] = "run" /\ job[r].command = "downgrade"
      /\ n > job[r].goal /\ n > 1 /\ SeesRow(r)
      /\ pc' = pc /\ job' = job /\ objects' = objects /\ rows' = rows
  BY DEF Downgrade, AtStep
<1>2. /\ y.made = x.made /\ y.at = n - 1 /\ y.from = x.from
      /\ y.dropped = x.dropped \cup Creates(n)
      /\ y.locks = x.locks \cup Needs(r)
  BY DEF Downgrade, MInv, TypeOK
<1>3. /\ x.from \in 0..3 /\ n \in 2..3 /\ n - 1 \in 1..2
  BY <1>1, TxnFacts DEF MInv
<1>4. n <= x.from
  BY <1>1, <1>3 DEF MInv, Accounted
<1>5. Needs(r) = Creates(n - 1) \cup RowOf(n - 1) \cup RowOf(n)
                    \cup Creates(n)
  BY <1>1 DEF Needs, AtStep, Touched
<1>6. Chain[n] \in y.locks /\ Chain[n - 1] \in y.locks
  BY <1>2, <1>3, <1>5, RowFacts, ChainFacts
<1>7. Creates(n) = TablesAt(n) \ TablesAt(n - 1)
  BY <1>3, TablesFacts, ChainFacts
<1>8. /\ TablesAt(n - 1) \subseteq TablesAt(n)
      /\ TablesAt(n) \subseteq TablesAt(x.from)
  BY <1>3, <1>4 DEF TablesAt
<1>9. Commanded(r)'
  BY <1>1 DEF MInv, Commanded, Running
<1>10. /\ x.made \cap Table = TablesAt(n) \ TablesAt(x.from)
       /\ x.dropped = TablesAt(x.from) \ TablesAt(n)
       /\ x.made \subseteq Table \cup {"alembic_version", "role"}
  BY DEF MInv, Accounted
<1>11. /\ y.made \cap Table = TablesAt(n - 1) \ TablesAt(x.from)
       /\ y.dropped = TablesAt(x.from) \ TablesAt(n - 1)
  <2> HIDE DEF x, y, n
  <2> QED
    BY <1>2, <1>7, <1>8, <1>10
<1>12. ASSUME NEW k \in 1..Latest, n - 1 <= k, k <= x.from
       PROVE  Chain[k] \in y.locks
  <2>1. CASE k = n - 1 \/ k = n
    BY <1>6, <2>1
  <2>2. CASE k > n
    <3>1. OnTheWay(r, k) /\ x.at # x.from
      BY <1>12, <1>3, <2>2 DEF OnTheWay
    <3>2. Chain[k] \in x.locks
      BY <3>1 DEF MInv, Accounted
    <3> QED
      BY <1>2, <3>2
  <2> QED
    BY <1>3, <1>12, <2>1, <2>2, ChainFacts
<1>13. Accounted(r)'
  <2>1. \A k \in 1..Latest : OnTheWay(r, k)' => Chain[k] \in y.locks
    BY <1>2, <1>3, <1>4, <1>12, ChainFacts DEF OnTheWay
  <2>2. y.at >= 1 /\ ~(y.at > y.from) /\ y.from # 0
    BY <1>2, <1>3, <1>4
  <2>3. /\ y.made \cap Table = TablesAt(y.at) \ TablesAt(y.from)
        /\ y.dropped = TablesAt(y.from) \ TablesAt(y.at)
        /\ y.made \subseteq Table \cup {"alembic_version", "role"}
    BY <1>2, <1>10, <1>11
  <2>4. pc'[r] = "run" /\ job'[r].command = "downgrade"
    BY <1>1
  <2> HIDE DEF x, n
  <2> QED
    BY <2>1, <2>2, <2>3, <2>4 DEF Accounted, TablesAt
<1>14. Grounded(r)'
  <2>1. CommittedRevision' = c
    BY <1>1, VersionIs
  <2>2. c = x.from
    <3>1. CASE x.at # x.from
      BY <1>3, <1>4, <3>1 DEF MInv, Grounded
    <3>2. CASE x.at = x.from
      <4>1. /\ rows = RowOf(c) /\ c \in 0..3 /\ RowOf(n) \subseteq rows
        BY <1>1, <3>2, ChainFacts DEF MInv, Consistent, SeesRow
      <4>2. n \in 1..Latest /\ Chain[n] \in RowOf(c)
        BY <1>3, <4>1, RowFacts, ChainFacts
      <4>3. c # 0
        BY <4>2, RowFacts
      <4>4. c \in 1..Latest /\ RowOf(c) = {Chain[c]}
        BY <4>1, <4>3, RowFacts, ChainFacts
      <4>5. c = n
        BY <4>2, <4>4, ChainFacts
      <4> QED
        BY <3>2, <4>5
    <3> QED
      BY <3>1, <3>2
  <2> QED
    BY <1>2, <2>1, <2>2 DEF Grounded
<1> QED
  BY <1>9, <1>13, <1>14

\* A run keeps its account and its ground in its own steps.
LEMMA OwnStep ==
    ASSUME MInv, NEW r \in Runner, StepOf(r)
    PROVE  Commanded(r)' /\ Accounted(r)' /\ Grounded(r)'
<1> USE DEF MInv
<1>1. CASE Outside(r)
  <2>1. txn'[r] = NoTxn /\ rows' = rows
    BY <1>1 DEF Outside, Release, Undo, Start, Deploy, GiveUp, Accounted
  <2>2. /\ pc'[r] \in {"schema", "idle"}
        /\ pc'[r] = "schema" /\ job'[r].command = "upgrade" =>
              /\ job'[r].goal = job'[r].head
              /\ job'[r].head = 1 => CommittedRevision > 0
    <3>1. CASE Release(r)
      <4>1. PICK h \in Releases : Released(h) /\ Start(r, "upgrade", h, h)
        BY <3>1 DEF Release
      <4>2. /\ pc'[r] = "schema" /\ job'[r].head = h /\ job'[r].goal = h
        BY <4>1 DEF Start, GoTo, TypeOK
      <4>3. h = 1 => CommittedRevision > 0
        BY <4>1 DEF Released
      <4> QED
        BY <4>2, <4>3
    <3>2. CASE Undo(r)
      BY <3>2 DEF Undo, Start, GoTo, TypeOK
    <3>3. CASE Deploy(r) \/ GiveUp(r)
      BY <3>3 DEF Deploy, GiveUp, GoTo, TypeOK
    <3> QED
      BY <1>1, <3>1, <3>2, <3>3 DEF Outside
  <2>3. CommittedRevision' = CommittedRevision
    BY <2>1, VersionIs
  <2>4. Commanded(r)'
    BY <2>2, <2>3 DEF Commanded, Running
  <2> QED
    BY <2>1, <2>2, <2>4, NothingOpen
<1>2. CASE Fails(r)
  <2>1. pc'[r] = "failed" /\ txn'[r] = NoTxn
    BY <1>2, FailsFails DEF Fail, Rollback, GoTo, TypeOK
  <2>2. Commanded(r)'
    BY <2>1 DEF Commanded, Running
  <2> QED
    BY <2>1, <2>2, NothingOpen
<1>3. CASE CreateSchema(r)
  <2>1. /\ pc[r] = "schema" /\ pc'[r] = "begin" /\ txn'[r] = NoTxn
        /\ job' = job /\ rows' = rows /\ "schema" \in objects'
    BY <1>3 DEF CreateSchema, GoTo, TypeOK, Accounted
  <2>2. CommittedRevision' = CommittedRevision
    BY <2>1, VersionIs
  <2>3. Commanded(r)'
    BY <2>1, <2>2 DEF Commanded, Running
  <2> QED
    BY <2>1, <2>3, NothingOpen
<1>4. CASE Begin(r)
  BY <1>4, BeginStep
<1>5. CASE EnsureVersionTable(r)
  BY <1>5, EnsureStep
<1>6. CASE Upgrade(r)
  BY <1>6, UpgradeStep
<1>7. CASE Downgrade(r)
  BY <1>7, DowngradeStep
<1>8. CASE Commit(r)
  <2>1. pc'[r] = "done" /\ txn'[r] = NoTxn
    BY <1>8 DEF Commit, GoTo, TypeOK
  <2>2. Commanded(r)'
    BY <2>1 DEF Commanded, Running
  <2> QED
    BY <2>1, <2>2, NothingOpen
<1> QED
  BY <1>1, <1>2, <1>3, <1>4, <1>5, <1>6, <1>7, <1>8 DEF StepOf

\* A run only gets to change what nobody else has changed.
LEMMA LocksStep ==
    ASSUME MInv, NEW r \in Runner, StepOf(r)
    PROVE  \A p, q \in Runner : Exclusive(p, q)'
<1> USE DEF MInv
<1>1. \E more : /\ txn'[r].locks \subseteq txn[r].locks \cup more
               /\ Free(r, more)
  <2>1. CASE Outside(r) \/ CreateSchema(r)
    <3>1. txn'[r].locks \subseteq txn[r].locks \cup {}
      BY <2>1 DEF Outside, Release, Undo, Start, Deploy, GiveUp, CreateSchema
    <3>2. Free(r, {})
      BY DEF Free
    <3> QED
      BY <3>1, <3>2
  <2>2. CASE Fails(r) \/ Commit(r)
    <3>1. txn'[r].locks \subseteq txn[r].locks \cup {}
      BY <2>2, FailsFails DEF Fail, Rollback, Commit, NoTxn, TypeOK
    <3>2. Free(r, {})
      BY DEF Free
    <3> QED
      BY <3>1, <3>2
  <2>3. CASE Begin(r)
    <3>1. txn'[r].locks \subseteq txn[r].locks \cup {}
      BY <2>3 DEF Begin, TypeOK
    <3>2. Free(r, {})
      BY DEF Free
    <3> QED
      BY <3>1, <3>2
  <2>4. CASE EnsureVersionTable(r)
    <3>1. /\ txn'[r].locks \subseteq txn[r].locks \cup {"alembic_version"}
          /\ Free(r, {"alembic_version"})
      BY <2>4 DEF EnsureVersionTable, TypeOK
    <3> QED
      BY <3>1
  <2>5. CASE Upgrade(r) \/ Downgrade(r)
    <3>1. /\ txn'[r].locks \subseteq txn[r].locks \cup Needs(r)
          /\ Free(r, Needs(r))
      BY <2>5 DEF Upgrade, Downgrade, TypeOK
    <3> QED
      BY <3>1
  <2> QED
    BY <2>1, <2>2, <2>3, <2>4, <2>5 DEF StepOf
<1>2. ASSUME NEW q \in Runner, q # r
      PROVE  txn'[q] = txn[q] /\ txn'[r].locks \cap txn[q].locks = {}
  <2>1. txn'[q] = txn[q]
    BY <1>2, OthersStay
  <2>2. txn[r].locks \cap txn[q].locks = {}
    BY <1>2 DEF Exclusive
  <2>3. PICK more : /\ txn'[r].locks \subseteq txn[r].locks \cup more
                    /\ Free(r, more)
    BY <1>1
  <2>4. more \cap txn[q].locks = {}
    BY <1>2, <2>3 DEF Free
  <2> QED
    BY <2>1, <2>2, <2>3, <2>4
<1> SUFFICES ASSUME NEW p \in Runner, NEW q \in Runner, p # q
             PROVE  txn'[p].locks \cap txn'[q].locks = {}
  BY DEF Exclusive
<1>3. CASE p = r
  BY <1>2, <1>3
<1>4. CASE q = r
  BY <1>2, <1>4
<1>5. CASE p # r /\ q # r
  BY <1>2, <1>5 DEF Exclusive
<1> QED
  BY <1>3, <1>4, <1>5

-----------------------------------------------------------------------------
(* The theorems.                                                           *)

LEMMA InitMInv == Init => MInv
<1> SUFFICES ASSUME Init PROVE MInv
  OBVIOUS
<1>1. PICK n \in Starts :
        /\ objects = IF n = 0 THEN {}
                     ELSE {"schema", "alembic_version"} \cup UpTo(n)
        /\ rows = RowOf(n) /\ serving = n
  BY DEF Init
<1>2. n \in 0..3
  BY <1>1, GoalsAssumption, ChainFacts
<1>3. CommittedRevision = n
  BY <1>1, <1>2, RevisionOfRow, VersionIs, ChainFacts
<1>4. UpTo(n) \subseteq Table \cup {"role"} /\ (n > 0 => "role" \in UpTo(n))
  <2>1. \A k \in 1..n : k = 1 \/ k = 2 \/ k = 3
    BY <1>2
  <2>2. \A k \in 1..n : Creates(k) \subseteq Table \cup {"role"}
    BY <2>1, CreatesFacts DEF Table
  <2>3. n > 0 => 1 \in 1..n /\ "role" \in Creates(1)
    BY <1>2, CreatesFacts
  <2> QED
    BY <2>2, <2>3 DEF UpTo
<1>5. objects \cap Table = TablesAt(n)
  <2>1. CASE n = 0
    BY <1>1, <2>1 DEF TablesAt
  <2>2. CASE n # 0
    <3>1. TablesAt(n) = UpTo(n) \cap Table
      BY <1>2, TablesFacts, ChainFacts
    <3> QED
      BY <1>1, <2>2, <3>1 DEF Table
  <2> QED
    BY <2>1, <2>2
<1>6. objects \subseteq Object
  BY <1>1, <1>4 DEF Object
<1>7. TypeOK
  <2>1. NoTxn \in Txn /\ Latest \in 1..Latest /\ Latest \in 0..Latest
    BY ChainFacts DEF NoTxn, Txn
  <2>2. rows \subseteq Revision /\ serving \in 0..Latest
    BY <1>1, <1>2, RowFacts, ChainFacts
  <2> QED
    <3>1. pc \in [Runner -> Running \cup {"idle", "failed", "done"}]
      BY DEF Init
    <3>2. NoJob \in [command : {"upgrade", "downgrade"}, head : 1..Latest,
                     goal : 0..Latest]
      BY <2>1 DEF NoJob
    <3>3. txn = [r \in Runner |-> NoTxn] /\ job = [r \in Runner |-> NoJob]
          /\ undone \in BOOLEAN
      BY DEF Init
    <3> QED
      BY <1>6, <2>1, <2>2, <3>1, <3>2, <3>3 DEF TypeOK, Txn
<1>8. Consistent
  BY <1>1, <1>2, <1>3, <1>4, <1>5, ChainFacts DEF Consistent
<1>9. ASSUME NEW r \in Runner PROVE Commanded(r) /\ Accounted(r) /\ Grounded(r)
  <2>1. pc[r] = "idle" /\ txn[r] = NoTxn
    BY DEF Init
  <2> QED
    BY <2>1 DEF Commanded, Accounted, Grounded, Running, NoTxn, TablesAt
<1>10. \A q, r \in Runner : Exclusive(q, r)
  BY DEF Init, Exclusive, NoTxn
<1> QED
  BY <1>7, <1>8, <1>9, <1>10 DEF MInv

LEMMA NextMInv == MInv /\ [Next]_vars => MInv'
<1> SUFFICES ASSUME MInv, [Next]_vars PROVE MInv'
  OBVIOUS
<1>1. CASE UNCHANGED vars
  BY <1>1 DEF vars, MInv, TypeOK, Consistent, CommittedRevision, Commanded,
              Accounted, Grounded, Exclusive, OnTheWay, RowOf, TablesAt
<1>2. CASE Next
  <2>1. PICK r \in Runner : StepOf(r)
    BY <1>2, NextIsAStep
  <2>2. ASSUME NEW q \in Runner
        PROVE  Commanded(q)' /\ Accounted(q)' /\ Grounded(q)'
    BY <2>1, Bystander, OwnStep
  <2> QED
    BY <2>1, <2>2, TypeStep, ConsistentStep, LocksStep DEF MInv
<1> QED
  BY <1>1, <1>2

\* The inductive invariant holds throughout.
THEOREM MigrationInvariance == Spec => []MInv
<1> QED
  BY InitMInv, NextMInv, PTL DEF Spec

\* Every variable keeps its type.
THEOREM MigrationTypes == Spec => []TypeOK
<1>1. MInv => TypeOK
  BY DEF MInv
<1> QED
  BY <1>1, MigrationInvariance, PTL

\* alembic_version tells the truth about the tables, however many runs of
\* whatever checkouts meet, fail, wait for each other or are killed.
THEOREM VersionIsTruthful == Spec => []VersionTellsTables
<1>1. MInv => VersionTellsTables
  <2> SUFFICES ASSUME MInv PROVE VersionTellsTables
    OBVIOUS
  <2>1. Cardinality(rows) <= 1
    <3>1. CASE CommittedRevision = 0
      <4>1. rows = {}
        BY <3>1, RowFacts DEF MInv, Consistent
      <4> QED
        BY <4>1, FS_EmptySet
    <3>2. CASE CommittedRevision # 0
      <4>1. CommittedRevision \in 1..Latest
        BY <3>2, ChainFacts DEF MInv, Consistent
      <4>2. rows = {Chain[CommittedRevision]}
        BY <4>1, RowFacts DEF MInv, Consistent
      <4>3. Cardinality(rows) = 1
        BY <4>2, FS_Singleton
      <4> QED
        BY <4>3
    <3> QED
      BY <3>1, <3>2
  <2>2. objects \cap Table = UpTo(CommittedRevision) \cap Table
    BY TablesFacts DEF MInv, Consistent
  <2> QED
    BY <2>1, <2>2 DEF MInv, Consistent, VersionTellsTables
<1> QED
  BY <1>1, MigrationInvariance, PTL

\* As long as nothing is undone the database only gets on.
LEMMA OnlyForward ==
    ASSUME MInv, NEW r \in Runner, StepOf(r), ~undone'
    PROVE  ~undone /\ CommittedRevision <= CommittedRevision'
<1>1. CASE Commit(r)
  <2>1. ~undone /\ job[r].command = "upgrade"
    BY <1>1 DEF Commit, MInv, TypeOK
  <2>2. /\ txn[r].from \in 0..3 /\ txn[r].at \in 0..3
        /\ CommittedRevision \in 0..3
    BY TxnFacts, ChainFacts DEF MInv, Consistent
  <2>3. ~(txn[r].at < txn[r].from)
    BY <2>1 DEF MInv, Accounted
  <2> QED
    BY <1>1, <2>1, <2>2, <2>3, CommitMoves
<1>2. CASE ~Commit(r)
  <2>1. undone' = undone
    BY <1>2, FailsFails
       DEF StepOf, Outside, Release, Undo, Start, Deploy, GiveUp, Fail,
           CreateSchema, Begin, EnsureVersionTable, Upgrade, Downgrade
  <2>2. CommittedRevision' = CommittedRevision
    BY <1>2, ConsistentStep
  <2>3. CommittedRevision \in 0..3
    BY ChainFacts DEF MInv, Consistent
  <2> QED
    BY <2>1, <2>2, <2>3
<1> QED
  BY <1>1, <1>2

LEMMA SuitedStep ==
    ASSUME MInv, MInv', Suited, NEW r \in Runner, StepOf(r)
    PROVE  Suited'
<1> SUFFICES ASSUME ~undone'
             PROVE  /\ serving' <= CommittedRevision'
                    /\ \A q \in Runner :
                        /\ pc'[q] = "run" =>
                              txn'[q].from <= CommittedRevision'
                        /\ pc'[q] = "done" /\ job'[q].command = "upgrade" =>
                              job'[q].head <= CommittedRevision'
  BY DEF Suited
<1> DEFINE c == CommittedRevision  d == CommittedRevision'
<1>1. ~undone /\ c <= d
  BY OnlyForward
<1>2. c \in 0..3 /\ d \in 0..3
  BY ChainFacts DEF MInv, Consistent
<1>3. /\ serving <= c /\ serving \in 0..3
      /\ \A q \in Runner :
            /\ pc[q] = "run" => txn[q].from <= c
            /\ pc[q] = "done" /\ job[q].command = "upgrade" =>
                  job[q].head <= c
            /\ txn[q].from \in 0..3 /\ job[q].head \in 1..3
  BY <1>1, TxnFacts, ChainFacts DEF Suited, MInv, TypeOK
<1> HIDE DEF c, d
<1>4. serving' <= d
  <2>1. CASE Deploy(r)
    BY <1>1, <1>2, <1>3, <2>1 DEF Deploy
  <2>2. CASE ~Deploy(r)
    <3>1. serving' = serving
      BY <2>2, FailsFails
         DEF StepOf, Outside, Release, Undo, Start, GiveUp, Fail, CreateSchema,
             Begin, EnsureVersionTable, Upgrade, Downgrade, Commit
    <3> QED
      BY <1>1, <1>2, <1>3, <3>1
  <2> QED
    BY <2>1, <2>2
<1>5. ASSUME NEW q \in Runner
      PROVE  /\ pc'[q] = "run" => txn'[q].from <= d
             /\ pc'[q] = "done" /\ job'[q].command = "upgrade" =>
                   job'[q].head <= d
  <2>1. CASE pc'[q] = pc[q] /\ job'[q] = job[q] /\ txn'[q].from = txn[q].from
    BY <1>1, <1>2, <1>3, <2>1
  <2>2. CASE q # r
    BY <2>1, <2>2, OthersStay DEF MInv
  <2>3. CASE q = r
    <3> USE DEF MInv, TypeOK, GoTo
    <3>1. CASE Outside(r) \/ Fails(r) \/ CreateSchema(r)
      <4>1. pc'[r] \notin {"run", "done"}
        BY <3>1, FailsFails
           DEF Outside, Release, Undo, Start, Deploy, GiveUp, Fail, CreateSchema
      <4> QED
        BY <2>3, <4>1
    <3>2. CASE Begin(r)
      <4>1. pc'[r] \in {"ensure", "run"} /\ txn'[r].from = c
        BY <3>2 DEF Begin, c
      <4> QED
        BY <1>1, <2>3, <4>1
    <3>3. CASE EnsureVersionTable(r)
      <4>1. pc'[r] = "run" /\ txn'[r].from = txn[r].from /\ txn[r].from = 0
        BY <3>3 DEF EnsureVersionTable, Accounted, NoTxn
      <4> QED
        BY <1>2, <2>3, <4>1
    <3>4. CASE Upgrade(r) \/ Downgrade(r)
      <4>1. pc' = pc /\ job' = job /\ txn'[r].from = txn[r].from
        BY <3>4 DEF Upgrade, Downgrade
      <4> QED
        BY <2>1, <2>3, <4>1
    <3>5. CASE Commit(r)
      <4>1. pc[r] = "run" /\ pc'[r] = "done" /\ job' = job
            /\ txn[r].at = job[r].goal
        BY <3>5 DEF Commit
      <4>2. job[r].command = "upgrade" => job[r].goal = job[r].head
        BY <4>1 DEF Commanded, Running
      <4>3. d = IF txn[r].at = txn[r].from THEN c ELSE txn[r].at
        BY <3>5, CommitMoves DEF c, d
      <4> QED
        BY <1>1, <1>2, <1>3, <2>3, <4>1, <4>2, <4>3
    <3> QED
      BY <3>1, <3>2, <3>3, <3>4, <3>5 DEF StepOf
  <2> QED
    BY <2>2, <2>3
<1> QED
  BY <1>4, <1>5 DEF d

\* Without downgrades the deployed service finds its tables, whichever
\* release is migrating, has failed, or is deployed late.
THEOREM ServiceFindsItsTables == Spec => []ServedTablesExist
<1>1. Init => Suited
  <2> SUFFICES ASSUME Init PROVE Suited
    OBVIOUS
  <2>1. PICK n \in Starts : rows = RowOf(n) /\ serving = n
    BY DEF Init
  <2>2. n \in 0..Latest /\ n \in 0..3
    BY <2>1, GoalsAssumption, ChainFacts
  <2>3. CommittedRevision = n
    BY <2>1, <2>2, RevisionOfRow, VersionIs
  <2>4. \A q \in Runner : pc[q] = "idle"
    BY DEF Init
  <2> QED
    BY <2>1, <2>2, <2>3, <2>4 DEF Suited
<1>2. MInv /\ MInv' /\ Suited /\ [Next]_vars => Suited'
  <2> SUFFICES ASSUME MInv, MInv', Suited, [Next]_vars PROVE Suited'
    OBVIOUS
  <2>1. CASE UNCHANGED vars
    BY <2>1 DEF vars, Suited, CommittedRevision
  <2>2. CASE Next
    BY <2>2, NextIsAStep, SuitedStep
  <2> QED
    BY <2>1, <2>2
<1>3. MInv /\ Suited => ServedTablesExist
  <2> SUFFICES ASSUME MInv, Suited, ~undone
               PROVE  UpTo(serving) \cap Table \subseteq objects
    BY DEF ServedTablesExist
  <2>1. /\ serving \in 0..Latest /\ Latest = 3
        /\ CommittedRevision \in 0..Latest /\ serving <= CommittedRevision
    BY ChainFacts DEF MInv, TypeOK, Consistent, Suited
  <2>2. UpTo(serving) \cap Table = TablesAt(serving)
    BY <2>1, TablesFacts
  <2>3. TablesAt(serving) \subseteq TablesAt(CommittedRevision)
    BY <2>1 DEF TablesAt
  <2>4. TablesAt(CommittedRevision) \subseteq objects
    BY DEF MInv, Consistent
  <2> QED
    BY <2>2, <2>3, <2>4
<1> QED
  BY <1>1, <1>2, <1>3, MigrationInvariance, PTL DEF Spec

\* Nothing but the end of a downgrade takes a table away.
THEOREM ReleasesTakeNothing == Spec => ReleasesOnlyAdd
<1>1. MInv /\ [Next]_vars =>
        [objects \subseteq objects' \/
            \E r \in Runner : job[r].command = "downgrade"
                                 /\ pc[r] = "run" /\ pc'[r] = "done"]_vars
  <2> SUFFICES ASSUME MInv, Next, ~(objects \subseteq objects')
               PROVE  \E r \in Runner : job[r].command = "downgrade"
                                 /\ pc[r] = "run" /\ pc'[r] = "done"
    OBVIOUS
  <2>1. PICK r \in Runner : StepOf(r)
    BY NextIsAStep
  <2>2. Commit(r)
    BY <2>1, DatabaseSteps
  <2>3. /\ pc[r] = "run" /\ pc'[r] = "done"
        /\ objects' = (objects \ txn[r].dropped) \cup txn[r].made
    BY <2>2 DEF Commit, GoTo, Sees, MInv, TypeOK
  <2>4. txn[r].dropped # {}
    BY <2>3
  <2>5. txn[r].at < txn[r].from
    <3>1. /\ txn[r].from \in 0..3 /\ txn[r].at \in 0..3
      BY TxnFacts DEF MInv
    <3>2. txn[r].dropped = TablesAt(txn[r].from) \ TablesAt(txn[r].at)
      BY DEF MInv, Accounted
    <3> QED
      BY <2>4, <3>1, <3>2 DEF TablesAt
  <2>6. job[r].command = "downgrade"
    BY <2>5 DEF MInv, Accounted
  <2> QED
    BY <2>3, <2>6
<1> QED
  BY <1>1, MigrationInvariance, PTL DEF Spec, ReleasesOnlyAdd
=============================================================================
