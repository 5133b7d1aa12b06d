----------------------------- MODULE Migrations -----------------------------
(***************************************************************************)
(* "alembic upgrade" and "alembic downgrade" as migrations/env.py runs     *)
(* them over migrations/versions, and the releases of deploy.yml, which    *)
(* migrate the database that the revision being replaced still serves.     *)
(*                                                                         *)
(* A run commits CREATE SCHEMA first; everything after it is a single      *)
(* transaction.  Several runs, of the same or of other checkouts, may work *)
(* on one database: each reads what is committed when its statement        *)
(* starts, waits for what another run has touched, and fails where its     *)
(* statement finds something other than it expects.  A run may be killed   *)
(* between any two statements.                                             *)
(*                                                                         *)
(* X_... right before X is a faulty variant of X, as in DocLinks.          *)
(***************************************************************************)
EXTENDS Naturals, FiniteSets, Sequences

CONSTANTS
    Runner,     \* the runs in progress at the same time
    Starts,     \* the revisions, by number, a database may be at to begin with
    Releases,   \* the revisions that checkouts of the repository have as head
    Downgrades  \* the revisions an operator may downgrade to

\* revision = ..., in the order of down_revision.
Chain == <<"0001_create_doc_library_schema", "0002_create_doc_links_table",
           "0003_create_user_preferences">>
Latest == Len(Chain)
Revision == {Chain[n] : n \in 1..Latest}
Table == {"doc_links", "user_preferences"}
Object == {"schema", "alembic_version", "role"} \cup Table

ASSUME GoalsAssumption ==
    /\ Starts \subseteq 0..Latest
    /\ Releases \subseteq 1..Latest
    /\ Downgrades \subseteq 0..(Latest - 1)

\* What the upgrade() of a revision creates; a revision's downgrade() drops it.
Creates(n) ==
    CASE n = 1 -> {"role"}
      [] n = 2 -> {"doc_links"}
      [] n = 3 -> {"user_preferences"}

\* What all revisions up to n have created.
UpTo(n) == UNION {Creates(k) : k \in 1..n}

\* The row of alembic_version for a revision; there is none for the base.
RowOf(n) == {Chain[k] : k \in {n} \ {0}}

VARIABLES
    objects,   \* what exists, committed
    rows,      \* the rows of alembic_version, committed
    pc,        \* where a run is
    job,       \* its command, the checkout's newest revision and the target
    txn,       \* its open transaction
    serving,   \* the revision that the deployed service was built with
    undone     \* history: whether a downgrade has taken effect

vars == <<objects, rows, pc, job, txn, serving, undone>>

\* "from" is the revision read from alembic_version, "at" the one reached.
NoTxn == [made |-> {}, dropped |-> {}, from |-> 0, at |-> 0, locks |-> {}]
NoJob == [command |-> "upgrade", head |-> Latest, goal |-> Latest]

Running == {"schema", "begin", "ensure", "run"}

TypeOK ==
    /\ objects \subseteq Object
    /\ rows \subseteq Revision
    /\ pc \in [Runner -> Running \cup {"idle", "failed", "done"}]
    /\ job \in [Runner -> [command : {"upgrade", "downgrade"},
                           head : 1..Latest, goal : 0..Latest]]
    /\ txn \in [Runner -> [made : SUBSET Object, dropped : SUBSET Object,
                           from : 0..Latest, at : 0..Latest,
                           locks : SUBSET (Object \cup Revision)]]
    /\ serving \in 0..Latest
    /\ undone \in BOOLEAN

\* Nothing but the Host's own schema, or what an earlier release has left.
Init ==
    \E n \in Starts :
        /\ objects = IF n = 0 THEN {} ELSE {"schema", "alembic_version"}
                                             \cup UpTo(n)
        /\ rows = RowOf(n)
        /\ pc = [r \in Runner |-> "idle"]
        /\ job = [r \in Runner |-> NoJob]
        /\ txn = [r \in Runner |-> NoTxn]
        /\ serving = n /\ undone = FALSE

-----------------------------------------------------------------------------
GoTo(r, label) == pc' = [pc EXCEPT ![r] = label]

\* What a statement of r sees: what is committed and what r itself has done.
Sees(r) == (objects \ txn[r].dropped) \cup txn[r].made

\* The row it is about to replace is its own or is committed.
SeesRow(r) ==
    txn[r].at = txn[r].from => RowOf(txn[r].at) \subseteq rows

\* Nobody else has an uncommitted change of one of these.
Free(r, things) == \A q \in Runner \ {r} : things \cap txn[q].locks = {}

CommittedRevision ==
    IF rows = {} THEN 0 ELSE CHOOSE n \in 1..Latest : Chain[n] \in rows

Start_Relative(r, command, head, goal) ==
    /\ pc[r] = "idle"
    /\ GoTo(r, "schema")
    /\ job' = [job EXCEPT ![r] = [command |-> command, head |-> head,
                                 goal |-> CommittedRevision + 1]]
    /\ UNCHANGED <<objects, rows, txn, serving, undone>>

\* "alembic upgrade head" or "alembic downgrade <goal>" in a checkout.
Start(r, command, head, goal) ==
    /\ pc[r] = "idle"
    /\ GoTo(r, "schema")
    /\ job' = [job EXCEPT ![r] = [command |-> command,
                                 head |-> head, goal |-> goal]]
    /\ UNCHANGED <<objects, rows, txn, serving, undone>>

CreateSchema_Anew(r) ==
    /\ pc[r] = "schema"
    /\ objects' = {"schema"}
    /\ GoTo(r, "begin")
    /\ UNCHANGED <<rows, job, txn, serving, undone>>

\* CREATE SCHEMA IF NOT EXISTS, and its commit.
CreateSchema(r) ==
    /\ pc[r] = "schema"
    /\ objects' = objects \cup {"schema"}
    /\ GoTo(r, "begin")
    /\ UNCHANGED <<rows, job, txn, serving, undone>>

Rollback_LeavesLocks(r) == txn' = [txn EXCEPT ![r].made = {}]

\* The connection closes: what was not committed is gone.
Rollback(r) == txn' = [txn EXCEPT ![r] = NoTxn]

Fail(r) ==
    /\ GoTo(r, "failed")
    /\ Rollback(r)
    /\ UNCHANGED <<objects, rows, job, serving, undone>>

\* Alembic reads the current revision.  It must be one of the checkout's own.
Begin(r) ==
    /\ pc[r] = "begin"
    /\ CommittedRevision <= job[r].head
    /\ txn' = [txn EXCEPT ![r].from = CommittedRevision,
                          ![r].at = CommittedRevision]
    /\ GoTo(r, IF CommittedRevision = 0 THEN "ensure" ELSE "run")
    /\ UNCHANGED <<objects, rows, job, serving, undone>>

UnknownRevision(r) ==
    /\ pc[r] = "begin"
    /\ CommittedRevision > job[r].head
    /\ Fail(r)

\* The version table is created when it is missing.
EnsureVersionTable(r) ==
    /\ pc[r] = "ensure"
    /\ Free(r, {"alembic_version"})
    /\ txn' = IF "alembic_version" \in objects THEN txn
              ELSE [txn EXCEPT ![r].made = {"alembic_version"},
                               ![r].locks = {"alembic_version"}]
    /\ GoTo(r, "run")
    /\ UNCHANGED <<objects, rows, job, serving, undone>>

AtStep(r, command) == pc[r] = "run" /\ job[r].command = command

\* CREATE ROLE is guarded by IF NOT EXISTS, CREATE TABLE is not; then the row
\* of alembic_version is inserted or updated, and exactly one must be.
UpgradeApplies(r, n) ==
    /\ Creates(n) \cap Table \cap Sees(r) = {}
    /\ SeesRow(r)
    /\ Chain[n] \notin rows

Touched(r, n) == Creates(n) \cup RowOf(n) \cup RowOf(txn[r].at)

\* What the next statement of r waits for when another run has changed it.
Needs(r) ==
    CASE pc[r] = "ensure" -> {"alembic_version"}
      [] AtStep(r, "upgrade") /\ txn[r].at < job[r].goal ->
            Touched(r, txn[r].at + 1)
      [] AtStep(r, "downgrade") /\ txn[r].at > job[r].goal /\ txn[r].at > 1 ->
            Touched(r, txn[r].at - 1) \cup Creates(txn[r].at)
      [] OTHER -> {}

Upgrade(r) ==
    LET n == txn[r].at + 1 IN
    /\ AtStep(r, "upgrade") /\ txn[r].at < job[r].goal
    /\ Free(r, Needs(r))
    /\ UpgradeApplies(r, n)
    /\ txn' = [txn EXCEPT ![r].made = @ \cup Creates(n), ![r].at = n,
                          ![r].locks = @ \cup Needs(r)]
    /\ UNCHANGED <<objects, rows, pc, job, serving, undone>>

UpgradeFails(r) ==
    /\ AtStep(r, "upgrade") /\ txn[r].at < job[r].goal
    /\ Free(r, Needs(r))
    /\ ~UpgradeApplies(r, txn[r].at + 1)
    /\ Fail(r)

\* DROP TABLE, and the row of alembic_version goes back by one.
Downgrade(r) ==
    LET n == txn[r].at IN
    /\ AtStep(r, "downgrade") /\ n > job[r].goal /\ n > 1
    /\ Free(r, Needs(r))
    /\ Creates(n) \subseteq Sees(r) /\ SeesRow(r)
    /\ txn' = [txn EXCEPT ![r].dropped = @ \cup Creates(n), ![r].at = n - 1,
                          ![r].locks = @ \cup Needs(r)]
    /\ UNCHANGED <<objects, rows, pc, job, serving, undone>>

\* Alembic refuses a target above the current revision.  DROP SCHEMA of the
\* first revision is without CASCADE and the schema holds at least Alembic's
\* own version table, which Alembic never drops.
DowngradeFails(r) ==
    LET n == txn[r].at IN
    /\ AtStep(r, "downgrade")
    /\ \/ n < job[r].goal
       \/ n = 1 /\ job[r].goal = 0
       \/ /\ n > job[r].goal /\ n > 1
          /\ Free(r, Needs(r))
          /\ ~(Creates(n) \subseteq Sees(r) /\ SeesRow(r))
    /\ Fail(r)

\* Two transactions that wait for each other: Postgres ends one of them.
DeadlockDetected(r) ==
    /\ \E q \in Runner \ {r} : /\ Needs(r) \cap txn[q].locks # {}
                              /\ Needs(q) \cap txn[r].locks # {}
    /\ Fail(r)

\* The end of "with context.begin_transaction()".
Commit(r) ==
    /\ pc[r] = "run"
    /\ txn[r].at = job[r].goal
    /\ objects' = Sees(r)
    /\ rows' = IF txn[r].at = txn[r].from THEN rows
               ELSE (rows \ RowOf(txn[r].from)) \cup RowOf(txn[r].at)
    /\ GoTo(r, "done")
    /\ txn' = [txn EXCEPT ![r] = NoTxn]
    /\ undone' = (undone \/ job[r].command = "downgrade")
    /\ UNCHANGED <<job, serving>>

Kill_Autocommit(r) ==
    /\ pc[r] \in Running
    /\ GoTo(r, "failed")
    /\ objects' = Sees(r)
    /\ Rollback(r)
    /\ UNCHANGED <<rows, job, serving, undone>>

Kill(r) ==
    /\ pc[r] \in Running
    /\ Fail(r)

Deploy_WithoutTestJob(r) ==
    /\ pc[r] \in Running \cup {"done"}
    /\ job[r].command = "upgrade"
    /\ serving' = job[r].head
    /\ UNCHANGED <<objects, rows, pc, job, txn, undone>>

\* deploy-prod needs test, which migrates.  The old revision serves till then.
Deploy(r) ==
    /\ pc[r] = "done"
    /\ job[r].command = "upgrade"
    /\ serving' = job[r].head
    /\ GoTo(r, "idle")
    /\ UNCHANGED <<objects, rows, job, txn, undone>>

\* The job is over: a downgrade has no deployment, a later step of the test
\* job fails, or the run itself has failed.
GiveUp(r) ==
    /\ pc[r] \in {"failed", "done"}
    /\ GoTo(r, "idle")
    /\ UNCHANGED <<objects, rows, job, txn, serving, undone>>

Progress(r) ==
    \/ CreateSchema(r) \/ Begin(r) \/ UnknownRevision(r)
    \/ EnsureVersionTable(r) \/ Upgrade(r) \/ UpgradeFails(r)
    \/ Downgrade(r) \/ DowngradeFails(r) \/ DeadlockDetected(r)
    \/ Commit(r)

\* The checkout of the first revision is not released on an empty database: see
\* the README for what happens when it meets a later one there.
Released(h) == h > 1 \/ CommittedRevision > 0

Next ==
    \E r \in Runner :
        \/ \E h \in Releases : Released(h) /\ Start(r, "upgrade", h, h)
        \/ \E g \in Downgrades : Start(r, "downgrade", Latest, g)
        \/ CreateSchema(r) \/ Begin(r) \/ UnknownRevision(r)
        \/ EnsureVersionTable(r) \/ Upgrade(r) \/ UpgradeFails(r)
        \/ Downgrade(r) \/ DowngradeFails(r) \/ DeadlockDetected(r)
        \/ Commit(r) \/ Kill(r) \/ Deploy(r) \/ GiveUp(r)

Spec == Init /\ [][Next]_vars

\* A run that can go on does, and one that waits for a lock gets it before
\* those that come later, since Postgres grants locks in order.  Nobody has to
\* start a run, or to deploy.
FairSpec == Spec /\ \A r \in Runner : SF_vars(Progress(r))

-----------------------------------------------------------------------------
(* Properties.                                                             *)

\* alembic_version tells the truth about the schema, whatever runs met, failed
\* or were killed: it holds at most one revision, exactly the tables of that
\* revision exist, and what the first one creates exists from then on.
VersionTellsTables ==
    /\ Cardinality(rows) <= 1
    /\ objects \cap Table = UpTo(CommittedRevision) \cap Table
    /\ CommittedRevision > 0 =>
          {"schema", "alembic_version", "role"} \subseteq objects
    /\ "alembic_version" \in objects => "schema" \in objects

\* As long as nobody downgrades, the deployed service finds the tables it was
\* built with, also while another release migrates and when an older checkout is
\* deployed late.
ServedTablesExist ==
    ~undone => UpTo(serving) \cap Table \subseteq objects

\* A release never takes a table away, with the links that are in it, also when
\* it meets an operator's downgrade: only that one's own end does.
ReleasesOnlyAdd ==
    [][objects \subseteq objects' \/
          \E r \in Runner : job[r].command = "downgrade"
                               /\ pc[r] = "run" /\ pc'[r] = "done"]_vars

\* Runs that wait for each other's changes come to an end.
EveryRunEnds ==
    \A r \in Runner : pc[r] \in Running ~> pc[r] \notin Running
=============================================================================
