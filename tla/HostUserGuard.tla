--------------------------- MODULE HostUserGuard ----------------------------
(***************************************************************************)
(* The before_flush listener of app/models/host_user.py under any handler: *)
(* a session that adds, changes and deletes objects of both mappings in    *)
(* any order, flushes when asked and before every SELECT, goes on after an *)
(* exception, and commits or rolls back.                                   *)
(***************************************************************************)
EXTENDS Naturals

CONSTANTS
    HostUser,   \* objects of the read-only mapping of host.users
    Owned,      \* objects of this service's own mappings
    Value

ASSUME ObjectsAssumption == HostUser \cap Owned = {}

Object == HostUser \cup Owned

VARIABLES
    stored,     \* committed rows: the value of each object that has one
    written,    \* the rows as the session's transaction sees them
    pending     \* what the session would flush: session.new, .dirty, .deleted

vars == <<stored, written, pending>>

Change == [kind : {"new", "dirty", "deleted"}, value : Value]
Partial(D, R) == UNION {[S -> R] : S \in SUBSET D}

TypeOK ==
    /\ stored \in Partial(Object, Value)
    /\ written \in Partial(Object, Value)
    /\ pending \in Partial(Object, Change)
    /\ \A o \in DOMAIN pending :
          pending[o].kind = "new" <=> o \notin DOMAIN written

Nothing == [o \in {} |-> 0]
Put(f, o, v) == [x \in DOMAIN f \cup {o} |-> IF x = o THEN v ELSE f[x]]
Without(f, S) == [x \in DOMAIN f \ S |-> f[x]]

Init ==
    /\ \E S \in SUBSET Object, v \in Value : stored = [o \in S |-> v]
    /\ written = stored /\ pending = Nothing

RejectHostUserWrites_NewOnly ==
    \E o \in HostUser \cap DOMAIN pending : pending[o].kind = "new"

RejectHostUserWrites == HostUser \cap DOMAIN pending # {}

Flushed ==
    LET gone == {o \in DOMAIN pending : pending[o].kind = "deleted"} IN
    [o \in (DOMAIN written \cup DOMAIN pending) \ gone |->
        IF o \in DOMAIN pending THEN pending[o].value ELSE written[o]]

\* The listener raises before anything is sent; what is pending stays so.
Flush ==
    IF RejectHostUserWrites
    THEN UNCHANGED <<written, pending>>
    ELSE written' = Flushed /\ pending' = Nothing

\* flush(), and every SELECT: the session autoflushes.
FlushOrSelect == Flush /\ UNCHANGED stored

Commit ==
    /\ Flush
    /\ stored' = IF RejectHostUserWrites THEN stored ELSE written'

Works(change) == pending' = change /\ UNCHANGED <<stored, written>>

Add(o, v) ==
    /\ o \notin DOMAIN written \cup DOMAIN pending
    /\ Works(Put(pending, o, [kind |-> "new", value |-> v]))

\* Setting an attribute makes an object dirty, also to the value it has.
Assign(o, v) ==
    \/ /\ o \in DOMAIN written \ DOMAIN pending
       /\ Works(Put(pending, o, [kind |-> "dirty", value |-> v]))
    \/ /\ o \in DOMAIN pending
       /\ Works([pending EXCEPT ![o].value = v])

Delete(o) ==
    /\ o \in DOMAIN written
    /\ Works(Put(pending, o, [kind |-> "deleted", value |-> written[o]]))

\* A handler that catches the exception may take an object out and go on.
Expunge(o) == o \in DOMAIN pending /\ Works(Without(pending, {o}))

\* The handler rolls back, or the request ends and its session with it.
Rollback == written' = stored /\ pending' = Nothing /\ UNCHANGED stored

Next ==
    \/ \E o \in Object, v \in Value : Add(o, v) \/ Assign(o, v)
    \/ \E o \in Object : Delete(o) \/ Expunge(o)
    \/ FlushOrSelect \/ Commit \/ Rollback

Spec == Init /\ [][Next]_vars

-----------------------------------------------------------------------------
(* What must hold.                                                         *)

HostRows(f) == [o \in DOMAIN f \cap HostUser |-> f[o]]

\* No sequence of session calls inserts, changes or deletes a row of
\* host.users, not even inside a transaction that is rolled back.
HostTableUntouched ==
    [][/\ HostRows(stored') = HostRows(stored)
       /\ HostRows(written') = HostRows(written)]_vars
=============================================================================
