------------------------- MODULE HostUserGuardProofs -------------------------
(***************************************************************************)
(* The guard of host.users holds for any objects and any values.           *)
(***************************************************************************)
EXTENDS HostUserGuard, TLAPS

\* Inside its transaction the session sees host.users as it is committed.
HostSeenAsStored == HostRows(written) = HostRows(stored)

\* What the listener lets through touches no row of the Host.
LEMMA FlushKeepsHostRows ==
    ASSUME Flush
    PROVE  HostRows(written') = HostRows(written)
<1>1. CASE RejectHostUserWrites
  BY <1>1 DEF Flush
<1>2. CASE ~RejectHostUserWrites
  <2>1. written' = Flushed /\ HostUser \cap DOMAIN pending = {}
    BY <1>2 DEF Flush, RejectHostUserWrites
  <2>2. \A o \in HostUser : o \in DOMAIN Flushed <=> o \in DOMAIN written
    BY <2>1 DEF Flushed
  <2>3. \A o \in HostUser \cap DOMAIN written : Flushed[o] = written[o]
    BY <2>1 DEF Flushed
  <2>4. DOMAIN Flushed \cap HostUser = DOMAIN written \cap HostUser
    BY <2>2
  <2> QED
    BY <2>1, <2>3, <2>4 DEF HostRows
<1> QED
  BY <1>1, <1>2

\* No step writes a row of the Host, committed or not.
LEMMA HostStep ==
    ASSUME HostSeenAsStored, [Next]_vars
    PROVE  HostRows(stored') = HostRows(stored)
             /\ HostRows(written') = HostRows(written)
<1>1. CASE FlushOrSelect
  BY <1>1, FlushKeepsHostRows DEF FlushOrSelect
<1>2. CASE Commit
  <2>1. HostRows(written') = HostRows(written)
    BY <1>2, FlushKeepsHostRows DEF Commit
  <2>2. stored' = stored \/ stored' = written'
    BY <1>2 DEF Commit
  <2> QED
    BY <2>1, <2>2 DEF HostSeenAsStored
<1>3. CASE Rollback
  BY <1>3 DEF Rollback, HostSeenAsStored
<1>4. ASSUME NEW o \in Object, NEW v \in Value, Add(o, v) \/ Assign(o, v)
      PROVE  stored' = stored /\ written' = written
  BY <1>4 DEF Add, Assign, Works
<1>5. ASSUME NEW o \in Object, Delete(o) \/ Expunge(o)
      PROVE  stored' = stored /\ written' = written
  BY <1>5 DEF Delete, Expunge, Works
<1>6. CASE UNCHANGED vars
  BY <1>6 DEF vars
<1> QED
  BY <1>1, <1>2, <1>3, <1>4, <1>5, <1>6 DEF Next

\* No sequence of session calls, with exceptions caught or not, inserts, changes
\* or deletes a row of host.users, not even inside a transaction.
THEOREM GuardHolds == Spec => HostTableUntouched
<1>1. Init => HostSeenAsStored
  BY DEF Init, HostSeenAsStored
<1>2. HostSeenAsStored /\ [Next]_vars => HostSeenAsStored'
  <2> SUFFICES ASSUME HostSeenAsStored, [Next]_vars
               PROVE  HostRows(written') = HostRows(stored')
    BY DEF HostSeenAsStored, HostRows
  <2> QED
    BY HostStep DEF HostSeenAsStored
<1>3. HostSeenAsStored /\ [Next]_vars =>
         [/\ HostRows(stored') = HostRows(stored)
          /\ HostRows(written') = HostRows(written)]_vars
  BY HostStep
<1> QED
  BY <1>1, <1>2, <1>3, PTL DEF Spec, HostTableUntouched
=============================================================================
