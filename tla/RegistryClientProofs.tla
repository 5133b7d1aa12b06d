------------------------ MODULE RegistryClientProofs ------------------------
(***************************************************************************)
(* Theorems of RegistryClient, for every setting of the timeouts.          *)
(*                                                                         *)
(* RInv is inductive: TypeOK; Spaced, on the ages of the token threads;    *)
(* and Wired, on which source is read and written and what the task knows  *)
(* of it.  Each is shown to be kept by every action, in that order.        *)
(***************************************************************************)
EXTENDS RegistryClient, FiniteSetTheorems, TLAPS

USE SettingsAssumption DEF Self, Version, Apps, NoReply, NoSource, Source,
    Service, Label, Awaiting, environment, process, nav, task

\* The initial states satisfy the invariant.
LEMMA InitRInv == Init => RInv
  BY DEF Init, RInv, TypeOK, Spaced, Wired, ListApps, Threads, Gap

\* A process that has ended leaves nothing behind.
LEMMA OffRInv ==
    ASSUME TypeOK, ProcessIsOff, UNCHANGED <<environment, provider>>
    PROVE  RInv'
  <1>1. UNCHANGED hostVersion /\ UNCHANGED prompt /\ UNCHANGED provider
    OBVIOUS
  <1>2. TypeOK'
    BY <1>1 DEF TypeOK, ProcessIsOff
  <1>3. Spaced'
    BY <1>1 DEF ProcessIsOff, Spaced, Threads
  <1>4. Wired'
    BY <1>1 DEF TypeOK, ProcessIsOff, Wired
  <1> QED
    BY <1>2, <1>3, <1>4 DEF RInv

-----------------------------------------------------------------------------
(* The types.                                                              *)

LEMMA NextType ==
    ASSUME RInv, [Next]_vars
    PROVE  TypeOK'
  <1>1. CASE Import
    BY <1>1 DEF RInv, TypeOK, Import, ConfigureSource
  <1>2. CASE Lifespan
    BY <1>2 DEF RInv, TypeOK, Lifespan, ConfigureSource
  <1>3. CASE Shutdown
    BY <1>3 DEF RInv, TypeOK, Shutdown
  <1>4. CASE CancelTask
    BY <1>4 DEF RInv, TypeOK, Spaced, CancelTask, Threads
  <1>5. CASE CloseClient
    BY <1>5 DEF RInv, TypeOK, CloseClient
  <1>6. CASE Exit \/ Kill
    BY <1>6, OffRInv DEF RInv, Exit, Kill
  <1>7. CASE StartAttempt
    BY <1>7 DEF RInv, TypeOK, StartAttempt
  <1>8. CASE TokenArrives
    BY <1>8 DEF RInv, TypeOK, TokenArrives
  <1>9. CASE TokenFails
    BY <1>9 DEF RInv, TypeOK, TokenFails, FetchFails, Sleep
  <1>10. CASE TokenTimesOut
    BY <1>10 DEF RInv, TypeOK, Spaced, TokenTimesOut, FetchFails, Sleep,
                 Threads, TaskAt
  <1>11. CASE HostAnswers
    BY <1>11 DEF RInv, TypeOK, HostAnswers
  <1>12. CASE GetFails
    BY <1>12 DEF RInv, TypeOK, GetFails, FetchFails, Sleep
  <1>13. CASE Refreshed
    BY <1>13 DEF RInv, TypeOK, Wired, Refreshed, Sleep, TaskAt
  <1>14. CASE ThreadEnds
    BY <1>14 DEF RInv, TypeOK, ThreadEnds
  <1>15. CASE Tick
    <2>1. abandoned' \subseteq 0..ThreadLife
      BY <1>15 DEF RInv, TypeOK, Tick, Threads
    <2>2. waited' \in 0..(Interval + ThreadLife)
      BY <1>15 DEF RInv, TypeOK, Tick, Threads
    <2> QED
      BY <1>15, <2>1, <2>2 DEF RInv, TypeOK, Tick
  <1>16. CASE PublishRegistry
    BY <1>16 DEF RInv, TypeOK, PublishRegistry
  <1>17. CASE ServicesChange
    BY <1>17 DEF RInv, TypeOK, ServicesChange
  <1>18. CASE UNCHANGED vars
    BY <1>18 DEF RInv, TypeOK, vars
  <1> QED
    BY <1>1, <1>2, <1>3, <1>4, <1>5, <1>6, <1>7, <1>8, <1>9, <1>10, <1>11,
       <1>12, <1>13, <1>14, <1>15, <1>16, <1>17, <1>18 DEF Next

-----------------------------------------------------------------------------
(* The ages of the threads.                                                *)

LEMMA NextSpaced ==
    ASSUME RInv, [Next]_vars
    PROVE  Spaced'
  <1> USE DEF Spaced, Threads, Gap
  <1>0. TypeOK /\ Spaced /\ Wired
    BY DEF RInv
  <1>1. CASE Import
    BY <1>0, <1>1 DEF Wired, Import
  <1>2. CASE Lifespan
    BY <1>0, <1>2 DEF Wired, Lifespan
  <1>3. CASE Shutdown \/ CloseClient \/ HostAnswers \/ PublishRegistry
                \/ ServicesChange \/ UNCHANGED vars
    BY <1>0, <1>3 DEF Shutdown, CloseClient, HostAnswers, PublishRegistry,
                      ServicesChange, vars
  <1>4. CASE CancelTask
    BY <1>0, <1>4 DEF TypeOK, CancelTask
  <1>5. CASE Exit \/ Kill
    BY <1>0, <1>5, OffRInv DEF RInv, Exit, Kill
  <1>6. CASE StartAttempt
    BY <1>0, <1>6 DEF TypeOK, StartAttempt, TaskAt
  <1>7. CASE TokenArrives
    BY <1>0, <1>7 DEF TypeOK, TokenArrives, TaskAt
  <1>8. CASE TokenFails
    BY <1>0, <1>8 DEF TypeOK, TokenFails, FetchFails, Sleep, TaskAt
  <1>9. CASE TokenTimesOut
    BY <1>0, <1>9 DEF TypeOK, TokenTimesOut, FetchFails, Sleep, TaskAt
  <1>10. CASE GetFails
    BY <1>0, <1>10 DEF TypeOK, GetFails, FetchFails, Sleep, TaskAt
  <1>11. CASE Refreshed
    BY <1>0, <1>11 DEF TypeOK, Refreshed, Sleep, TaskAt
  <1>12. CASE ThreadEnds
    BY <1>0, <1>12 DEF TypeOK, ThreadEnds
  <1>13. CASE Tick
    BY <1>0, <1>13 DEF TypeOK, Tick
  <1> QED
    BY <1>1, <1>2, <1>3, <1>4, <1>5, <1>6, <1>7, <1>8, <1>9, <1>10, <1>11,
       <1>12, <1>13 DEF Next

-----------------------------------------------------------------------------
(* What the task knows of what is served.                                  *)

LEMMA NextWired ==
    ASSUME RInv, [Next]_vars
    PROVE  Wired'
  <1> USE DEF Wired, ListApps
  <1>0. TypeOK /\ Spaced /\ Wired
    BY DEF RInv
  <1>1. CASE Import
    BY <1>0, <1>1 DEF TypeOK, Import, ConfigureSource
  <1>2. CASE Lifespan
    BY <1>0, <1>2 DEF TypeOK, Lifespan, ConfigureSource
  <1>3. CASE Shutdown
    BY <1>0, <1>3 DEF TypeOK, Shutdown
  <1>4. CASE CancelTask
    BY <1>0, <1>4 DEF TypeOK, CancelTask
  <1>5. CASE CloseClient
    BY <1>0, <1>5 DEF TypeOK, CloseClient
  <1>6. CASE Exit \/ Kill
    BY <1>0, <1>6, OffRInv DEF RInv, Exit, Kill
  <1>7. CASE StartAttempt
    BY <1>0, <1>7 DEF TypeOK, StartAttempt, TaskAt
  <1>8. CASE TokenArrives
    BY <1>0, <1>8 DEF TypeOK, TokenArrives, TaskAt
  <1>9. CASE TokenFails \/ TokenTimesOut \/ GetFails
    BY <1>0, <1>9 DEF TypeOK, TokenFails, TokenTimesOut, GetFails, FetchFails,
                      Sleep, TaskAt
  <1>10. CASE HostAnswers
    BY <1>0, <1>10 DEF TypeOK, HostAnswers
  <1>11. CASE Refreshed
    BY <1>0, <1>11 DEF TypeOK, Refreshed, Sleep, TaskAt
  <1>12. CASE ThreadEnds \/ Tick \/ ServicesChange \/ UNCHANGED vars
    BY <1>0, <1>12 DEF TypeOK, ThreadEnds, Tick, ServicesChange, vars
  <1>13. CASE PublishRegistry
    BY <1>0, <1>13 DEF TypeOK, PublishRegistry
  <1> QED
    BY <1>1, <1>2, <1>3, <1>4, <1>5, <1>6, <1>7, <1>8, <1>9, <1>10, <1>11,
       <1>12, <1>13 DEF Next

\* The invariant holds in every state of every behaviour.
THEOREM RegistryInvariance == Spec => []RInv
  <1>1. RInv /\ [Next]_vars => RInv'
    BY NextType, NextSpaced, NextWired DEF RInv
  <1> QED
    BY InitRInv, <1>1, PTL DEF Spec
-----------------------------------------------------------------------------
(* The theorems.                                                           *)

\* Every variable keeps its type: a token thread is never older than
\* google-auth allows, and a task never waits longer than its sleep.
THEOREM RegistryTypes == Spec => []TypeOK
  <1>1. RInv => TypeOK
    BY DEF RInv
  <1> QED
    BY RegistryInvariance, <1>1, PTL

\* The log lines of _refresh_loop tell what pages are rendered from.
THEOREM LogIsTruthful == Spec => []LogTellsWhatIsServed
  <1>1. RInv => LogTellsWhatIsServed
    BY DEF RInv, TypeOK, Wired, LogTellsWhatIsServed, ListApps
  <1> QED
    BY RegistryInvariance, <1>1, PTL

\* stop_registry_refresh_task closes the client only when nothing uses it.
THEOREM ClientOutlivesTask == Spec => []NoFetchOnClosedClient
  <1>1. RInv => NoFetchOnClosedClient
    BY DEF RInv, TypeOK, Wired, NoFetchOnClosedClient
  <1> QED
    BY RegistryInvariance, <1>1, PTL

\* What an instance shows never goes back while it serves: the only action
\* that changes it brings a reply at least as new.
THEOREM NavOnlyAdvances == Spec => NavNeverDegrades
  <1>1. ASSUME RInv, [Next]_vars, phase = "serving", phase' = "serving"
        PROVE  ListApps' >= ListApps
    <2> USE <1>1 DEF ListApps
    <2>0. ListApps \in Int
      BY DEF RInv, TypeOK, Wired
    <2>1. CASE Refreshed
      BY <2>1, <2>0 DEF RInv, TypeOK, Wired, Refreshed, TaskAt
    <2>2. CASE Import \/ Lifespan \/ Shutdown \/ CancelTask \/ CloseClient
                  \/ Exit \/ Kill
      BY <2>2 DEF Import, Lifespan, Shutdown, CancelTask, CloseClient, Exit,
                  Kill, ProcessIsOff
    <2>3. CASE StartAttempt \/ TokenArrives \/ TokenFails \/ TokenTimesOut
                  \/ HostAnswers \/ GetFails \/ ThreadEnds \/ Tick
                  \/ PublishRegistry \/ ServicesChange \/ UNCHANGED vars
      BY <2>3, <2>0 DEF StartAttempt, TokenArrives, TokenFails, TokenTimesOut,
           HostAnswers, GetFails, FetchFails, ThreadEnds, Tick,
           PublishRegistry, ServicesChange, vars
    <2> QED
      BY <2>1, <2>2, <2>3 DEF Next
  <1>2. RInv /\ RInv' /\ [Next]_vars
          => [phase = "serving" /\ phase' = "serving"
                => ListApps' >= ListApps]_vars
    BY <1>1
  <1> QED
    BY RegistryInvariance, <1>2, PTL DEF Spec, NavNeverDegrades

\* Numbers that lie at least g apart have different quotients by g.
LEMMA QuotientsDiffer ==
    ASSUME NEW g \in Nat \ {0}, NEW a \in Nat, NEW b \in Nat, a + g <= b
    PROVE  a \div g < b \div g
  <1> DEFINE p == a \div g
             q == b \div g
  <1>1. p \in Nat /\ q \in Nat
    OBVIOUS
  <1>2. a = g * p + (a % g) /\ b = g * q + (b % g)
    OBVIOUS
  <1>3. a % g \in 0..(g - 1) /\ b % g \in 0..(g - 1)
    OBVIOUS
  <1>4. g * p + g < g * q + g
    BY <1>1, <1>2, <1>3
  <1> HIDE DEF p, q
  <1>5. ASSUME q <= p PROVE FALSE
    <2>1. PICK d \in Nat : p = q + d
      BY <1>1, <1>5
    <2>2. g * p = g * q + g * d /\ g * d >= 0
      BY <2>1, <1>1
    <2> QED
      BY <1>4, <2>2, <1>1
  <1> QED
    BY <1>1, <1>5 DEF p, q

\* The quotients also keep their order.
LEMMA QuotientsGrow ==
    ASSUME NEW g \in Nat \ {0}, NEW a \in Nat, NEW b \in Nat, a <= b
    PROVE  a \div g <= b \div g
  OBVIOUS

\* However the services behave, no more token threads are alive at once than
\* attempts fit into the life of a thread.
THEOREM ThreadsStayFew == Spec => []FewThreads
  <1>1. ASSUME RInv PROVE FewThreads
    <2> DEFINE T == 0..(ThreadLife \div Gap)
               f == [a \in Threads |-> a \div Gap]
    <2>1. Gap \in Nat \ {0}
      BY DEF Gap
    <2>2. Threads \subseteq 0..ThreadLife
      BY <1>1 DEF RInv, TypeOK, Spaced, Threads
    <2>3. \A a, b \in Threads : a < b => a + Gap <= b
      BY <1>1, <2>1 DEF RInv, TypeOK, Spaced, Threads
    <2>4. ThreadLife \div Gap \in Nat
      BY <2>1
    <2>5. f \in [Threads -> T]
      <3>1. SUFFICES ASSUME NEW a \in Threads PROVE a \div Gap \in T
        OBVIOUS
      <3>2. a \in Nat /\ a <= ThreadLife
        BY <2>2
      <3>3. a \div Gap <= ThreadLife \div Gap
        BY <3>2, <2>1, QuotientsGrow
      <3>4. a \div Gap \in Nat
        BY <3>2, <2>1
      <3> QED
        BY <3>3, <3>4, <2>4
    <2>6. ASSUME NEW a \in Threads, NEW b \in Threads, a < b
          PROVE  f[a] # f[b]
      <3>1. a \in Nat /\ b \in Nat /\ a + Gap <= b
        BY <2>2, <2>3, <2>6
      <3>2. a \div Gap < b \div Gap
        BY <3>1, <2>1, QuotientsDiffer
      <3>3. a \div Gap \in Nat /\ b \div Gap \in Nat
        BY <3>1, <2>1
      <3> QED
        BY <3>2, <3>3
    <2> HIDE DEF f
    <2>7. ASSUME NEW a \in Threads, NEW b \in Threads, f[a] = f[b]
          PROVE  a = b
      <3>1. a \in Nat /\ b \in Nat
        BY <2>2
      <3> QED
        BY <3>1, <2>6, <2>7
    <2>8. f \in Injection(Threads, T)
      BY <2>5, <2>7 DEF Injection, IsInjective
    <2>9. IsFiniteSet(T) /\ Cardinality(T) = (ThreadLife \div Gap) + 1
      BY <2>4, FS_Interval
    <2>10. Cardinality(Threads) <= Cardinality(T)
      BY <2>8, <2>9, FS_Injection
    <2> QED
      BY <2>9, <2>10 DEF FewThreads, Gap
  <1> QED
    BY RegistryInvariance, <1>1, PTL
=============================================================================
