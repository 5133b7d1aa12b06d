-------------------------- MODULE DevLauncherProofs --------------------------
(***************************************************************************)
(* What the launcher leaves behind, for any number of Ctrl-C.              *)
(***************************************************************************)
EXTENDS DevLauncher, TLAPS

\* A child that has been spawned, that has ended or been told to, that has
\* ended or been killed.
Born(c) == child[c] # "unborn"
Told(c) == child[c] = "gone" \/ "SIGTERM" \in signals[c]
Over(c) == child[c] \in {"killed", "gone"}

\* How far each loop of main() has come.
Loops ==
    /\ pc = "spawn" /\ at = 2 => Born(Processes[1])
    /\ pc \in {"watch", "terminate", "wait", "done"} => \A c \in Child : Born(c)
    /\ pc = "watch" => at = 1
    /\ pc = "terminate" /\ at = 2 => Told(Processes[1])
    /\ pc \in {"wait", "done"} => \A c \in Child : Told(c)
    /\ pc = "wait" /\ at = 2 => Over(Processes[1])
    /\ pc = "done" => \A c \in Child : Over(c)

LInv == TypeOK /\ Loops /\ AskedBeforeKilled

-----------------------------------------------------------------------------
LEMMA Children ==
    /\ Processes[1] = "uvicorn" /\ Processes[2] = "css-watch"
    /\ Child = {"uvicorn", "css-watch"}
    /\ Child = {Processes[1], Processes[2]}
BY DEF Processes, Child

LEMMA LInit == Init => LInv
<1> SUFFICES ASSUME Init PROVE LInv
  OBVIOUS
<1>1. TypeOK
  BY PressesAssumption DEF Init, TypeOK
<1>2. Loops
  BY DEF Init, Loops
<1>3. AskedBeforeKilled
  BY DEF Init, AskedBeforeKilled
<1> QED
  BY <1>1, <1>2, <1>3 DEF LInv

\* A step that moves no loop and takes no signal back, and in which children
\* at most end.
LEMMA ChildStep ==
    ASSUME LInv, pc' = pc, at' = at, signals' = signals,
           presses' = presses,
           child' \in [Child -> {"unborn", "up", "killed", "gone"}],
           tailwind' \in {"unborn", "up", "interrupted", "gone"},
           \A c \in Child : child'[c] = child[c] \/ child'[c] = "gone"
    PROVE  LInv'
<1>1. TypeOK'
  BY DEF LInv, TypeOK, Ended
<1>2. \A c \in Child : /\ Born(c) => Born(c)'
                       /\ Told(c) => Told(c)'
                       /\ Over(c) => Over(c)'
  BY DEF Born, Told, Over
<1>3. Processes[1] \in Child /\ Processes[2] \in Child /\ Processes' = Processes
  BY Children DEF Processes
<1>4. Loops'
  BY <1>2, <1>3 DEF LInv, Loops, Child
<1>5. AskedBeforeKilled'
  BY DEF LInv, AskedBeforeKilled
<1> QED
  BY <1>1, <1>4, <1>5 DEF LInv

LEMMA ChildrensSteps ==
    ASSUME LInv,
           \/ UvicornEnds \/ RunTailwind \/ TailwindEnds \/ CssWatchEnds
           \/ CssWatchInterrupted \/ CssWatchTerminated
           \/ \E c \in Child : Dies(c)
    PROVE  LInv'
<1> USE Children DEF Gone
<1>1. CASE UvicornEnds
  BY <1>1, ChildStep DEF UvicornEnds, LInv, TypeOK
<1>2. CASE RunTailwind
  BY <1>2, ChildStep DEF RunTailwind, LInv, TypeOK
<1>3. CASE TailwindEnds
  BY <1>3, ChildStep DEF TailwindEnds, LInv, TypeOK
<1>4. CASE CssWatchEnds
  BY <1>4, ChildStep DEF CssWatchEnds, LInv, TypeOK
<1>5. CASE CssWatchInterrupted
  BY <1>5, ChildStep DEF CssWatchInterrupted, LInv, TypeOK
<1>6. CASE CssWatchTerminated
  BY <1>6, ChildStep DEF CssWatchTerminated, LInv, TypeOK
<1>7. ASSUME NEW c \in Child, Dies(c) PROVE LInv'
  BY <1>7, ChildStep DEF Dies, LInv, TypeOK
<1> QED
  BY <1>1, <1>2, <1>3, <1>4, <1>5, <1>6, <1>7

\* The loops of main(), one entry of Processes at a time.
LEMMA MainStep ==
    ASSUME LInv, Main \/ SpawnFails
    PROVE  LInv'
<1> USE Children DEF LInv
<1>1. CASE Spawn
  <2>1. TypeOK'
    BY <1>1 DEF Spawn, Advance, TypeOK
  <2>2. Loops'
    BY <1>1 DEF Spawn, Advance, TypeOK, Loops, Born, Processes
  <2>3. AskedBeforeKilled'
    BY <1>1 DEF Spawn, TypeOK, AskedBeforeKilled
  <2> QED
    BY <2>1, <2>2, <2>3
<1>2. CASE SpawnFails
  BY <1>2 DEF SpawnFails, TypeOK, Loops, AskedBeforeKilled, Ended
<1>3. CASE Watch
  BY <1>3 DEF Watch, TypeOK, Loops, AskedBeforeKilled, Born
<1>4. CASE Terminate
  <2> DEFINE c == Processes[at]
  <2>1. c \in Child /\ Born(c)
    BY <1>4 DEF Terminate, TypeOK, Loops
  <2>2. /\ signals' \in [Child -> SUBSET {"SIGINT", "SIGTERM"}]
        /\ \A d \in Child : signals[d] \subseteq signals'[d]
        /\ Running(c) => "SIGTERM" \in signals'[c]
    <3> HIDE DEF c
    <3>1. CASE Running(c)
      <4>1. signals' = [signals EXCEPT ![c] = @ \cup {"SIGTERM"}]
        BY <1>4, <3>1 DEF Terminate, c
      <4> QED
        BY <2>1, <4>1 DEF TypeOK
    <3>2. CASE ~Running(c)
      BY <1>4, <3>2 DEF Terminate, TypeOK, c
    <3> QED
      BY <3>1, <3>2
  <2>3. child'[c] = "gone" \/ "SIGTERM" \in signals'[c]
    BY <1>4, <2>1, <2>2 DEF Terminate, TypeOK, Born, Running
  <2>4. TypeOK'
    BY <1>4, <2>2 DEF Terminate, Advance, TypeOK
  <2>5. \A d \in Child : (Born(d) => Born(d)') /\ (Told(d) => Told(d)')
    BY <1>4, <2>2 DEF Terminate, Born, Told
  <2>6. Loops'
    <3>1. CASE at = 1
      <4>1. child'["uvicorn"] = "gone" \/ "SIGTERM" \in signals'["uvicorn"]
        BY <2>3, <3>1
      <4>2. pc' = "terminate" /\ at' = 2
        BY <1>4, <3>1 DEF Terminate, Advance
      <4>3. \A d \in Child : Born(d)'
        BY <1>4, <2>5 DEF Terminate, Loops
      <4> QED
        BY <4>1, <4>2, <4>3 DEF Loops, Told, Processes, Child
    <3>2. CASE at = 2
      <4>1. child'["css-watch"] = "gone" \/ "SIGTERM" \in signals'["css-watch"]
        BY <2>3, <3>2
      <4>2. pc' = "wait" /\ at' = 1
        BY <1>4, <3>2 DEF Terminate, Advance
      <4>3. \A d \in Child : Born(d)' /\ (d = "uvicorn" => Told(d)')
        BY <1>4, <2>5, <3>2 DEF Terminate, Loops
      <4>4. Told("css-watch")'
        BY <4>1 DEF Told
      <4>5. \A d \in Child : Told(d)'
        BY <4>3, <4>4
      <4> QED
        BY <4>2, <4>3, <4>5 DEF Loops, Child
    <3> QED
      BY <3>1, <3>2 DEF TypeOK
  <2>7. AskedBeforeKilled'
    BY <1>4, <2>2 DEF Terminate, AskedBeforeKilled
  <2> QED
    BY <2>4, <2>6, <2>7
<1>5. CASE WaitReturns
  <2>1. TypeOK'
    BY <1>5 DEF WaitReturns, Advance, TypeOK, Ended
  <2>2. Loops'
    BY <1>5
    DEF WaitReturns, Advance, TypeOK, Loops, Born, Told, Over, Processes
  <2>3. AskedBeforeKilled'
    BY <1>5 DEF WaitReturns, AskedBeforeKilled
  <2> QED
    BY <2>1, <2>2, <2>3
<1>6. CASE WaitTimesOut
  <2>1. TypeOK'
    BY <1>6 DEF WaitTimesOut, Advance, TypeOK, Ended
  <2>2. "SIGTERM" \in signals[Processes[at]]
    BY <1>6 DEF WaitTimesOut, TypeOK, Running, Loops, Told, Processes
  <2>3. AskedBeforeKilled'
    BY <1>6, <2>2 DEF WaitTimesOut, TypeOK, AskedBeforeKilled
  <2>4. Loops'
    BY <1>6, <2>2
    DEF WaitTimesOut, Advance, TypeOK, Loops, Born, Told, Over, Processes
  <2> QED
    BY <2>1, <2>3, <2>4
<1> QED
  BY <1>1, <1>2, <1>3, <1>4, <1>5, <1>6 DEF Main

LEMMA CtrlCStep ==
    ASSUME LInv, CtrlC
    PROVE  LInv'
<1> USE Children DEF LInv
<1>1. TypeOK'
  <2>1. presses' \in 0..MaxPresses
    BY PressesAssumption DEF CtrlC, TypeOK
  <2>2. signals' \in [Child -> SUBSET {"SIGINT", "SIGTERM"}]
    <3>1. \A c \in Child : signals[c] \subseteq {"SIGINT", "SIGTERM"}
      BY DEF TypeOK
    <3> QED
      BY <3>1 DEF CtrlC
  <2>3. /\ pc' \in {"spawn", "watch", "terminate", "wait"} \cup Ended
        /\ at' \in 1..2
    BY DEF CtrlC, OnInterrupt, TypeOK, Ended
  <2>4. tailwind' \in {"unborn", "up", "interrupted", "gone"}
    BY DEF CtrlC, TypeOK
  <2> QED
    BY <2>1, <2>2, <2>3, <2>4 DEF CtrlC, TypeOK
<1>2. \A c \in Child : signals[c] \subseteq signals'[c]
  BY DEF CtrlC
<1>3. AskedBeforeKilled'
  BY <1>2 DEF CtrlC, AskedBeforeKilled
<1>4. Loops'
  BY DEF CtrlC, OnInterrupt, Loops, Born
<1> QED
  BY <1>1, <1>3, <1>4

LEMMA LStep == LInv /\ [Next]_vars => LInv'
<1> SUFFICES ASSUME LInv, [Next]_vars PROVE LInv'
  OBVIOUS
<1>1. CASE Main \/ SpawnFails
  BY <1>1, MainStep
<1>2. CASE CtrlC
  BY <1>2, CtrlCStep
<1>3. CASE \/ UvicornEnds \/ RunTailwind \/ TailwindEnds \/ CssWatchEnds
           \/ CssWatchInterrupted \/ CssWatchTerminated
           \/ \E c \in Child : Dies(c)
  BY <1>3, ChildrensSteps
<1>4. CASE UNCHANGED vars
  BY <1>4, ChildStep DEF vars, LInv, TypeOK
<1> QED
  BY <1>1, <1>2, <1>3, <1>4 DEF Next

\* After a Ctrl-C nothing is started any more.
StartsNoMore == presses > 0 => pc # "spawn"

ToldInv == StartsNoMore /\ EveryChildIsTold

\* Nothing but Popen() makes a child run, and no signal is taken back.
LEMMA ToldStep ==
    ASSUME TypeOK, ToldInv, [Next]_vars
    PROVE  ToldInv'
<1> USE DEF ToldInv, StartsNoMore, EveryChildIsTold
<1>1. CASE Spawn
  <2>1. presses = 0
    BY <1>1 DEF Spawn, TypeOK
  <2> QED
    BY <1>1, <2>1 DEF Spawn
<1>2. CASE CtrlC
  <2>1. pc' # "spawn"
    BY <1>2 DEF CtrlC, OnInterrupt
  <2>2. \A c \in Child : Running(c)' => "SIGINT" \in signals'[c]
    BY <1>2 DEF CtrlC, Running
  <2> QED
    BY <2>1, <2>2
<1>3. ASSUME presses' = presses,
             pc' = "spawn" => pc = "spawn",
             \A c \in Child : /\ Running(c)' => Running(c)
                              /\ signals[c] \subseteq signals'[c]
      PROVE  ToldInv'
  BY <1>3
<1>4. CASE SpawnFails \/ Watch \/ WaitReturns \/ UNCHANGED vars
  <2>1. /\ presses' = presses
        /\ pc' = "spawn" => pc = "spawn"
        /\ child' = child /\ signals' = signals
    BY <1>4 DEF SpawnFails, Watch, WaitReturns, Advance, vars
  <2> QED
    BY <1>3, <2>1 DEF Running
<1>5. CASE Terminate
  <2>1. /\ presses' = presses
        /\ pc' = "spawn" => pc = "spawn"
        /\ child' = child
    BY <1>5 DEF Terminate, Advance
  <2>2. \A c \in Child : signals[c] \subseteq signals'[c]
    BY <1>5 DEF Terminate, TypeOK
  <2> QED
    BY <1>3, <2>1, <2>2 DEF Running
<1>6. CASE WaitTimesOut
  <2>1. /\ presses' = presses
        /\ pc' = "spawn" => pc = "spawn"
        /\ signals' = signals
    BY <1>6 DEF WaitTimesOut, Advance
  <2>2. \A c \in Child : Running(c)' => Running(c)
    BY <1>6 DEF WaitTimesOut, TypeOK, Running
  <2> QED
    BY <1>3, <2>1, <2>2
<1>7. CASE \/ UvicornEnds \/ RunTailwind \/ TailwindEnds \/ CssWatchEnds
           \/ CssWatchInterrupted \/ CssWatchTerminated
           \/ \E c \in Child : Dies(c)
  <2>1. presses' = presses /\ pc' = pc /\ signals' = signals
    BY <1>7 DEF UvicornEnds, RunTailwind, TailwindEnds, CssWatchEnds,
                CssWatchInterrupted, CssWatchTerminated, Dies
  <2>2. child' = child \/ \E d \in Child : Gone(d)
    BY <1>7, Children
       DEF UvicornEnds, RunTailwind, TailwindEnds, CssWatchEnds,
           CssWatchInterrupted, CssWatchTerminated, Dies
  <2>3. \A c \in Child : Running(c)' => Running(c)
    BY <2>2 DEF Gone, Running, TypeOK
  <2> QED
    BY <1>3, <2>1, <2>3
<1> QED
  BY <1>1, <1>2, <1>4, <1>5, <1>6, <1>7 DEF Next, Main

\* How far the launcher's loops have come tells what its children have been
\* told and which of them have ended, through any number of Ctrl-C.
THEOREM LauncherInvariance == Spec => []LInv
<1> QED
  BY LInit, LStep, PTL DEF Spec

\* A launcher that gets to its end leaves no child running.
THEOREM NothingIsLeft == Spec => []NoChildIsLeft
<1>1. LInv => NoChildIsLeft
  BY DEF LInv, Loops, Over, NoChildIsLeft
<1> QED
  BY <1>1, LauncherInvariance, PTL

\* After a Ctrl-C, whatever still runs has got it - also what a main() that was
\* broken off has left behind.
THEOREM NobodyIsLeftUntold == Spec => []EveryChildIsTold
<1>1. Init => ToldInv
  BY DEF Init, ToldInv, StartsNoMore, EveryChildIsTold
<1>2. LInv /\ ToldInv /\ [Next]_vars => ToldInv'
  BY ToldStep DEF LInv
<1>3. ToldInv => EveryChildIsTold
  BY DEF ToldInv
<1> QED
  BY <1>1, <1>2, <1>3, LauncherInvariance, PTL DEF Spec

\* SIGKILL is the last resort.
THEOREM NeverKilledUnasked == Spec => []AskedBeforeKilled
<1>1. LInv => AskedBeforeKilled
  BY DEF LInv
<1> QED
  BY <1>1, LauncherInvariance, PTL
=============================================================================
