------------------------------ MODULE DevLauncher ------------------------------
(***************************************************************************)
(* scripts/dev.py: one process that starts uvicorn and the CSS watcher     *)
(* (scripts/build_css.py --watch, which runs the Tailwind CLI), watches    *)
(* them, and takes the rest down when one of them ends or the developer    *)
(* presses Ctrl-C.  The terminal sends Ctrl-C to all four processes, and   *)
(* it may come at any point, a second time included.                       *)
(*                                                                         *)
(* X_... right before X is a faulty variant of X.                          *)
(***************************************************************************)
EXTENDS Naturals, FiniteSets

CONSTANT MaxPresses   \* how often Ctrl-C is pressed

ASSUME PressesAssumption == MaxPresses \in Nat

\* "processes", in the order of the list.
Processes == <<"uvicorn", "css-watch">>
Child == {Processes[n] : n \in 1..2}

VARIABLES
    pc,        \* where main() is; "cut": an exception left it
    at,        \* the entry of Processes that its loop is at
    child,     \* a child process
    signals,   \* the signals it has got
    tailwind,  \* the CLI that the CSS watcher runs
    presses    \* Ctrl-C so far

vars == <<pc, at, child, signals, tailwind, presses>>

Ended == {"done", "cut"}

TypeOK ==
    /\ pc \in {"spawn", "watch", "terminate", "wait"} \cup Ended
    /\ at \in 1..2
    /\ child \in [Child -> {"unborn", "up", "killed", "gone"}]
    /\ signals \in [Child -> SUBSET {"SIGINT", "SIGTERM"}]
    /\ tailwind \in {"unborn", "up", "interrupted", "gone"}
    /\ presses \in 0..MaxPresses

Init ==
    /\ pc = "spawn" /\ at = 1
    /\ child = [c \in Child |-> "unborn"]
    /\ signals = [c \in Child |-> {}]
    /\ tailwind = "unborn"
    /\ presses = 0

Running(c) == child[c] \in {"up", "killed"}

-----------------------------------------------------------------------------
(* main().                                                                 *)

\* The loop goes to the next process, or on to the code after the loop.
Advance(label) ==
    IF at < 2 THEN at' = at + 1 /\ UNCHANGED pc ELSE at' = 1 /\ pc' = label

\* One Popen() of the list.
Spawn ==
    /\ pc = "spawn"
    /\ child' = [child EXCEPT ![Processes[at]] = "up"]
    /\ Advance("watch")
    /\ UNCHANGED <<signals, tailwind, presses>>

\* Popen() raises, and no "try" has begun.
SpawnFails ==
    /\ pc = "spawn"
    /\ pc' = "cut"
    /\ UNCHANGED <<at, child, signals, tailwind, presses>>

Watch_WaitsForAll ==
    /\ pc = "watch"
    /\ \A c \in Child : child[c] = "gone"
    /\ pc' = "terminate"
    /\ UNCHANGED <<at, child, signals, tailwind, presses>>

\* Out of "while all(p.poll() is None ...)".
Watch ==
    /\ pc = "watch"
    /\ \E c \in Child : child[c] = "gone"
    /\ pc' = "terminate"
    /\ UNCHANGED <<at, child, signals, tailwind, presses>>

\* "finally", first loop.
Terminate ==
    /\ pc = "terminate"
    /\ signals' = IF Running(Processes[at])
                  THEN [signals EXCEPT ![Processes[at]] = @ \cup {"SIGTERM"}]
                  ELSE signals
    /\ Advance("wait")
    /\ UNCHANGED <<child, tailwind, presses>>

WaitReturns ==
    /\ pc = "wait"
    /\ child[Processes[at]] = "gone"
    /\ Advance("done")
    /\ UNCHANGED <<child, signals, tailwind, presses>>

WaitTimesOut_Passes ==
    /\ pc = "wait"
    /\ Running(Processes[at])
    /\ Advance("done")
    /\ UNCHANGED <<child, signals, tailwind, presses>>

WaitTimesOut_Never == FALSE /\ UNCHANGED vars

\* Ten seconds are over.
WaitTimesOut ==
    /\ pc = "wait"
    /\ Running(Processes[at])
    /\ child' = [child EXCEPT ![Processes[at]] = "killed"]
    /\ Advance("done")
    /\ UNCHANGED <<signals, tailwind, presses>>

Main ==
    \/ Spawn \/ Watch \/ Terminate \/ WaitReturns \/ WaitTimesOut

\* KeyboardInterrupt is caught in the body of "try" only: before it there is no
\* handler, and in "finally" it breaks off what is left to do.
OnInterrupt ==
    IF pc = "watch" THEN pc' = "terminate" /\ UNCHANGED at
                    ELSE pc' = "cut" /\ UNCHANGED at

CtrlC_LauncherOnly ==
    /\ pc \notin Ended
    /\ presses < MaxPresses
    /\ presses' = presses + 1
    /\ OnInterrupt
    /\ UNCHANGED <<child, signals, tailwind>>

\* Ctrl-C, to every process of the terminal's foreground group.
CtrlC ==
    /\ pc \notin Ended
    /\ presses < MaxPresses
    /\ presses' = presses + 1
    /\ OnInterrupt
    /\ signals' = [c \in Child |->
          IF Running(c) THEN signals[c] \cup {"SIGINT"} ELSE signals[c]]
    /\ tailwind' = IF tailwind = "up" THEN "interrupted" ELSE tailwind
    /\ UNCHANGED child

-----------------------------------------------------------------------------
(* The children.                                                           *)

Gone(c) == child' = [child EXCEPT ![c] = "gone"]

\* uvicorn ends by itself (the port is taken), or for a signal, once its open
\* connections let it: that may be never.
UvicornEnds ==
    /\ Running("uvicorn")
    /\ Gone("uvicorn")
    /\ UNCHANGED <<pc, at, signals, tailwind, presses>>

Dies(c) ==
    /\ child[c] = "killed"
    /\ Gone(c)
    /\ UNCHANGED <<pc, at, signals, tailwind, presses>>

\* build_css.py has written the entry file and copied the fonts.
RunTailwind ==
    /\ child["css-watch"] = "up"
    /\ tailwind = "unborn"
    /\ tailwind' = "up"
    /\ UNCHANGED <<pc, at, child, signals, presses>>

TailwindEnds ==
    /\ tailwind \in {"up", "interrupted"}
    /\ tailwind' = "gone"
    /\ UNCHANGED <<pc, at, child, signals, presses>>

\* subprocess.run returns or raises, or what comes before it raises.
CssWatchEnds ==
    /\ Running("css-watch")
    /\ tailwind \in {"unborn", "gone"}
    /\ Gone("css-watch")
    /\ UNCHANGED <<pc, at, signals, tailwind, presses>>

\* KeyboardInterrupt in subprocess.run, which kills the CLI and raises again.
CssWatchInterrupted ==
    /\ Running("css-watch")
    /\ "SIGINT" \in signals["css-watch"]
    /\ tailwind' = "gone"
    /\ Gone("css-watch")
    /\ UNCHANGED <<pc, at, signals, presses>>

\* Nothing handles SIGTERM: the CLI is left behind.
CssWatchTerminated ==
    /\ Running("css-watch")
    /\ "SIGTERM" \in signals["css-watch"]
    /\ Gone("css-watch")
    /\ UNCHANGED <<pc, at, signals, tailwind, presses>>

Next ==
    \/ Main \/ SpawnFails \/ CtrlC
    \/ UvicornEnds \/ RunTailwind \/ TailwindEnds \/ CssWatchEnds
    \/ CssWatchInterrupted \/ CssWatchTerminated
    \/ \E c \in Child : Dies(c)

Spec == Init /\ [][Next]_vars

\* main() runs on and its timeouts elapse, what is killed dies, and SIGTERM,
\* which it does not handle, and KeyboardInterrupt end build_css.py.  uvicorn
\* is never bound to end.
FairSpec ==
    /\ Spec
    /\ WF_vars(Main)
    /\ \A c \in Child : WF_vars(Dies(c))
    /\ WF_vars(CssWatchTerminated)
    /\ WF_vars(CssWatchInterrupted)

-----------------------------------------------------------------------------
(* Properties.                                                             *)

\* A launcher that gets to its end leaves neither child running, whichever of
\* them ended first, ended meanwhile or took no notice of its signals.
NoChildIsLeft ==
    pc = "done" => \A c \in Child : child[c] \in {"killed", "gone"}

\* No child is killed that was not asked to terminate before.
AskedBeforeKilled ==
    \A c \in Child : child[c] = "killed" => "SIGTERM" \in signals[c]

\* When one child has ended the other ends as well, even when it ignores
\* SIGTERM, unless a Ctrl-C breaks the launcher off while it cleans up.
OneDownAllDown ==
    (pc = "watch" /\ \E c \in Child : child[c] = "gone")
        ~> (pc = "cut" \/ \A c \in Child : child[c] = "gone")

\* Ctrl-C ends the launcher, however long its children take.
CtrlCEndsIt == presses > 0 ~> pc \in Ended

\* A child that still runs after a Ctrl-C has got it, wherever it has left
\* main(): what is left behind has been asked to end.
EveryChildIsTold ==
    presses > 0 => \A c \in Child : Running(c) => "SIGINT" \in signals[c]

\* The CSS watcher does not outlive a Ctrl-C, also when this one, or a second
\* one, breaks main() off before it has terminated anything.
CtrlCEndsTheWatcher == presses > 0 ~> ~Running("css-watch")
=============================================================================
