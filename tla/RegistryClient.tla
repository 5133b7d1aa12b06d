--------------------------- MODULE RegistryClient ---------------------------
(***************************************************************************)
(* How one instance of the service learns which apps its navigation shows: *)
(* app/core/registry.py, the lifespan of app/main.py and the settings of   *)
(* app/core/config.py that steer it.  A background task asks the Host for  *)
(* its registry again and again; until the first answer, and whenever the  *)
(* Host cannot be reached, pages are rendered from what is cached.         *)
(*                                                                         *)
(* The event loop runs the task, the shutdown and the page renders one at  *)
(* a time; what interleaves are the awaits of the task with the metadata   *)
(* server, the Host, the thread that fetches a token, the clock, and the   *)
(* platform that stops the instance.  Timers may fire late by any amount,  *)
(* as they do on an instance that gets no CPU between requests.            *)
(*                                                                         *)
(* X_... right before X is a faulty variant of X, as in DocLinks.          *)
(***************************************************************************)
EXTENDS Integers, FiniteSets

CONSTANTS
    Interval,      \* registry_refresh_interval_seconds, in ticks
    TokenTimeout,  \* registry_token_fetch_timeout_seconds, in ticks
    ThreadLife,    \* google-auth's own limit on a token request, in ticks
    MaxVersion     \* a bound of the model: the registries the Host deploys

ASSUME SettingsAssumption ==
    /\ Interval \in Nat \ {0}
    /\ TokenTimeout \in Nat
    /\ ThreadLife \in Nat
    /\ MaxVersion \in Nat \ {0}

\* A registry is known by its version; Self is [SELF_APP_ENTRY].
Self == 0
Version == 1..MaxVersion
Apps == {Self} \cup Version
NoReply == -1

\* The two FetchedRegistrySource objects of a process, by who made them.
NoSource == "none"
Source == {"import", "lifespan"}

Service == {"metadata", "host"}
Label == {"nothing", "still-on-cold-start-default", "stale-since",
          "freshly-refreshed"}

VARIABLES
    hostVersion,  \* the registry the Host serves
    prompt,       \* the services that answer, correctly and in time
    phase,        \* of the process
    registered,   \* the source get_app() and list_apps() read
    cache,        \* what each source holds
    provider,     \* the token provider the settings select
    pc,           \* where the refresh task waits
    target,       \* the task's source
    waited,       \* ticks since the task began to wait
    reply,        \* the Host's answer on its way to the task
    freshSince,   \* the task's fresh_since
    logged,       \* the state the task logged last
    abandoned,    \* ages of the token threads nobody waits for any more
    client        \* the httpx client

environment == <<hostVersion, prompt>>
process == <<phase, provider, target, client>>
nav == <<registered, cache>>
task == <<pc, waited, reply, freshSince, logged, abandoned>>
vars == <<hostVersion, prompt, phase, registered, cache, provider, pc, target,
          waited, reply, freshSince, logged, abandoned, client>>

Awaiting == {"start", "token", "fetch", "sleep"}

TypeOK ==
    /\ hostVersion \in Version
    /\ prompt \in SUBSET Service
    /\ phase \in {"off", "imported", "serving", "stopping", "closed"}
    /\ registered \in Source \cup {NoSource}
    /\ cache \in [Source -> Apps]
    /\ provider \in {"default", "local-dev"}
    /\ pc \in Awaiting \cup {"none", "done"}
    /\ target \in Source \cup {NoSource}
    /\ waited \in 0..(Interval + ThreadLife)
    /\ reply \in Version \cup {NoReply}
    /\ freshSince \in {"None", "now"}
    /\ logged \in Label
    /\ abandoned \subseteq 0..ThreadLife
    /\ client \in {"none", "open", "closed"}

\* What sidebar_nav_context renders.
ListApps == cache[registered]

\* The threads of the executor that fetch a token, each known by its age.
Threads == abandoned \cup (IF pc = "token" THEN {waited} ELSE {})

\* Every variable of a process as it is when no process runs.
ProcessIsOff ==
    /\ phase' = "off"
    /\ registered' = NoSource
    /\ cache' = [s \in Source |-> Self]
    /\ pc' = "none"
    /\ target' = NoSource
    /\ waited' = 0
    /\ reply' = NoReply
    /\ freshSince' = "None"
    /\ logged' = "nothing"
    /\ abandoned' = {}
    /\ client' = "none"

Init ==
    /\ hostVersion = 1
    /\ prompt \in SUBSET Service
    /\ phase = "off"
    /\ registered = NoSource
    /\ cache = [s \in Source |-> Self]
    /\ provider \in {"default", "local-dev"}
    /\ pc = "none"
    /\ target = NoSource
    /\ waited = 0
    /\ reply = NoReply
    /\ freshSince = "None"
    /\ logged = "nothing"
    /\ abandoned = {}
    /\ client = "none"

-----------------------------------------------------------------------------
(* The life of the process.                                                *)

\* configure_client_registry_source() makes a source that holds Self only.
ConfigureSource(s) ==
    /\ registered' = s
    /\ cache' = [cache EXCEPT ![s] = Self]

\* Importing app.main: the registry module first, then the routers.
Import ==
    /\ phase = "off"
    /\ phase' = "imported"
    /\ ConfigureSource("import")
    /\ UNCHANGED <<environment, provider, task, target, client>>

Lifespan_FeedsImportedSource ==
    /\ phase = "imported"
    /\ phase' = "serving"
    /\ ConfigureSource("lifespan")
    /\ target' = "import"
    /\ client' = "open"
    /\ pc' = "start"
    /\ UNCHANGED <<environment, provider, waited, reply, freshSince, logged,
                   abandoned>>

\* The lifespan up to its yield: a new source, a client, a task.
Lifespan ==
    /\ phase = "imported"
    /\ phase' = "serving"
    /\ ConfigureSource("lifespan")
    /\ target' = "lifespan"
    /\ client' = "open"
    /\ pc' = "start"
    /\ UNCHANGED <<environment, provider, waited, reply, freshSince, logged,
                   abandoned>>

\* The lifespan after its yield: task.cancel(), and then the task is awaited.
Shutdown ==
    /\ phase = "serving"
    /\ phase' = "stopping"
    /\ UNCHANGED <<environment, nav, provider, task, target, client>>

CancelTask_Swallowed ==
    /\ phase = "stopping"
    /\ pc \in Awaiting
    /\ pc' = "sleep"
    /\ waited' = 0
    /\ abandoned' = Threads
    /\ UNCHANGED <<environment, process, nav, reply, freshSince, logged>>

\* CancelledError at the task's await.  "except Exception" does not catch it.
\* A token thread cannot be cancelled and runs on.
CancelTask ==
    /\ phase = "stopping"
    /\ pc \in Awaiting
    /\ pc' = "done"
    /\ waited' = 0
    /\ abandoned' = Threads
    /\ UNCHANGED <<environment, process, nav, reply, freshSince, logged>>

CloseClient_WithoutAwait ==
    /\ phase = "stopping"
    /\ phase' = "closed"
    /\ client' = "closed"
    /\ UNCHANGED <<environment, nav, provider, task, target>>

\* await client.aclose(), once the task has ended.
CloseClient ==
    /\ phase = "stopping"
    /\ pc = "done"
    /\ phase' = "closed"
    /\ client' = "closed"
    /\ UNCHANGED <<environment, nav, provider, task, target>>

\* asyncio.run joins the threads of the executor before the process ends.
Exit ==
    /\ phase = "closed"
    /\ abandoned = {}
    /\ ProcessIsOff
    /\ UNCHANGED <<environment, provider>>

\* The platform ends the process without a word.
Kill ==
    /\ phase # "off"
    /\ ProcessIsOff
    /\ UNCHANGED <<environment, provider>>

-----------------------------------------------------------------------------
(* The refresh task.                                                       *)

\* The task runs only while nothing has cancelled it.
TaskAt(label) == phase = "serving" /\ pc = label

Sleep ==
    /\ pc' = "sleep"
    /\ waited' = 0
    /\ reply' = NoReply

\* One round of the loop begins, the first one at once.
StartAttempt ==
    /\ TaskAt("start") \/ (TaskAt("sleep") /\ waited >= Interval)
    /\ pc' = IF provider = "local-dev" THEN "fetch" ELSE "token"
    /\ waited' = 0
    /\ UNCHANGED <<environment, process, nav, reply, freshSince, logged,
                   abandoned>>

TokenArrives ==
    /\ TaskAt("token")
    /\ "metadata" \in prompt
    /\ pc' = "fetch"
    /\ waited' = 0
    /\ UNCHANGED <<environment, process, nav, reply, freshSince, logged,
                   abandoned>>

FetchFails_FallsBack ==
    /\ Sleep
    /\ logged' = "still-on-cold-start-default"
    /\ freshSince' = "None"
    /\ cache' = [cache EXCEPT ![target] = Self]
    /\ UNCHANGED <<environment, process, registered>>

FetchFails_RetriesAtOnce ==
    /\ pc' = "start"
    /\ waited' = 0
    /\ reply' = NoReply
    /\ logged' = IF freshSince = "now" THEN "stale-since"
                 ELSE "still-on-cold-start-default"
    /\ UNCHANGED <<environment, process, nav, freshSince>>

FetchFails_EndsTask ==
    /\ pc' = "done"
    /\ waited' = 0
    /\ reply' = NoReply
    /\ logged' = IF freshSince = "now" THEN "stale-since"
                 ELSE "still-on-cold-start-default"
    /\ UNCHANGED <<environment, process, nav, freshSince>>

\* "except Exception": log what is being served, keep it, and go on.
FetchFails ==
    /\ Sleep
    /\ logged' = IF freshSince = "now" THEN "stale-since"
                 ELSE "still-on-cold-start-default"
    /\ UNCHANGED <<environment, process, nav, freshSince>>

TokenFails ==
    /\ TaskAt("token")
    /\ "metadata" \notin prompt
    /\ FetchFails
    /\ UNCHANGED abandoned

\* wait_for gives up; the thread does not, and its result will be discarded.
TokenTimesOut ==
    /\ TaskAt("token")
    /\ "metadata" \notin prompt
    /\ waited >= TokenTimeout
    /\ FetchFails
    /\ abandoned' = Threads

\* The Host handles the GET.
HostAnswers ==
    /\ pc = "fetch"
    /\ reply = NoReply
    /\ "host" \in prompt
    /\ reply' = hostVersion
    /\ UNCHANGED <<environment, process, nav, pc, waited, freshSince, logged,
                   abandoned>>

\* The GET times out, or is refused, or its body is no registry.  An answer on
\* its way is not read any more.
GetFails ==
    /\ TaskAt("fetch")
    /\ "host" \notin prompt
    /\ FetchFails
    /\ UNCHANGED abandoned

\* The else branch: source.update(apps).
Refreshed ==
    /\ TaskAt("fetch")
    /\ reply # NoReply
    /\ cache' = [cache EXCEPT ![target] = reply]
    /\ freshSince' = "now"
    /\ logged' = "freshly-refreshed"
    /\ Sleep
    /\ UNCHANGED <<environment, process, registered, abandoned>>

-----------------------------------------------------------------------------
(* Threads, time and the services outside.                                 *)

ThreadEnds ==
    /\ \E a \in abandoned : abandoned' = abandoned \ {a}
    /\ UNCHANGED <<environment, process, nav, pc, waited, reply, freshSince,
                   logged>>

\* No thread outlives ThreadLife.  A timer that has expired counts no further.
Tick ==
    /\ phase # "off"
    /\ \A a \in Threads : a < ThreadLife
    /\ waited' = IF pc = "token" \/ (pc = "sleep" /\ waited < Interval)
                 THEN waited + 1 ELSE waited
    /\ abandoned' = {a + 1 : a \in abandoned}
    /\ UNCHANGED <<environment, process, nav, pc, reply, freshSince, logged>>

\* The Host deploys a registry with other apps.
PublishRegistry ==
    /\ hostVersion < MaxVersion
    /\ hostVersion' = hostVersion + 1
    /\ UNCHANGED <<process, prompt, nav, task>>

ServicesChange ==
    /\ prompt' \in SUBSET Service \ {prompt}
    /\ UNCHANGED <<process, hostVersion, nav, task>>

TaskStep ==
    \/ StartAttempt \/ TokenArrives \/ TokenFails \/ TokenTimesOut
    \/ HostAnswers \/ GetFails \/ Refreshed

StopStep == CancelTask \/ CloseClient \/ Exit

Next ==
    \/ Import \/ Lifespan \/ Shutdown \/ CancelTask \/ CloseClient \/ Exit
    \/ Kill
    \/ StartAttempt \/ TokenArrives \/ TokenFails \/ TokenTimesOut
    \/ HostAnswers \/ GetFails \/ Refreshed
    \/ ThreadEnds \/ Tick \/ PublishRegistry \/ ServicesChange

Spec == Init /\ [][Next]_vars

\* The event loop resumes what can go on, time passes, threads end.  Nothing
\* is owed by the services, the Host's deployments or the platform.
FairSpec ==
    /\ Spec
    /\ WF_vars(TaskStep)
    /\ WF_vars(StopStep)
    /\ WF_vars(ThreadEnds)
    /\ WF_vars(Tick)

-----------------------------------------------------------------------------
(* Properties.                                                             *)

\* What the task logs is what pages show: after "still-on-cold-start-default"
\* they show this service only, after "stale-since" or "freshly-refreshed" a
\* registry the Host has served, through whichever source they read.
LogTellsWhatIsServed ==
    phase = "serving" =>
        IF logged \in {"stale-since", "freshly-refreshed"}
        THEN ListApps \in 1..hostVersion
        ELSE ListApps = Self

\* While an instance serves, its navigation never goes back: not to the
\* cold-start default and not to an older registry, whatever fails, times out
\* or is answered late.
NavNeverDegrades ==
    [][phase = "serving" /\ phase' = "serving" => ListApps' >= ListApps]_vars

\* Token threads do not pile up in the executor, although none of them can be
\* cancelled: two attempts are far enough apart for the old ones to end.
FewThreads ==
    Cardinality(Threads) <= (ThreadLife \div (TokenTimeout + Interval)) + 1

\* No request is under way, or can still be started, on a closed client.
NoFetchOnClosedClient == pc \in Awaiting => client = "open"

Healthy ==
    /\ phase = "serving"
    /\ "host" \in prompt
    /\ provider = "local-dev" \/ "metadata" \in prompt

Current == registered # NoSource /\ ListApps = hostVersion

\* An instance that keeps serving while the services it needs answer shows the
\* Host's registry in the end, however long they had failed before.
NavCatchesUp == <>[]Healthy => <>[]Current

\* A shutdown ends, also one that comes while a token thread is stuck.
ShutdownEnds == phase = "stopping" ~> phase = "off"

-----------------------------------------------------------------------------
(* The inductive invariant.                                                *)

Gap == TokenTimeout + Interval

\* The ages of two token threads differ by the time between two attempts.
Spaced ==
    /\ \A a, b \in abandoned : a < b => a + Gap <= b
    /\ pc \in {"start", "none"} => abandoned = {}
    /\ pc = "token" => \A a \in abandoned : waited + Gap <= a
    /\ pc = "fetch" => \A a \in abandoned : Gap <= a
    /\ pc = "sleep" => /\ waited <= Interval
                       /\ \A a \in abandoned : waited + TokenTimeout <= a
    /\ \A a \in Threads : a <= ThreadLife

\* Which source is read and written, and what the task knows of it.
Wired ==
    /\ phase \in {"serving", "stopping"} =>
        /\ registered = "lifespan" /\ target = "lifespan" /\ client = "open"
    /\ phase \in {"off", "imported"} => pc = "none" /\ logged = "nothing"
    /\ phase = "imported" => freshSince = "None" /\ reply = NoReply
    /\ phase = "closed" => pc = "done"
    /\ phase = "serving" => pc \in Awaiting
    /\ freshSince = "now" <=> logged \in {"stale-since", "freshly-refreshed"}
    /\ phase \in {"serving", "stopping"} =>
        (freshSince = "now" <=> ListApps # Self)
    /\ \A s \in Source : cache[s] <= hostVersion
    /\ pc \notin {"fetch", "done"} => reply = NoReply
    /\ reply # NoReply => reply <= hostVersion
    /\ reply # NoReply /\ phase = "serving" => ListApps <= reply

RInv == TypeOK /\ Spaced /\ Wired
=============================================================================
