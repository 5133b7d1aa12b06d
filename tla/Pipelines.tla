------------------------------- MODULE Pipelines -------------------------------
(***************************************************************************)
(* ci.yml (pull requests, QA) and deploy.yml (main, prod): a test job that *)
(* compiles and verifies the stylesheet and runs the tests, then a job     *)
(* that builds the image anew, pushes it under two tags to the one         *)
(* registry that both environments share, and deploys it.  Nothing keeps   *)
(* two runs apart: they overlap, fail anywhere, and are run again.         *)
(*                                                                         *)
(* The stylesheet is not in the repository.  build_css.py compiles it from *)
(* the app's templates and those of the locked chrome package, once for    *)
(* the tests and once in the image's builder stage, where Docker may take  *)
(* the layer from its cache.  What migrations do is in module Migrations.  *)
(*                                                                         *)
(* X_... right before X is a faulty variant of X.                          *)
(***************************************************************************)
EXTENDS Naturals

CONSTANTS
    Run,        \* the workflow runs
    App,        \* contents of app/
    Lock,       \* contents of uv.lock, with the revision of chrome
    Pin,        \* TAILWINDCSS_VERSION
    MaxRelease, \* the newest release of the CLI there will be
    Latest,     \* the tag that is not a commit's
    None

ASSUME ReleaseAssumption == MaxRelease \in Nat /\ Pin \in 0..MaxRelease

Event == {"pull_request", "push"}
Env == {"qa", "prod"}
EnvOf == [e \in Event |-> IF e = "push" THEN "prod" ELSE "qa"]

\* A merge commit of a pull request, or one of main.
Commit == [on : Event, app : App, lock : Lock]

\* app.css: what it was compiled from, and whether verify_css_build.py finds
\* its size and its canaries to be right.
Css == [app : App, lock : Lock, cli : 0..MaxRelease, whole : BOOLEAN]
Image == [commit : Commit, css : Css]

ASSUME NamesAssumption ==
    None \notin Commit \cup Css \cup Image /\ Latest \notin Commit

Stage == {"idle", "css", "tests", "build", "push", "tag", "deploy",
          "done", "failed"}

VARIABLES
    newest,    \* the newest release of the Tailwind CLI
    run,       \* a run's stage, commit and stylesheet, if its test job passed
    passed,    \* the test jobs that passed
    layers,    \* the compile layers in Docker's cache, by their key
    registry,  \* the image under each tag
    service    \* the image that doc-library-qa and doc-library-prod run

vars == <<newest, run, passed, layers, registry, service>>

LayerKey == [app : App, lock : Lock]
Tag == Commit \cup {Latest}

TypeOK ==
    /\ newest \in 0..MaxRelease
    /\ run \in [Run -> [stage : Stage, commit : Commit \cup {None},
                       css : Css \cup {None}, tested : BOOLEAN]]
    /\ \A r \in Run : run[r].stage # "idle" => run[r].commit \in Commit
    /\ passed \subseteq [commit : Commit, css : Css]
    /\ \A k \in DOMAIN layers : k \in LayerKey /\ layers[k] \in Css
    /\ registry \in [Tag -> Image \cup {None}]
    /\ service \in [Env -> Image \cup {None}]

Init ==
    /\ newest = Pin
    /\ run = [r \in Run |-> [stage |-> "idle", commit |-> None, css |-> None,
                            tested |-> FALSE]]
    /\ passed = {}
    /\ layers = [k \in {} |-> None]
    /\ registry = [t \in Tag |-> None]
    /\ service = [e \in Env |-> None]

-----------------------------------------------------------------------------
At(r, stage) == run[r].stage = stage
GoTo(r, stage) == run' = [run EXCEPT ![r].stage = stage]

\* build_css.py in a checkout of commit c.
Compile_Newest(c, whole) ==
    [app |-> c.app, lock |-> c.lock, cli |-> newest, whole |-> whole]

Compile(c, whole) ==
    [app |-> c.app, lock |-> c.lock, cli |-> Pin, whole |-> whole]

\* verify_css_build.py.
Verified(css) == css.whole

NewRelease ==
    /\ newest < MaxRelease
    /\ newest' = newest + 1
    /\ UNCHANGED <<run, passed, layers, registry, service>>

\* A pull request is opened or pushed to, or main is pushed to.
Trigger(r, c) ==
    /\ At(r, "idle")
    /\ run' = [run EXCEPT ![r].stage = "css", ![r].commit = c]
    /\ UNCHANGED <<newest, passed, layers, registry, service>>

\* The steps of job "test".
BuildCss(r) ==
    /\ At(r, "css")
    /\ \E whole \in BOOLEAN :
          LET css == Compile(run[r].commit, whole) IN
          run' = [run EXCEPT ![r].css = css,
                             ![r].stage = IF Verified(css) THEN "tests"
                                                           ELSE "failed"]
    /\ UNCHANGED <<newest, passed, layers, registry, service>>

TestsPass(r) ==
    /\ At(r, "tests")
    /\ passed' = passed \cup {[commit |-> run[r].commit, css |-> run[r].css]}
    /\ run' = [run EXCEPT ![r].stage = "build", ![r].tested = TRUE]
    /\ UNCHANGED <<newest, layers, registry, service>>

KeyOf_Lock(c) == [app |-> CHOOSE a \in App : TRUE, lock |-> c.lock]

\* The files that the layers up to the compile step were copied from.
KeyOf(c) == [app |-> c.app, lock |-> c.lock]

\* "docker build": the compile layer comes from the cache or is made, and it
\* stays there even when the next layer, verify_css_build.py, fails.
BuildImage(r) ==
    LET c == run[r].commit
        key == KeyOf(c)
    IN
    /\ At(r, "build")
    /\ \E css \in IF key \in DOMAIN layers THEN {layers[key]}
                  ELSE {Compile(c, whole) : whole \in BOOLEAN} :
          /\ layers' = [k \in DOMAIN layers \cup {key} |->
                           IF k = key THEN css ELSE layers[k]]
          /\ run' = [run EXCEPT ![r].css = css,
                                ![r].stage = IF Verified(css) THEN "push"
                                                              ELSE "failed"]
    /\ UNCHANGED <<newest, passed, registry, service>>

\* A hosted runner starts without layers, and a cache is pruned.
DropLayers ==
    /\ layers' = [k \in {} |-> None]
    /\ UNCHANGED <<newest, run, passed, registry, service>>

ImageOf(r) == [commit |-> run[r].commit, css |-> run[r].css]

PushSha(r) ==
    /\ At(r, "push")
    /\ registry' = [registry EXCEPT ![run[r].commit] = ImageOf(r)]
    /\ GoTo(r, "tag")
    /\ UNCHANGED <<newest, passed, layers, service>>

PushLatest(r) ==
    /\ At(r, "tag")
    /\ registry' = [registry EXCEPT ![Latest] = ImageOf(r)]
    /\ GoTo(r, "deploy")
    /\ UNCHANGED <<newest, passed, layers, service>>

Deploy_Latest(r) ==
    /\ At(r, "deploy")
    /\ service' = [service EXCEPT ![EnvOf[run[r].commit.on]] =
                                     registry[Latest]]
    /\ GoTo(r, "done")
    /\ UNCHANGED <<newest, passed, layers, registry>>

\* "gcloud run deploy --image=...:<github.sha>".
Deploy(r) ==
    /\ At(r, "deploy")
    /\ service' = [service EXCEPT ![EnvOf[run[r].commit.on]] =
                                     registry[run[r].commit]]
    /\ GoTo(r, "done")
    /\ UNCHANGED <<newest, passed, layers, registry>>

\* A step fails, or the run is cancelled.
Fail(r) ==
    /\ run[r].stage \notin {"idle", "done", "failed"}
    /\ GoTo(r, "failed")
    /\ UNCHANGED <<newest, passed, layers, registry, service>>

\* "Re-run failed jobs": a test job that has passed is not run again.
RerunFailed(r) ==
    /\ At(r, "failed")
    /\ GoTo(r, IF run[r].tested THEN "build" ELSE "css")
    /\ UNCHANGED <<newest, passed, layers, registry, service>>

\* "Re-run all jobs", of the same commit.
RerunAll(r) ==
    /\ run[r].stage \in {"failed", "done"}
    /\ run' = [run EXCEPT ![r].stage = "css", ![r].tested = FALSE]
    /\ UNCHANGED <<newest, passed, layers, registry, service>>

Next ==
    \/ NewRelease \/ DropLayers
    \/ \E r \in Run :
          \/ \E c \in Commit : Trigger(r, c)
          \/ BuildCss(r) \/ TestsPass(r) \/ BuildImage(r)
          \/ PushSha(r) \/ PushLatest(r) \/ Deploy(r)
          \/ Fail(r) \/ RerunFailed(r) \/ RerunAll(r)

Spec == Init /\ [][Next]_vars

-----------------------------------------------------------------------------
(* Properties.                                                             *)

Served == {e \in Env : service[e] # None}

\* What an environment runs has passed the tests of that environment, although
\* both push to the same tag at any time.
ServedWasTested ==
    \A e \in Served :
        /\ EnvOf[service[e].commit.on] = e
        /\ \E p \in passed : p.commit = service[e].commit

\* The image's stylesheet, compiled a second time and perhaps long after, is
\* the one that the tests of its commit had.
StylesAsTested ==
    \A e \in Served :
        [commit |-> service[e].commit, css |-> service[e].css] \in passed

\* A cached stylesheet never drifts from the templates it is served with.
StylesMatchTemplates ==
    \A t \in Tag : registry[t] # None =>
        /\ registry[t].css.app = registry[t].commit.app
        /\ registry[t].css.lock = registry[t].commit.lock
=============================================================================
