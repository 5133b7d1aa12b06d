--------------------------- MODULE PipelinesProofs ---------------------------
(***************************************************************************)
(* What an environment serves was tested with the stylesheet it serves,    *)
(* for any number of workflow runs, versions and releases of the CLI.      *)
(***************************************************************************)
EXTENDS Pipelines, TLAPS

\* What the two jobs of a commit make of it when nothing goes wrong, and what
\* the tests and the image then have in common.
Good(c) == [commit |-> c, css |-> Compile(c, TRUE)]

AfterTests == {"build", "push", "tag", "deploy", "done"}

\* A stylesheet that has been verified is the commit's own, and nobody gets to
\* the second job without the first.
RunsAreSound ==
    \A r \in Run :
        /\ run[r].stage \in {"tests", "push", "tag", "deploy"} =>
              run[r].css = Compile(run[r].commit, TRUE)
        /\ run[r].stage \in AfterTests => run[r].tested
        /\ run[r].tested => run[r].stage # "idle"
        /\ run[r].tested => Good(run[r].commit) \in passed
        /\ run[r].stage \in {"tag", "deploy"} =>
              registry[run[r].commit] # None

\* A layer was compiled from the files its key stands for.
LayersAreSound ==
    \A k \in DOMAIN layers : \E whole \in BOOLEAN :
        layers[k] = [app |-> k.app, lock |-> k.lock, cli |-> Pin,
                     whole |-> whole]

\* An image was tested, and a commit's tag names its image.
TagsAreSound ==
    \A t \in Tag : registry[t] # None =>
        /\ registry[t] = Good(registry[t].commit)
        /\ registry[t] \in passed
        /\ t \in Commit => registry[t].commit = t

ServicesAreSound ==
    \A e \in Env : service[e] # None =>
        /\ service[e] = Good(service[e].commit)
        /\ service[e] \in passed
        /\ EnvOf[service[e].commit.on] = e

PInv == /\ TypeOK
        /\ RunsAreSound
        /\ LayersAreSound
        /\ TagsAreSound
        /\ ServicesAreSound

-----------------------------------------------------------------------------
\* A verified stylesheet of a commit is a member of its type.
LEMMA CompileType ==
    ASSUME NEW c \in Commit, NEW whole \in BOOLEAN
    PROVE  Compile(c, whole) \in Css
BY ReleaseAssumption DEF Commit, Css, Compile

LEMMA GoodType ==
    ASSUME NEW c \in Commit
    PROVE  Good(c) \in Image /\ Good(c).commit = c
                /\ Good(c).css = Compile(c, TRUE)
BY CompileType DEF Good, Image

LEMMA PInit == Init => PInv
<1> SUFFICES ASSUME Init PROVE PInv
  OBVIOUS
<1>1. TypeOK
  BY ReleaseAssumption DEF Init, TypeOK, Stage
<1>2. RunsAreSound
  BY DEF Init, RunsAreSound, AfterTests
<1>3. LayersAreSound
  BY DEF Init, LayersAreSound
<1>4. TagsAreSound /\ ServicesAreSound
  BY DEF Init, TagsAreSound, ServicesAreSound
<1> QED
  BY <1>1, <1>2, <1>3, <1>4 DEF PInv

-----------------------------------------------------------------------------
\* What a step does to a run of its own is all that it has to answer for when
\* it leaves layers, tags and services alone and forgets no test.
LEMMA RunStep ==
    ASSUME PInv, NEW r \in Run,
           newest' = newest, layers' = layers, registry' = registry,
           service' = service,
           passed \subseteq passed', passed' \subseteq [commit : Commit, css : Css],
           \A q \in Run \ {r} : run'[q] = run[q],
           run' \in [Run -> [stage : Stage, commit : Commit \cup {None},
                             css : Css \cup {None}, tested : BOOLEAN]],
           run'[r].stage # "idle" => run'[r].commit \in Commit,
           run'[r].stage \in {"tests", "push", "tag", "deploy"} =>
              run'[r].css = Compile(run'[r].commit, TRUE),
           run'[r].stage \in AfterTests => run'[r].tested,
           run'[r].tested => run'[r].stage # "idle",
           run'[r].tested => Good(run'[r].commit) \in passed',
           run'[r].stage \in {"tag", "deploy"} =>
              registry[run'[r].commit] # None
    PROVE  PInv'
<1>1. TypeOK'
  BY DEF PInv, TypeOK, LayerKey
<1>2. RunsAreSound'
  <2> SUFFICES ASSUME NEW q \in Run
      PROVE  /\ run'[q].stage \in {"tests", "push", "tag", "deploy"} =>
                   run'[q].css = Compile(run'[q].commit, TRUE)
             /\ run'[q].stage \in AfterTests => run'[q].tested
             /\ run'[q].tested => run'[q].stage # "idle"
             /\ run'[q].tested => Good(run'[q].commit) \in passed'
             /\ run'[q].stage \in {"tag", "deploy"} =>
                   registry'[run'[q].commit] # None
    BY DEF RunsAreSound, Good, Compile
  <2>1. CASE q = r
    BY <2>1
  <2>2. CASE q # r
    BY <2>2 DEF PInv, RunsAreSound
  <2> QED
    BY <2>1, <2>2
<1>3. LayersAreSound'
  BY DEF PInv, LayersAreSound
<1>4. TagsAreSound'
  BY DEF PInv, TagsAreSound, Good, Compile
<1>5. ServicesAreSound'
  BY DEF PInv, ServicesAreSound, Good, Compile
<1> QED
  BY <1>1, <1>2, <1>3, <1>4, <1>5 DEF PInv

\* Steps that touch no run.
LEMMA OutsideStep ==
    ASSUME PInv, NewRelease \/ DropLayers
    PROVE  PInv'
<1>1. run' = run /\ passed' = passed /\ registry' = registry
        /\ service' = service
  BY DEF NewRelease, DropLayers
<1>2. TypeOK' /\ LayersAreSound'
  <2>1. CASE NewRelease
    BY <1>1, <2>1, ReleaseAssumption
    DEF NewRelease, PInv, TypeOK, LayersAreSound, LayerKey
  <2>2. CASE DropLayers
    BY <1>1, <2>2 DEF DropLayers, PInv, TypeOK, LayersAreSound, LayerKey
  <2> QED
    BY <2>1, <2>2
<1>3. RunsAreSound'
  BY <1>1 DEF PInv, RunsAreSound, Good, Compile
<1>4. TagsAreSound' /\ ServicesAreSound'
  BY <1>1 DEF PInv, TagsAreSound, ServicesAreSound, Good, Compile
<1> QED
  BY <1>2, <1>3, <1>4 DEF PInv

\* The test job, failures and repetitions.
LEMMA TestJobStep ==
    ASSUME PInv, NEW r \in Run, NEW c \in Commit,
           Trigger(r, c) \/ BuildCss(r) \/ TestsPass(r)
             \/ Fail(r) \/ RerunFailed(r) \/ RerunAll(r)
    PROVE  PInv'
<1> USE DEF PInv, TypeOK, At, GoTo
<1>1. CASE Trigger(r, c)
  <2>1. ~run[r].tested
    BY <1>1 DEF Trigger, RunsAreSound
  <2> QED
    BY <1>1, <2>1, RunStep DEF Trigger, AfterTests, Stage
<1>2. CASE BuildCss(r)
  <2> PICK whole \in BOOLEAN :
        LET css == Compile(run[r].commit, whole) IN
        run' = [run EXCEPT ![r].css = css,
                           ![r].stage = IF Verified(css) THEN "tests"
                                                         ELSE "failed"]
    BY <1>2 DEF BuildCss
  <2>1. run[r].stage = "css" /\ run[r].commit \in Commit
    BY <1>2 DEF BuildCss
  <2>2. Compile(run[r].commit, whole) \in Css
    BY <2>1, CompileType
  <2>3. Verified(Compile(run[r].commit, whole)) <=> whole = TRUE
    BY DEF Verified, Compile
  <2>4. run[r].tested => Good(run[r].commit) \in passed
    BY DEF RunsAreSound
  <2> QED
    BY <1>2, <2>1, <2>2, <2>3, <2>4, RunStep DEF BuildCss, AfterTests, Stage
<1>3. CASE TestsPass(r)
  <2>1. run[r].stage = "tests" /\ run[r].commit \in Commit
    BY <1>3 DEF TestsPass
  <2>2. run[r].css = Compile(run[r].commit, TRUE)
    BY <2>1 DEF RunsAreSound
  <2>3. Good(run[r].commit) \in passed'
    BY <1>3, <2>2 DEF TestsPass, Good
  <2>4. passed \subseteq passed' /\ passed' \subseteq [commit : Commit, css : Css]
    <3>1. run[r].css \in Css
      BY <2>1, <2>2, CompileType
    <3>2. [commit |-> run[r].commit, css |-> run[r].css]
             \in [commit : Commit, css : Css]
      BY <2>1, <3>1
    <3> QED
      BY <1>3, <3>2 DEF TestsPass
  <2> QED
    BY <1>3, <2>1, <2>3, <2>4, RunStep DEF TestsPass, AfterTests, Stage
<1>4. CASE Fail(r)
  <2>1. run[r].tested => Good(run[r].commit) \in passed
    BY DEF RunsAreSound
  <2> QED
    BY <1>4, <2>1, RunStep DEF Fail, AfterTests, Stage
<1>5. CASE RerunFailed(r)
  <2>1. run[r].tested => Good(run[r].commit) \in passed
    BY DEF RunsAreSound
  <2> QED
    BY <1>5, <2>1, RunStep DEF RerunFailed, AfterTests, Stage
<1>6. CASE RerunAll(r)
  BY <1>6, RunStep DEF RerunAll, AfterTests, Stage
<1> QED
  BY <1>1, <1>2, <1>3, <1>4, <1>5, <1>6

\* The image, from Docker's cache or not, is as good as its verification.
LEMMA BuildStep ==
    ASSUME PInv, NEW r \in Run, BuildImage(r)
    PROVE  PInv'
<1> DEFINE c == run[r].commit
           key == KeyOf(c)
<1>1. run[r].stage = "build" /\ c \in Commit
  BY DEF BuildImage, At, PInv, TypeOK
<1>2. Good(c) \in passed /\ run[r].tested
  BY <1>1 DEF PInv, RunsAreSound, AfterTests
<1>3. key \in LayerKey /\ key.app = c.app /\ key.lock = c.lock
  BY <1>1 DEF KeyOf, LayerKey, Commit
<1>4. PICK css \in IF key \in DOMAIN layers THEN {layers[key]}
                   ELSE {Compile(c, whole) : whole \in BOOLEAN} :
        /\ layers' = [k \in DOMAIN layers \cup {key} |->
                         IF k = key THEN css ELSE layers[k]]
        /\ run' = [run EXCEPT ![r].css = css,
                              ![r].stage = IF Verified(css) THEN "push"
                                                            ELSE "failed"]
  BY DEF BuildImage
<1>5. \E whole \in BOOLEAN : css = Compile(c, whole)
  <2>1. CASE key \in DOMAIN layers
    BY <1>3, <1>4, <2>1 DEF PInv, LayersAreSound, Compile
  <2>2. CASE key \notin DOMAIN layers
    BY <1>4, <2>2
  <2> QED
    BY <2>1, <2>2
<1>6. css \in Css
  BY <1>1, <1>5, CompileType
<1>7. Verified(css) => css = Compile(c, TRUE)
  BY <1>5 DEF Verified, Compile
<1>8. /\ newest' = newest /\ passed' = passed /\ registry' = registry
      /\ service' = service
  BY DEF BuildImage
<1> HIDE DEF c, key
<1>9. TypeOK'
  <2>1. run' \in [Run -> [stage : Stage, commit : Commit \cup {None},
                          css : Css \cup {None}, tested : BOOLEAN]]
    <3> DEFINE next == IF Verified(css) THEN "push" ELSE "failed"
    <3>1. next \in Stage
      BY DEF Stage
    <3>2. run' = [run EXCEPT ![r].css = css, ![r].stage = next]
      BY <1>4
    <3> HIDE DEF next
    <3> QED
      BY <1>6, <3>1, <3>2 DEF PInv, TypeOK
  <2>2. \A q \in Run : run'[q].stage # "idle" => run'[q].commit \in Commit
    BY <1>1, <1>4 DEF PInv, TypeOK, c
  <2>3. \A k \in DOMAIN layers' : k \in LayerKey /\ layers'[k] \in Css
    BY <1>3, <1>4, <1>6 DEF PInv, TypeOK
  <2> QED
    BY <1>8, <2>1, <2>2, <2>3 DEF PInv, TypeOK, LayerKey
<1>10. RunsAreSound'
  <2> SUFFICES ASSUME NEW q \in Run
      PROVE  /\ run'[q].stage \in {"tests", "push", "tag", "deploy"} =>
                   run'[q].css = Compile(run'[q].commit, TRUE)
             /\ run'[q].stage \in AfterTests => run'[q].tested
             /\ run'[q].tested => run'[q].stage # "idle"
             /\ run'[q].tested => Good(run'[q].commit) \in passed
             /\ run'[q].stage \in {"tag", "deploy"} =>
                   registry[run'[q].commit] # None
    BY <1>8 DEF RunsAreSound, Good, Compile
  <2>1. CASE q = r
    <3>1. /\ run'[r].css = css /\ run'[r].commit = c /\ run'[r].tested
          /\ run'[r].stage = IF Verified(css) THEN "push" ELSE "failed"
      BY <1>2, <1>4 DEF PInv, TypeOK, c
    <3> QED
      BY <1>2, <1>7, <2>1, <3>1
  <2>2. CASE q # r
    BY <1>4, <2>2 DEF PInv, TypeOK, RunsAreSound
  <2> QED
    BY <2>1, <2>2
<1>11. LayersAreSound'
  <2> SUFFICES ASSUME NEW k \in DOMAIN layers \cup {key}
      PROVE  \E whole \in BOOLEAN :
               layers'[k] = [app |-> k.app, lock |-> k.lock, cli |-> Pin,
                             whole |-> whole]
    BY <1>4 DEF LayersAreSound
  <2>1. CASE k = key
    BY <1>3, <1>4, <1>5, <2>1 DEF Compile
  <2>2. CASE k # key
    BY <1>4, <2>2 DEF PInv, LayersAreSound
  <2> QED
    BY <2>1, <2>2
<1>12. TagsAreSound' /\ ServicesAreSound'
  BY <1>8 DEF PInv, TagsAreSound, ServicesAreSound, Good, Compile
<1> QED
  BY <1>9, <1>10, <1>11, <1>12 DEF PInv

\* What is pushed and deployed.
LEMMA PublishStep ==
    ASSUME PInv, NEW r \in Run, PushSha(r) \/ PushLatest(r) \/ Deploy(r)
    PROVE  PInv'
<1> DEFINE c == run[r].commit
<1>1. run[r].stage \in {"push", "tag", "deploy"} /\ c \in Commit
  BY DEF PushSha, PushLatest, Deploy, At, PInv, TypeOK
<1>2. ImageOf(r) = Good(c) /\ Good(c) \in passed
  BY <1>1 DEF PInv, RunsAreSound, AfterTests, ImageOf, Good
<1>3. Good(c) \in Image /\ Good(c).commit = c /\ Good(c) # None
  BY <1>1, GoodType, NamesAssumption
<1>4. newest' = newest /\ passed' = passed /\ layers' = layers
  BY DEF PushSha, PushLatest, Deploy
<1>5. /\ run' \in [Run -> [stage : Stage, commit : Commit \cup {None},
                           css : Css \cup {None}, tested : BOOLEAN]]
      /\ \A q \in Run : /\ run'[q].commit = run[q].commit
                        /\ run'[q].css = run[q].css
                        /\ run'[q].tested = run[q].tested
                        /\ q # r => run'[q].stage = run[q].stage
  BY DEF PushSha, PushLatest, Deploy, GoTo, PInv, TypeOK, Stage
<1>6. LayersAreSound'
  BY <1>4 DEF PInv, LayersAreSound
<1> HIDE DEF c
<1>7. ASSUME NEW t \in Tag, t = c \/ t = Latest,
             registry' = [registry EXCEPT ![t] = Good(c)],
             service' = service, run'[r].stage \in {"tag", "deploy"},
             t = Latest => run[r].stage = "tag"
      PROVE  PInv'
  <2>1. c \in Tag /\ c # Latest
    BY <1>1, NamesAssumption DEF Tag
  <2>2. registry'[t] = Good(c) /\ \A u \in Tag \ {t} : registry'[u] = registry[u]
    BY <1>7 DEF PInv, TypeOK
  <2>3. TypeOK'
    <3>1. registry' \in [Tag -> Image \cup {None}]
      BY <1>3, <1>7 DEF PInv, TypeOK
    <3>2. \A q \in Run : run'[q].stage # "idle" => run'[q].commit \in Commit
      BY <1>1, <1>5 DEF PInv, TypeOK, c
    <3> QED
      BY <1>4, <1>5, <1>7, <3>1, <3>2 DEF PInv, TypeOK, LayerKey
  <2>4. registry'[c] # None
    BY <1>1, <1>3, <1>7, <2>1, <2>2 DEF PInv, RunsAreSound, c
  <2>5. \A u \in Tag : registry[u] # None => registry'[u] # None
    BY <1>3, <2>2
  <2>6. RunsAreSound'
    <3> SUFFICES ASSUME NEW q \in Run
        PROVE  /\ run'[q].stage \in {"tests", "push", "tag", "deploy"} =>
                     run'[q].css = Compile(run'[q].commit, TRUE)
               /\ run'[q].stage \in AfterTests => run'[q].tested
               /\ run'[q].tested => run'[q].stage # "idle"
               /\ run'[q].tested => Good(run'[q].commit) \in passed
               /\ run'[q].stage \in {"tag", "deploy"} =>
                     registry'[run'[q].commit] # None
      BY <1>4 DEF RunsAreSound, Good, Compile
    <3>1. CASE q = r
      BY <1>1, <1>5, <1>7, <2>4, <3>1 DEF PInv, RunsAreSound, AfterTests, c
    <3>2. CASE q # r
      <4>1. run[q].stage \in {"tag", "deploy"} => run[q].commit \in Tag
        BY DEF PInv, TypeOK, Tag
      <4> QED
        BY <1>5, <2>5, <3>2, <4>1 DEF PInv, RunsAreSound
    <3> QED
      BY <3>1, <3>2
  <2>7. TagsAreSound'
    <3> SUFFICES ASSUME NEW u \in Tag, registry'[u] # None
        PROVE  /\ registry'[u] = Good(registry'[u].commit)
               /\ registry'[u] \in passed
               /\ u \in Commit => registry'[u].commit = u
      BY <1>4 DEF TagsAreSound, Good, Compile
    <3>1. CASE u = t
      BY <1>2, <1>3, <1>7, <2>2, <3>1, NamesAssumption
    <3>2. CASE u # t
      BY <2>2, <3>2 DEF PInv, TagsAreSound
    <3> QED
      BY <3>1, <3>2
  <2>8. ServicesAreSound'
    BY <1>4, <1>7 DEF PInv, ServicesAreSound, Good, Compile
  <2> QED
    BY <1>6, <2>3, <2>6, <2>7, <2>8 DEF PInv
<1>8. CASE PushSha(r)
  <2>1. run'[r].stage = "tag" /\ c \in Tag /\ c # Latest
    BY <1>1, <1>8, NamesAssumption DEF PushSha, GoTo, PInv, TypeOK, Tag
  <2> QED
    BY <1>2, <1>7, <1>8, <2>1 DEF PushSha, c
<1>9. CASE PushLatest(r)
  <2>1. run'[r].stage = "deploy" /\ run[r].stage = "tag" /\ Latest \in Tag
    BY <1>9 DEF PushLatest, At, GoTo, PInv, TypeOK, Tag
  <2> QED
    BY <1>2, <1>7, <1>9, <2>1 DEF PushLatest
<1>10. CASE Deploy(r)
  <2>1. run[r].stage = "deploy" /\ run'[r].stage = "done" /\ registry' = registry
    BY <1>10 DEF Deploy, At, GoTo, PInv, TypeOK
  <2>2. registry[c] = Good(c)
    BY <1>1, <2>1 DEF PInv, RunsAreSound, TagsAreSound, Tag, c
  <2>3. EnvOf[c.on] \in Env
    BY <1>1 DEF EnvOf, Env, Commit, Event
  <2>4. /\ service'[EnvOf[c.on]] = Good(c)
        /\ \A e \in Env \ {EnvOf[c.on]} : service'[e] = service[e]
        /\ service' \in [Env -> Image \cup {None}]
    BY <1>3, <1>10, <2>2, <2>3 DEF Deploy, PInv, TypeOK, c
  <2>5. TypeOK'
    <3>1. \A q \in Run : run'[q].stage # "idle" => run'[q].commit \in Commit
      BY <1>1, <1>5 DEF PInv, TypeOK, c
    <3> QED
      BY <1>4, <1>5, <2>1, <2>4, <3>1 DEF PInv, TypeOK, LayerKey
  <2>6. RunsAreSound'
    <3> SUFFICES ASSUME NEW q \in Run
        PROVE  /\ run'[q].stage \in {"tests", "push", "tag", "deploy"} =>
                     run'[q].css = Compile(run'[q].commit, TRUE)
               /\ run'[q].stage \in AfterTests => run'[q].tested
               /\ run'[q].tested => run'[q].stage # "idle"
               /\ run'[q].tested => Good(run'[q].commit) \in passed
               /\ run'[q].stage \in {"tag", "deploy"} =>
                     registry[run'[q].commit] # None
      BY <1>4, <2>1 DEF RunsAreSound, Good, Compile
    <3> QED
      BY <1>5, <2>1 DEF PInv, RunsAreSound, AfterTests
  <2>7. TagsAreSound'
    BY <1>4, <2>1 DEF PInv, TagsAreSound, Good, Compile
  <2>8. ServicesAreSound'
    <3> SUFFICES ASSUME NEW e \in Env, service'[e] # None
        PROVE  /\ service'[e] = Good(service'[e].commit)
               /\ service'[e] \in passed
               /\ EnvOf[service'[e].commit.on] = e
      BY <1>4 DEF ServicesAreSound, Good, Compile, EnvOf
    <3>1. CASE e = EnvOf[c.on]
      BY <1>2, <1>3, <2>4, <3>1
    <3>2. CASE e # EnvOf[c.on]
      BY <2>4, <3>2 DEF PInv, ServicesAreSound
    <3> QED
      BY <3>1, <3>2
  <2> QED
    BY <1>6, <2>5, <2>6, <2>7, <2>8 DEF PInv
<1> QED
  BY <1>8, <1>9, <1>10

LEMMA PStutter ==
    ASSUME PInv, UNCHANGED vars
    PROVE  PInv'
BY DEF PInv, TypeOK, RunsAreSound, LayersAreSound, TagsAreSound,
       ServicesAreSound, LayerKey, Good, Compile, vars

LEMMA PStep == PInv /\ [Next]_vars => PInv'
<1> SUFFICES ASSUME PInv, [Next]_vars PROVE PInv'
  OBVIOUS
<1>1. CASE NewRelease \/ DropLayers
  BY <1>1, OutsideStep
<1>2. ASSUME NEW r \in Run, NEW c \in Commit, Trigger(r, c)
      PROVE  PInv'
  BY <1>2, TestJobStep
<1>3. ASSUME NEW r \in Run,
             BuildCss(r) \/ TestsPass(r) \/ Fail(r) \/ RerunFailed(r)
               \/ RerunAll(r)
      PROVE  PInv'
  <2>1. run[r].stage # "idle"
    BY <1>3 DEF BuildCss, TestsPass, Fail, RerunFailed, RerunAll, At
  <2>2. run[r].commit \in Commit
    BY <2>1 DEF PInv, TypeOK
  <2> QED
    BY <1>3, <2>2, TestJobStep
<1>4. ASSUME NEW r \in Run, BuildImage(r) PROVE PInv'
  BY <1>4, BuildStep
<1>5. ASSUME NEW r \in Run, PushSha(r) \/ PushLatest(r) \/ Deploy(r)
      PROVE  PInv'
  BY <1>5, PublishStep
<1>6. CASE UNCHANGED vars
  BY <1>6, PStutter
<1> QED
  BY <1>1, <1>2, <1>3, <1>4, <1>5, <1>6 DEF Next

\* The inductive invariant of the two workflows: what each stage of a run may
\* rely on, and that layers, tags and services hold only what was tested.
THEOREM PipelinesInvariance == Spec => []PInv
<1> QED
  BY PInit, PStep, PTL DEF Spec

\* Each environment runs a commit of its own kind that has passed the tests,
\* however many runs overlap, fail or are repeated.
THEOREM ServedIsTested == Spec => []ServedWasTested
<1>1. PInv => ServedWasTested
  BY DEF PInv, ServicesAreSound, ServedWasTested, Served, Good
<1> QED
  BY <1>1, PipelinesInvariance, PTL

\* The stylesheet in what an environment runs is the one the tests had, however
\* many releases of the CLI and versions of the templates have come since.
THEOREM StylesWereTested == Spec => []StylesAsTested
<1>1. PInv => StylesAsTested
  <2> SUFFICES ASSUME PInv, NEW e \in Served
      PROVE  [commit |-> service[e].commit, css |-> service[e].css] \in passed
    BY DEF StylesAsTested
  <2>1. /\ service[e] = Good(service[e].commit)
        /\ service[e] \in passed
    BY DEF PInv, ServicesAreSound, Served
  <2>2. Good(service[e].commit).css = service[e].css
    BY <2>1
  <2>3. Good(service[e].commit)
           = [commit |-> service[e].commit, css |-> service[e].css]
    BY <2>2 DEF Good
  <2> QED
    BY <2>1, <2>3
<1> QED
  BY <1>1, PipelinesInvariance, PTL

\* No tag, deployed or not, has a stylesheet of other templates than its own
\* commit's: what Docker caches is never stale.
THEOREM CacheIsNeverStale == Spec => []StylesMatchTemplates
<1>1. PInv => StylesMatchTemplates
  <2> SUFFICES ASSUME PInv, NEW t \in Tag, registry[t] # None
      PROVE  /\ registry[t].css.app = registry[t].commit.app
             /\ registry[t].css.lock = registry[t].commit.lock
    BY DEF StylesMatchTemplates
  <2>1. registry[t] = Good(registry[t].commit)
    BY DEF PInv, TagsAreSound
  <2>2. Good(registry[t].commit).css = Compile(registry[t].commit, TRUE)
    BY DEF Good
  <2> QED
    BY <2>1, <2>2 DEF Compile
<1> QED
  BY <1>1, PipelinesInvariance, PTL
=============================================================================
