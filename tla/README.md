# doc-library in TLA+

This directory specifies the doc-library service: a FastAPI application that
keeps, for each user of a Host application, a list of links by category. The
modules model the code under `src/`, TLC checks them on small instances, and
TLAPS proves the central results for every value of the constants.

    tlc -workers 2 -config MCDocLinks_requests.cfg MCDocLinks # one run
    tlapm DocLinksProofs.tla                                  # all proofs of a module

`PROJECT.json` holds the same in a form for tools: which definition stands for
which lines, the runs, the hazards and the properties that cover them.

| module | what it is |
|---|---|
| `LinkStore` | abstract: what the service promises of a call's effect and answer |
| `DocLinks` | the HTTP handlers, statement by statement, over the three tables; implements `LinkStore` |
| `DocLinksProofs` | the inductive invariant of `DocLinks`, what follows from it, and the refinement of `LinkStore` |
| `LibraryPage` | the page in the browser, composed with the handlers of `DocLinks` |
| `LinkSchemas` | what the validators accept, store and show |
| `HostUserGuard` | the listener that keeps sessions from writing to `host.users` |
| `RegistryClient` | the background task that keeps the navigation up to date |
| `RegistryClientProofs` | its inductive invariant, and the bound on its threads |
| `Migrations` | concurrent `alembic` runs and the releases around them |
| `Pipelines` | the two workflows: stylesheet, image, tags, deployment |
| `DevLauncher` | the developer's launcher and its child processes |
| `LibraryPageProofs`, `LinkSchemasProofs`, `MigrationsProofs`, `HostUserGuardProofs`, `PipelinesProofs`, `DevLauncherProofs` | their inductive invariants and results |
| `MCDocLinks`, `MCLibraryPage`, `MCLinkSchemas` | constants for TLC |

A definition `X_Something` placed right before `X` is a faulty variant of `X`:
the mistake its name tells of, such as `CommitUpdate_AllColumns`. The
specifications do not use it. Put in the place of `X`, it shows that a property
notices the mistake.

## 1. The system

### Components

**Link handlers** (`app/api/v1/doc_links.py`,
`app/pages/doc_links_fragments.py`, `app/models/doc_link.py`). State:
`doc_library.doc_links`. Operations: list, create, partial update and delete
through a JSON API; create, full update and delete through htmx fragments that
re-render the whole list. Each handler is a coroutine that runs several
statements in a session of its own and commits once. Hard: other requests run
between a handler's statements; the row an edit has read may be changed or gone
when it writes; a COMMIT may take effect although its acknowledgement is lost; a
fragment renders rows that its own session has just changed. Correct when:
nobody reads or changes another user's links, a delete is final, an edit changes
no column it was not asked to, and the answer is true about the effect.

**View-mode preference** (`app/api/v1/preferences.py`,
`app/models/user_preference.py`). State: one row per user at most. Operations:
read with a default, upsert. Hard: two first writes at once.

**Library page** (`app/pages/doc_library.py`, templates). State, in the browser:
the list shown, what is typed into the forms, their error slots, the requests
under way. The server renders the links and the mode; htmx swaps fragments into
the page. Hard: fragments whose responses arrive in another order than their
requests were handled, a target that another response has replaced, a second
click. Correct when: the page comes to show what is stored, nothing deleted
comes back, nothing is stored twice.

**Authentication** (`app/core/auth.py`). No state. A cookie's JWT yields a user
id or nothing; nobody asks the Host, so a token outlives its account.

**Database session** (`app/db/session.py`). An `AsyncSession` per request, with
`expire_on_commit=False` and no automatic commit. Hard: its identity map.

**Request schemas** (`app/schemas/doc_link.py`). Pure validation; a partial
update distinguishes "not submitted" from every value. The schema of the answers
inherits the validators, so every row is validated again when it is shown.
Correct when: that never fails, and the two surfaces accept the same.

**Host user mapping** (`app/models/host_user.py`, `app/services/host_user.py`).
A read-only view of `host.users`: a listener refuses every flush that would
write to it. The Host deletes accounts whenever it likes, and the foreign keys
cascade.

**Registry client** (`app/core/registry.py`, `app/main.py`,
`app/core/config.py`). State: the source the navigation is rendered from, its
cache, a task, an HTTP client, threads that fetch tokens. Operations: startup,
one attempt of the refresh loop, shutdown. Hard: every failure, timeout and late
answer of two services; a cancellation at any await; threads that cannot be
cancelled; timers that fire late. Correct when: the navigation never goes back
and catches up in the end, the log tells the truth, and a shutdown ends.

**Navigation and templating** (`app/core/nav.py`, `app/core/templating.py`).
Pure functions of the registry and the request.

**Migrations** (`migrations/`). State: the schema and Alembic's version table.
Operations: upgrade and downgrade of three revisions. Hard: two transactions, of
which the first commits by itself; runs of several checkouts at once; a run that
is killed. Correct when: the version agrees with the tables, and what serves
finds its tables.

**Deployment pipeline** (`.github/workflows`, `Dockerfile`). State: the
registry's tags, Docker's layers, what the two environments serve. Migrates from
the checkout under test and tests it, then builds and deploys it. Hard: runs
overlap, fail and are repeated, and share the registry. Correct when: what
serves was tested.

**CSS build** (`scripts/build_css.py`, `scripts/verify_css_build.py`). Compiles
the stylesheet, once for the tests and once for the image. Correct when: both
are the same.

**Developer launcher** (`scripts/dev.py`). State: two child processes, one of
which has a child of its own. Hard: Ctrl-C at any moment, children that take no
notice. Correct when: one down means all down.

**Static files** are served by Starlette from two mounts.

### How they interact

Requests meet only in the database, and in the page that sent them. A request is
authenticated once, at its start; the Host may delete the account afterwards,
which the request notices only if the foreign key rejects what it writes. The
registry task meets the requests in the source that `list_apps()` reads. A
release migrates the database while the previous revision still serves from it.

## 2. `DocLinks`: the handlers

### State and steps

`hostUsers`, `docLinks` and `preferences` are what is committed; `issued` is
history, the ids uuid4 has drawn. For each request slot, `pc` names the
statement about to run, `call` what was asked, `session` the objects the session
holds and whether its COMMIT took effect, `answer` the response.

| code | action |
|---|---|
| dependencies, validation, the early refusals | `Receive` |
| `await get_owned_doc_link(...)`, 404, and the fragment's late validation | `SelectOwned` |
| `db.add`; `await db.commit()` | `CommitCreate`, or `AccountIsGone` |
| the `setattr` loop; `await db.commit()` | `CommitUpdate`, or `UpdateMatchesNothing` |
| `await db.delete(...)`; `await db.commit()` | `CommitDelete` |
| `await set_view_mode(...)`; `await db.commit()` | `CommitMode`, or `AccountIsGone` |
| `await db.refresh(...)` after a JSON create | `Refresh` |
| `list_for_user`, `list_grouped_by_category` | `SelectLinks` |
| `get_view_mode`, rendering | `SelectMode` |
| a statement raises; the instance is killed | `Fail`, `Lose` |
| the Host deletes an account, `ON DELETE CASCADE` | `DeleteAccount` |

- *A statement is a step.* At READ COMMITTED a SELECT sees what is committed
  when it starts, and between two statements of a handler anything may happen.
- *A flush and its COMMIT are one step.* The flush takes the row locks and keeps
  them until the COMMIT; others neither see nor change those rows in between. A
  connection that breaks there rolls back, which is `Fail` before the step; one
  that breaks after the COMMIT took effect is the 500 of `Committed`. The
  planned `DocLinksLocking` splits the step to justify this by refinement.
- *The session is more than a snapshot.* The unit of work sends only the columns
  whose value differs from the one loaded (`Dirty`), and nothing if there is
  none: `CommitUpdate` then succeeds without looking for the row. An UPDATE that
  matches no row raises `StaleDataError`; a DELETE that matches none only warns.
  A SELECT after the commit does not overwrite an object the session holds
  (`Shown`).
- *Calls* are whatever the schemas admit; `WellFormedCall` says which. A call
  without a valid token has the user `Nobody`. A client knows only ids it was
  given, or one that never existed.
- *The page's read of `host.users`* decides colours and collapsed groups and
  refuses nothing, so it is not a step.

### What is promised: `LinkStore`

No statements, no sessions. A call takes effect at most once, at one moment, on
its caller's own link or preference; it is refused only if it had no effect, and
"done" only if it had one. A call that fails leaves its client in doubt.
`ImplementsStore` is the refinement, with the COMMIT as the moment of effect.
Its `Update` lets any subset of the submitted columns take the submitted values,
because an edit leaves a column alone that it loaded with that value already; an
edit that finds nothing to write may therefore be answered as done after its
link was deleted.

### Properties

| property | in words |
|---|---|
| `ForeignKeys` | no link or preference outlives its account |
| `PrimaryKeys` | ids are unique and were issued; one preference per user |
| `OnlyOwnRows` | no handler holds or answers with another user's row |
| `DeletedForGood`, `NoResurrection` | once deleted, a link is gone, whatever edits had loaded it |
| `NotFoundIsFinal` | an id answered 404 never becomes a link of the caller |
| `OwnEffectShown` | what a fragment renders includes its own effect |
| `WritesStayWithinCall` | a row changes only by its owner's call on it, and only in submitted columns |
| `EveryRequestAnswered` | every admitted request is answered or lost with its instance |
| `IInv` | the inductive invariant, section 10 |

### Runs

| run | asks | distinct states |
|---|---|---|
| `requests` | two requests of two users edit, delete, create, set the mode, list and are refused, through both surfaces; faults, and an account is deleted | 949 011 |
| `regroup` | expected to fail, see below | |
| `missing` | expected to fail, see below | |

`EveryRequestAnswered` is checked by the run `page_busy` of the next section,
where connections break, instances are killed and an account goes meanwhile.

*Bounds.* Two slots (`Request`), each reused without limit, so that every pair
of requests meets in every order, any number one after the other. Requests share
only rows, so an anomaly needs one request between two statements of another;
`Close` lets several different ones pass there. Two users, one of whom may
leave. Two or three link ids, as many as the seeds and `RoomForCreate` ask for:
the runs start with one link or none, and a create and a deleted link next to it
need one more. Ids are never reused and rows do not influence each other, so
more of them only repeat. `RoomForCreate` stops creates when the ids are used
up. Two values per column (three where the order matters) distinguish "as
loaded", "as submitted" and "as somebody else left it" across the columns.
`RequestSymmetry` permutes the slots, which nothing tells apart; it is not used
with liveness.

*Fairness.* `WF(Progress(r))`: the event loop resumes a handler whose statement
has returned, and asyncpg returns or raises. Nothing else is owed: clients need
not call and the Host need not delete.

*Deadlock* is checked in these runs: a free slot can always receive a call.

### Two expected violations

`regroup` — *a category listed twice.* `update_link_fragment` edits a link and
then lists all links in the same session. The session still holds the edited
object, so the second SELECT's row is ordered by the database's category but
shown with the session's. If another request changes that link's category in
between, the list is not sorted by what it shows, and `itertools.groupby` makes
two groups of one category. The docstring of `list_grouped_by_category`
(`app/models/doc_link.py:54`) relies on this not happening.

`missing` — *a 500 where a 404 is documented.* A link deleted between an edit's
SELECT and its UPDATE makes the flush raise `StaleDataError`, which nothing
catches; `app/api/v1/doc_links.py:4` and `app/models/doc_link.py:67` promise the
same 404 for every id that is not the requester's. The data stay right: that is
what `NoResurrection` shows.

## 3. `LibraryPage`: the page in the browser

`LibraryPage` EXTENDS `DocLinks`: a request of the page is a request of its
model, and `waiting` tells what in the browser waits for it. `Trigger`, `Reload`
and `Elsewhere` start requests (the page's, the browser's, those of other tabs
and clients), `ServerStep` runs them, and one of `Swap`, `SwapThrows`,
`ShowFormError`, `OtherFailure` and `Load` takes the answer.

htmx 1.9.12 is external; the model has what the page's attributes make it do:

- `hx-target` is looked up when a request is sent. `hx-swap="outerHTML"`
  replaces that very element, so after a swap the requests that are still under
  way have a target outside the page (`"orphan"`), and swapping into it throws.
- An element has one request at a time. A trigger that comes meanwhile is
  remembered, the last one only (`TriggerAgain`), and goes out when the request
  ends (`SendQueued`), with the form's fields as they are then, or not at all
  when they are empty or a delete is not confirmed again (`DropQueued`).
- `after-request` does not fire when the swap has thrown, and the element's
  request is then never marked as ended: the add form, which is outside the
  list, stays locked until a reload (`stuck`).

`Patient` says whether the visitor leaves the page alone while a request of
another element is under way; a patient visitor may still click twice.

| property | in words |
|---|---|
| `NoGhosts` | a link that left the list does not come back: of overlapping answers, an older list never replaces a newer |
| `OnlyDeletedLeave` | a link leaves the list only when it is deleted |
| `AddedOnce` | a draft is stored once, however often its button was clicked |
| `RefusedDraftIsKept` | while the add form shows a refusal, what was refused is there to be corrected |
| `PageIsTrue` | at rest the page shows what is stored, in the stored mode |
| `AddFormComesFree` | the add form can be submitted again in the end |

Runs: `page_busy` (576 659 states), with an impatient visitor, faults, edits
from elsewhere and an account that goes; `page_patient` (177 552 states), with
everything a visitor can do, each in one way; both under fairness. Two requests
at a time are enough for answers to overtake each other, as any number may
follow. `AddFormComesFree` is about a patient visitor; an impatient one's form
can get stuck, see below. `AddedOnce` holds as long as no answer is a server
error, so `page_patient` has no faults; a client that retries after a 500 may
store its link twice.

*Fairness.* As in `DocLinks`, and a response, or the lack of one, reaches the
browser: `WF(Deliver(r))`. Visitors owe nothing.

*Expected violation:* `page_overlap` — *a lost answer.* An impatient visitor
adds a link and switches the view. The first answer replaces the list, the
second finds no target, and the page keeps showing the state before it, although
`doc_links_list.html:3` says that the list is re-rendered after every change.

Four more things the model shows, which no run states:

- When the answer to the add form is the one that throws, an error banner of an
  earlier attempt stays, although slice 3's notes say it does not linger
  (`docs/features/doc-library/WBS/slice-3-doc-link-crud.md:145`), the input
  stays too, and the form is dead: `AddFormComesFree` needs a patient visitor.
- The refusal of an edit is written into the form that was submitted. If another
  answer has replaced the list meanwhile, that form is in no page any more, and
  the refusal looks like nothing happened, which `doc_links_fragments.py:44`
  wants to avoid (`Banner`).
- `reset()` empties the form when an answer arrives: what was typed since the
  submission is lost (`TypeDraft`, then `AfterRequest`).
- The list and the view mode of one answer are two SELECTs: while the visitor
  uses the service elsewhere too, a page may show two that were never stored
  together (`SelectLinks`, `SelectMode`).

## 4. `LinkSchemas`: what is accepted, stored and shown

Sequential: one link, one call at a time. A text is a sequence of the classes of
characters the code tells apart (visible, blank, NUL; for URLs the tokens that
`urlparse` looks for), and a payload gives a value, or null, for some columns.
`Accepts` is what each surface lets through, `Dumped` what is stored of it,
`Response` what the JSON API shows. `StoredReadsBack`: what was accepted, in any
order of partial updates, is accepted again by `DocLinkResponse`, or one link
would turn every list of its owner into a 500. `ShownIsStored`: validating it
again changes nothing. `SurfacesAgree`: form and JSON accept the same. The run
`schemas` has every text around the limits, which are small (`SmallLimits`): the
validators compare a length with a limit and look at no other number.

Two observations. `_validate_url` looks at the netloc, which a port or a blank
makes non-empty: `http://:80` and `http:// ` are accepted, although the comment
at `schemas/doc_link.py:11` and `TDD.md:43` ask for a non-empty host. And a NUL
passes all validators, but Postgres stores no such text: the answer is a 500
(`Storable`), with nothing stored.

## 5. `HostUserGuard`: nobody writes to `host.users`

One session, used in any way: objects of `HostUser` and of the service's own
mappings are added, assigned, deleted and expunged, the session is flushed (each
SELECT does), committed and rolled back, and the code may go on after the
listener has raised. `HostTableUntouched` holds inside the transaction too. That
a refused flush leaves the service's own rows alone as well is what `Flush`
says: the listener runs before anything is sent. A bulk `update()` or `delete()`
does not pass through a flush: the listener never sees it, and neither does the
model, as no code does that.

## 6. `RegistryClient`: the navigation

One instance of the service, from the import of `app.main` to its end. Each
attempt of the loop is `StartAttempt`, then `TokenArrives`, `TokenFails` or
`TokenTimesOut`, then `Refreshed` or `GetFails`. The process goes through
`Import`, `Lifespan`, `Shutdown`, `CancelTask`, `CloseClient`, `Exit`, and may
be killed at any point. `configure_client_registry_source` runs at import and
again in the lifespan; the two sources it makes are told apart. The Host's
registry is a version number, the service's own entry is 0.

- *Time* is counted in ticks. The runs use ticks of 5 s: an interval of 60 s, a
  token timeout of 10 s, and the 120 s after which google-auth gives up by
  itself. Timers may be late by any amount, for the platform gives an instance
  no CPU between requests: a timeout enables an action, it does not force it.
- *A token thread* survives its timeout. `abandoned` holds the ages of those
  nobody waits for, and asyncio joins them before the process ends (`Exit`).
- *The services* may fail, be slow or recover at any time (`ServicesChange`).
  `prompt` names those that answer in time; a timeout is then impossible, and
  the other way round an attempt against a service that is not prompt fails.

| property | in words |
|---|---|
| `LogTellsWhatIsServed` | the state the task logs is the state of what pages show |
| `NavNeverDegrades` | while an instance serves, its navigation never goes back |
| `FewThreads` | at most `ThreadLife \div (TokenTimeout + Interval) + 1` token threads at once |
| `NoFetchOnClosedClient` | the client closes only after the task that uses it |
| `NavCatchesUp` | an instance whose services stay healthy shows the Host's registry in the end |
| `ShutdownEnds` | a shutdown ends, also with a token thread that is stuck |
| `RInv` | the inductive invariant, section 10 |

Run: `registry` (56 088 states). `MaxVersion` bounds what the Host deploys: a
third version is enough for an answer that is two deployments old. Fairness:
weak fairness of the task, of the shutdown, of the end of a thread and of time.
Nothing is owed by the services; their health is the premise of `NavCatchesUp`.

The label that is logged as `stale-since-{fresh_since}` always reads
`stale-since-now`, as `fresh_since` is only ever the literal `"now"`; the model
keeps the label without its suffix.

## 7. `Migrations`: upgrades, downgrades, releases

`objects` and `rows` are the committed schema and the rows of `alembic_version`.
Each runner has a command and an open transaction: what it has made and dropped,
the revision it read, the one it has reached, what it has locked. `CreateSchema`
is env.py's first transaction; `Begin` to `Commit` the second. A statement sees
what is committed and what its own transaction did, waits for rows and objects
another transaction has changed (`Free`), and fails if it finds something else
than it expects: a table that is there already, a version row that is not.
`Deploy` follows a successful upgrade, as `deploy-prod` needs `test`. A failure
for any reason the model leaves out, such as two `CREATE SCHEMA IF NOT EXISTS`
that collide in the catalogue, or `CREATE ROLE` that does, is one of `Kill`.

Two transactions that wait for each other's tables and
rows, an upgrade and a downgrade on opposite ways, wait until Postgres ends one
of them (`DeadlockDetected`); without that step `EveryRunEnds` fails.

Run: `releases` (37 640 states): two runs of any of the three checkouts, each an
upgrade with its deployment or a downgrade, on an empty database or one that has
had a release. `VersionTellsTables` holds throughout. `ServedTablesExist` holds
as long as nobody has downgraded (`undone`), `ReleasesOnlyAdd` exempts a
downgrade's own end. Two runners suffice for every pair of statements to meet;
any number of runs may follow each other. Fairness is strong: a run that waits
for a lock gets it before those that come later, because Postgres queues lock
requests.

Two things to know, which the runs leave out or take as given:

- Everything the first revision does tolerates being done twice. If its
  checkout's run meets that of a later checkout on an *empty* database and reads
  the revision before the other commits, `alembic_version` ends with two rows.
  That needs the very first releases of two checkouts at once, so the runs start
  a 0001 checkout only where a release has been (`Released`).
- `downgrade base` always fails: the first revision drops the schema without
  CASCADE, and Alembic's own version table is in it. The model has it fail
  (`DowngradeFails`), and the run shows that what the same command undid before
  comes back.

## 8. `Pipelines`: what is served was tested

`ci.yml` runs for pull requests and deploys QA, `deploy.yml` for main and
deploys prod; both push to one registry under the commit's tag and `:latest`.
A run is a stage, a commit and its stylesheet. A commit matters by what its
stylesheet is made of: the templates in `app/` and the chrome package that
`uv.lock` names. The stylesheet is compiled for the tests and again in the
image's builder stage, where Docker may take the layer from its cache
(`KeyOf`, `DropLayers`), while Tailwind releases new versions of its CLI
(`NewRelease`). A compilation may go wrong without an error (`whole`), which
`verify_css_build.py` finds. Steps fail, runs are cancelled and repeated.

`ServedWasTested`: an environment runs a commit of its own kind that has passed
the tests, which is what `docs/creating-prerequisites.md` wants GitHub Actions
for. `StylesAsTested`: with the stylesheet it passed them with, which rests on
the CLI's pinned version and on the order of the image's COPY steps.
`StylesMatchTemplates` (proved, section 10): under no tag does a cached layer
outlive the templates it was compiled from. Run `pipelines` (331 506 states):
two runs at a time, two versions of the templates, one lock file, two releases
of the CLI. A second lock file would play the part that the second version of
the templates plays.

What it does *not* say: that the newest commit serves. No `concurrency` group
orders two runs, so the older one may deploy last, and stays.

## 9. `DevLauncher`: one down, all down

`scripts/dev.py` line by line, its children, and the Tailwind CLI that the CSS
watcher runs. Ctrl-C reaches all of them, and twice at any point
(`MaxPresses`): a third would find the launcher gone or be one of the two.
`KeyboardInterrupt` is caught in the body of `try` only, so a Ctrl-C between the
two `Popen()` calls, or in `finally`, leaves `main` at once (`"cut"`).
`NoChildIsLeft` and `OneDownAllDown` are about a launcher that gets to its end;
`AskedBeforeKilled` (proved, section 10) says that SIGKILL is the last resort;
`CtrlCEndsIt` that Ctrl-C ends the launcher, however long its children take.
`CtrlCEndsTheWatcher` is about what a broken-off launcher leaves behind: the CSS
watcher ends for the signal that it has got itself. Run `launcher` (460 states),
under fairness of the launcher, of SIGKILL, and of SIGTERM and KeyboardInterrupt
in `build_css.py`, which ends for both; uvicorn may ignore everything but
SIGKILL, and what is left of it has at least got the Ctrl-C (`EveryChildIsTold`,
proved). Deadlock
is not checked: when all processes have ended nothing is left to happen.

The model also shows that SIGTERM ends `build_css.py` without a word to the
Tailwind CLI, which stays behind and goes on writing `app.css`
(`CssWatchTerminated`), that after a Ctrl-C that leaves `main` at once a uvicorn
that takes no notice of SIGINT stays too, and that a second `Popen()` that fails
leaves the first child running (`SpawnFails`).

## 10. What is proved

TLAPS checks every step; there are no unproved assumptions beside the named
ASSUMEs of the modules on their constants, which TLC evaluates in each run.

**`DocLinksProofs`**, for any sets of users, ids, slots, values and calls:
`Invariance` (`Spec => []IInv`), and from it `TypeCorrectness`, `NoOrphans`,
`KeysAreUnique`, `Privacy`, `DeleteIsFinal`, `NotFoundStays` and
`DeletedIdsStayDeleted`.

The properties are not inductive by themselves. That a delete is final, say,
fails to follow from itself: an edit that is about to commit might hold a row of
another id, or be a create that draws the deleted one. `IInv` adds what a
request may rely on between two statements:

- `Bookkeeping(r)`: where a request stands tells what it holds. What it found is
  its caller's link under the call's id, and an edit or delete goes on only with
  one.
- `Knowledge(r)`: what stays true while others run. A created or found link may
  have changed or gone, but its id has passed to nobody else; what was deleted
  or answered 404 has not come back.

The proof has three parts. `NextType`: each action keeps the types.
`TablesStep`: whatever a step does to the tables, keys stay unique and no id
that was issued gets a row it did not have, or another owner (`IdsStay`).
`KnowledgeStays`: from that alone, what a request knows survives a step of any
other. `OthersUntouched` says that a step moves one request only and `Bystander`
concludes for all the rest; `OwnStep` goes through the actions for the one that
moves.

The same module proves what calls do: `ServiceImplementsStore`,
`WritesAreConfined` and `FragmentsShowTheirEffect`. To `IInv` come
`RendersWhatIsDurable`, that a request that renders after a write has its COMMIT
behind it (`DurableInvariance`), and `Rendering(r)`, that a fragment's entries
show its effect from the moment they are selected, not only when they are
answered (`EffectInvariance`). For the refinement, `OneRequestMoves` reduces
each step to what `LinkStore` sees of its request; a COMMIT then is one of
`LinkStore`'s effects, an answer one of its verdicts, and everything else
stutters. `ShownStays` says why an answer stays right while others write: an id
the request holds does not come back to a row.

**`LibraryPageProofs`**, for any number of overlapping requests:
`PageInvariance`, `PageIsAClient`, `PageTypes`, `NothingComesBack` and
`OnlyDeletedLinksLeave`. That answers may arrive in any order does no harm
because of two facts, which are `OnItsWay`: a list that still has a target was
selected after the one it will replace had been (`IsNewer`), and a swap leaves
no other request with a target. `PageIsAClient` makes everything proved about
the handlers hold with the page in front of them.

What the forms do needs more, one invariant on top of the other:

- `FormInv`: the add form has one submission under way, and the draft it sent is
  still in the form. `RefusedDraftsStay` follows, with no further hypothesis.
- `CalmInv`, from here on without faults (`~Faults`): a request of the page
  whose COMMIT took effect ends in a 200, and no invalid payload is written. A
  visitor who is told of a failure after the COMMIT submits the same draft
  again, so that faults have to be excluded.
- `DraftsAreAddedOnce`, which holds for impatient visitors too, assumes
  `TellsDrafts(k)`: by the value in column `k`, drafts are told apart from each
  other and from everything else that calls store. Otherwise somebody's edit
  might make another link look like a second copy. The invariant, `OnceFor`, says
  of each draft that it is stored once or about to be, and that while a draft
  whose create has been sent is in the form, the form is busy or stuck;
  `CopiesComeFrom` says that a step makes rows with a draft's value only by
  committing its create.
- `PageTellsTheTruth` assumes a patient visitor, and that nothing else changes
  the visitor's own links and mode (`QuietElsewhere`); other users and the Host
  do as they like. `page_overlap` shows why patience is needed. The invariant,
  `TruthInv` (`TruthInvariance`), holds as long as the account exists: one
  request at a time changes or shows the page (`OneAtATime`), what it has read
  of the row is the row (`HoldsTheRow`), its answer brings what is stored
  (`BringsTheTruth`), and the page shows it whenever no such answer is still to
  come (`ShowsTheTruth`). From the first of these follows `FormIsNeverDead`, the
  safety half of `AddFormComesFree`.

`MCLibraryPage` has TLC evaluate that the calls of `page_patient` satisfy
`TellsDrafts("title")` and `QuietElsewhere`, so that the hypotheses are those of
a run. `PageAssumption` says of the calls only what the template's attributes
fix.

**`LinkSchemasProofs`**, for all limits and payloads: `SchemasInvariance`,
`WhatIsStoredReadsBack`, `WhatIsShownIsStored` and `BothSurfacesAgree`. The
invariant is that the stored attributes are `Clean`: valid, and as their
validator returns them. The lemmas say what `Strip` does: what it returns begins
and ends with a visible character (`StripText`), so that stripping again changes
nothing, and a valid text is still valid when it is stripped, as it gets no
longer and does not get empty (`ValidStaysValid`). The assumption is that a
payload gives null or a text for each column.

**`MigrationsProofs`**, for any number of runs: `MigrationInvariance`,
`MigrationTypes`, `VersionIsTruthful`, `ServiceFindsItsTables` and
`ReleasesTakeNothing`. `MInv` has, beside the consistency of what is committed,
an account of each open transaction: what it has made and dropped is the
difference between the revision it read and the one it has reached
(`Accounted`), it has locked the version rows on that way, and no two
transactions hold the same lock (`Exclusive`). `Grounded` says that the revision
a transaction started from is still the committed one once it has changed
something, so that its COMMIT moves a consistent database to a consistent one.
There is one exception: a run that has read an empty database and applied the
first revision, while another has committed a later one. All it goes on to do
fails, on the tables or on the version row. That is where `Released` is needed:
the run of a checkout whose goal is the first revision would commit at that
point.

**`RegistryClientProofs`**, for all settings: `RegistryInvariance` (`Spec =>
[]RInv`), `RegistryTypes`, `LogIsTruthful`, `ClientOutlivesTask`,
`NavOnlyAdvances` and `ThreadsStayFew`. `RInv` has two parts that the properties
lack. `Wired`: while the instance serves, the source that pages read is the one
the task writes, what it holds is no newer than the Host's, and an answer under
way is no older than what is shown. `Spaced`: the ages of two token threads
differ by at least `Gap == TokenTimeout + Interval`. The bound on their number
follows by dividing each age by the gap: different threads then get different
numbers of a range that small.

**`PipelinesProofs`**, for any number of runs, commits and releases:
`PipelinesInvariance`, `ServedIsTested`, `StylesWereTested` and
`CacheIsNeverStale`. The properties speak of what is deployed; `PInv` follows it
back through tags, stages and layers. A layer belongs to its key's files
(`LayersAreSound`), so a verified stylesheet is its commit's own whether it was
cached or not; only a tested run gets past its first job (`RunsAreSound`); and a
commit's tag names that commit's image although every run also moves `:latest`
(`TagsAreSound`). `RunStep` reduces the steps of the first job to what they do
to their run. The assumption on the constants is that the placeholders `None`
and `Latest` are no commits, stylesheets or images.

**`DevLauncherProofs`**, for any number of Ctrl-C: `LauncherInvariance`,
`NothingIsLeft`, `NeverKilledUnasked` and `NobodyIsLeftUntold`. `Loops` says,
for each place in `main` and each entry its loop is at, which children have been
born, told and waited for; a Ctrl-C in `watch` is the only one that leaves
`main` in a loop, and it leaves it at its first entry. `ToldInv` has what the
last theorem needs, that nothing is started after a Ctrl-C (`StartsNoMore`).

**`HostUserGuardProofs`**, for any objects and values: `GuardHolds`. The
invariant is that the transaction sees `host.users` as it is committed, without
which a rollback could change it.

**Only model-checked:** liveness (`EveryRequestAnswered`, `AddFormComesFree`,
`NavCatchesUp`, `ShutdownEnds`, `EveryRunEnds`, `OneDownAllDown`, `CtrlCEndsIt`,
`CtrlCEndsTheWatcher`), which rests on fairness and ENABLED. Every invariant and
action property of the passing runs is stated by a theorem. No module has a
RECURSIVE operator, and nothing here needs an induction over data.

## 11. What is not modelled

- The token checks of `auth.py`: a call carries a user or nobody. The function
  is a chain of checks without state, done by the shared chrome library.
- In the handlers a payload is `ok`, `invalid` or `malformed`; `LinkSchemas` has
  what makes it so. The order of titles within a category.
- Connection pooling and row-lock waits between requests (a waiting statement is
  one not yet taken), the URL rewriting of `app/db/url.py`.
- In the browser: the disclosure that hides the add form, which edit forms are
  open, another page in another tab (its requests are those from elsewhere).
- Navigation grouping and rendering, done by the shared chrome library.
- Alembic's offline mode, which only prints SQL; the privileges revision 0001
  grants, which no later statement of this repository depends on.
- uvicorn's reloader: the supervisor and its worker are one process.
- The wording of the stylesheet's entry file and the fonts that are copied;
  static files; secrets, settings and load balancing.

Retries are the client's affair: a create is not idempotent, and a client that
repeats one after a 500 or a lost answer may store its link twice. The code
promises nothing else; `ImplementsStore` shows the doubt is limited to those
two.

## 12. Plan

The modules above exist; what is left, in this order:

1. Proofs: the safety half of liveness, a rank that each statement of a request
   lowers, for instance; what is left to TLC is then that it gets its turn.
2. `DocLinksLocking`: row locks, and flush and COMMIT as separate steps;
   implements `DocLinks` under a mapping that takes uncommitted changes back.
3. `LinkListing`: ORDER BY and groupby against a reference definition of
   grouping. `AuthToken`: cookies, expiry and subjects, the redirect and the
   401. Both are pure and matter less than the above.
