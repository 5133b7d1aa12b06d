---------------------------- MODULE LibraryPage -----------------------------
(***************************************************************************)
(* The Doc Library page in a visitor's browser, composed with the handlers *)
(* of DocLinks: app/templates/pages/doc_library.html with its partials,    *)
(* and what htmx 1.9.12 does with the attributes written there.            *)
(*                                                                         *)
(* The add form is outside #doc-links-list, everything else inside it.     *)
(* htmx looks the target up when it sends a request; a 2xx response is     *)
(* swapped in with outerHTML, which throws if that very element has left   *)
(* the page by then.  An element has one request at a time and remembers   *)
(* the last trigger that came meanwhile.                                   *)
(***************************************************************************)
EXTENDS DocLinks

CONSTANTS
    Visitor,    \* the user whose page it is
    Patient     \* whether the visitor leaves the page alone while a request
                \* of another element is under way

VARIABLES
    page,       \* whether the page is open, and the list it shows
    draft,      \* the create call the add form would submit, if it is filled in
    typed,      \* history: the drafts typed so far
    waiting,    \* what waits for a request's response
    queued,     \* calls of elements that were triggered while busy
    stuck,      \* whether the add form's request was never marked as ended
    errors,     \* the forms that show an error banner
    departed    \* history: links that left the list since the page was loaded

pageVars == <<page, draft, typed, waiting, queued, stuck, errors, departed>>

PageCalls == {c \in Calls : c.surface = "fragment"
                              /\ c.user \in {Visitor, Nobody}}

\* The element a call is triggered from: the add form, a link's edit form or
\* delete button, or one of the two view buttons.
ElementOf(c) == [op |-> c.op, id |-> c.id, mode |-> c.mode]
AddForm == [op |-> "create", id |-> NoLink, mode |-> DefaultViewMode]

\* There is one add form.
ASSUME PageAssumption ==
    /\ Visitor \in User
    /\ Patient \in BOOLEAN
    /\ \A c \in PageCalls : c.op = "create" => ElementOf(c) = AddForm

\* "live": an element waits, and its target is in the page.  "orphan": an
\* element waits, and its target has been swapped away.  "browser": the page
\* is being loaded.
Waits == {"no", "live", "orphan", "browser"}

PageTypeOK ==
    /\ page \in [open : BOOLEAN, entries : SUBSET Entry, mode : ViewMode]
    /\ draft \in PageCalls \cup {NoCall}
    /\ typed \subseteq PageCalls
    /\ waiting \in [Request -> Waits]
    /\ queued \subseteq PageCalls
    /\ \A c, d \in queued : ElementOf(c) = ElementOf(d) => c = d
    /\ stuck \in BOOLEAN
    /\ errors \subseteq {ElementOf(c) : c \in PageCalls}
    /\ departed \subseteq LinkId

PageInit ==
    /\ Init
    /\ page = [open |-> TRUE, mode |-> DefaultViewMode,
               entries |-> {[row |-> d, shown |-> d.attrs] :
                                d \in ListForUser(Visitor)}]
    /\ draft = NoCall /\ typed = {}
    /\ waiting = [r \in Request |-> "no"]
    /\ queued = {} /\ stuck = FALSE /\ errors = {} /\ departed = {}

Ids(entries) == {e.row.id : e \in entries}

\* A swap replaces the elements of the list by new ones that are not busy.
Busy(e) ==
    \/ e = AddForm /\ stuck
    \/ \E r \in Request :
        /\ waiting[r] = "live" \/ (waiting[r] = "orphan" /\ e = AddForm)
        /\ ElementOf(call[r]) = e

\* JavaScript runs to completion: a remembered trigger goes out before the
\* visitor can do anything else.
Settled == page.open /\ \A q \in queued : Busy(ElementOf(q))

MayTouch(e) ==
    Patient => \A r \in Request :
                  waiting[r] # "no" => ElementOf(call[r]) = e

\* The browser lets a form be submitted only when its fields are filled in.
Triggers(c) ==
    IF c.op = "create" THEN c = draft
    ELSE c.op \in {"update", "delete"} => c.id \in Ids(page.entries)

-----------------------------------------------------------------------------
(* The visitor.                                                            *)

\* The add form is filled in, or what is in it is replaced.
TypeDraft(c) ==
    /\ Settled /\ c.op = "create" /\ c \notin typed
    /\ draft' = c
    /\ typed' = typed \cup {c}
    /\ UNCHANGED <<vars, page, waiting, queued, stuck, errors, departed>>

Send(r, c) ==
    /\ Receive(r, c)
    /\ waiting' = [waiting EXCEPT ![r] = "live"]

Trigger(r, c) ==
    /\ Settled /\ Triggers(c) /\ MayTouch(ElementOf(c))
    /\ ~Busy(ElementOf(c))
    /\ Send(r, c)
    /\ UNCHANGED <<page, draft, typed, queued, stuck, errors, departed>>

TriggerAgain_QueuesAll(c) ==
    /\ Settled /\ Triggers(c) /\ MayTouch(ElementOf(c))
    /\ Busy(ElementOf(c))
    /\ queued' = queued \cup {c}
    /\ UNCHANGED <<vars, page, draft, typed, waiting, stuck, errors, departed>>

\* A second click.  Only the last trigger is remembered.
TriggerAgain(c) ==
    /\ Settled /\ Triggers(c) /\ MayTouch(ElementOf(c))
    /\ Busy(ElementOf(c))
    /\ queued' = {q \in queued : ElementOf(q) # ElementOf(c)} \cup {c}
    /\ UNCHANGED <<vars, page, draft, typed, waiting, stuck, errors, departed>>

\* GET /doc-library.  The page stays as it is until the answer is there.
Reload(r, c) ==
    /\ c.surface = "page" /\ c.user = Visitor
    /\ \A q \in Request : waiting[q] # "browser"
    /\ Patient => queued = {} /\ \A q \in Request : waiting[q] = "no"
    /\ Receive(r, c)
    /\ waiting' = [waiting EXCEPT ![r] = "browser"]
    /\ UNCHANGED <<page, draft, typed, queued, stuck, errors, departed>>

\* Other tabs, other users, clients of the JSON API.
Elsewhere(r, c) ==
    /\ c.surface = "json"
    /\ Receive(r, c)
    /\ UNCHANGED pageVars

-----------------------------------------------------------------------------
(* htmx.                                                                   *)

Unlocked(q) == q \in queued /\ page.open /\ ~Busy(ElementOf(q))

\* The remembered trigger reads the form anew.
SendQueued(r) ==
    \E q \in queued :
        /\ Unlocked(q)
        /\ IF q.op = "create" THEN draft # NoCall /\ Send(r, draft)
                              ELSE Send(r, q)
        /\ queued' = queued \ {q}
        /\ UNCHANGED <<page, draft, typed, stuck, errors, departed>>

\* The fields are required and empty, or the visitor declines hx-confirm.
DropQueued ==
    \E q \in queued :
        /\ Unlocked(q)
        /\ q.op = "delete" \/ (q.op = "create" /\ draft = NoCall)
        /\ queued' = queued \ {q}
        /\ UNCHANGED <<vars, page, draft, typed, waiting, stuck, errors,
                       departed>>

Shows_TogglesOutsideList(r) ==
    [open |-> TRUE, entries |-> answer[r].entries, mode |-> page.mode]

Shows(r) == [open |-> TRUE, entries |-> answer[r].entries,
             mode |-> answer[r].mode]

\* after-request hides the banner and resets the form, edit forms are new.
AfterRequest_KeepsDraft(r) ==
    /\ errors' = (IF call[r].op = "create" THEN {} ELSE errors \cap {AddForm})
    /\ UNCHANGED draft

AfterRequest(r) ==
    IF call[r].op = "create"
    THEN draft' = NoCall /\ errors' = {}
    ELSE UNCHANGED draft /\ errors' = errors \cap {AddForm}

Swap_AnyTarget(r) ==
    /\ answer[r].status = 200 /\ waiting[r] \in {"live", "orphan"}
    /\ Close(r)
    /\ page' = Shows(r)
    /\ departed' = departed \cup (Ids(page.entries) \ Ids(answer[r].entries))
    /\ waiting' = [q \in Request |->
                      IF q = r THEN "no"
                      ELSE IF waiting[q] = "live" THEN "orphan"
                      ELSE waiting[q]]
    /\ queued' = {q \in queued : ElementOf(q) = AddForm}
    /\ AfterRequest(r)
    /\ UNCHANGED <<typed, stuck>>

\* hx-swap="outerHTML" of the list that was the target.
Swap(r) ==
    /\ answer[r].status = 200 /\ waiting[r] = "live"
    /\ Close(r)
    /\ page' = Shows(r)
    /\ departed' = departed \cup (Ids(page.entries) \ Ids(answer[r].entries))
    /\ waiting' = [q \in Request |->
                      IF q = r THEN "no"
                      ELSE IF waiting[q] = "live" THEN "orphan"
                      ELSE waiting[q]]
    /\ queued' = {q \in queued : ElementOf(q) = AddForm}
    /\ AfterRequest(r)
    /\ UNCHANGED <<typed, stuck>>

Ended(r) == waiting' = [waiting EXCEPT ![r] = "no"]

\* The target is gone: the swap throws, and htmx neither fires after-request
\* nor lets the element send again.
SwapThrows(r) ==
    /\ answer[r].status = 200 /\ waiting[r] = "orphan"
    /\ Close(r) /\ Ended(r)
    /\ stuck' = (stuck \/ call[r].op = "create")
    /\ UNCHANGED <<page, draft, typed, queued, errors, departed>>

\* The forms that a refusal's banner becomes visible in: a form that was swapped
\* away shows nothing.
Banner(r) ==
    {e \in {ElementOf(call[r])} :
        e = AddForm \/ (e.op = "update" /\ waiting[r] = "live")}

ShowFormError_ResetsForm(r) ==
    /\ answer[r].status = 422 /\ waiting[r] \in {"live", "orphan"}
    /\ Close(r) /\ Ended(r)
    /\ errors' = errors \cup Banner(r)
    /\ draft' = IF call[r].op = "create" THEN NoCall ELSE draft
    /\ UNCHANGED <<page, typed, queued, stuck, departed>>

\* docLibraryShowFormError.
ShowFormError(r) ==
    /\ answer[r].status = 422 /\ waiting[r] \in {"live", "orphan"}
    /\ Close(r) /\ Ended(r)
    /\ errors' = errors \cup Banner(r)
    /\ UNCHANGED <<page, draft, typed, queued, stuck, departed>>

OtherFailure_StaysBusy(r) ==
    /\ pc[r] = "lost" \/ answer[r].status \in {401, 404, 500}
    /\ waiting[r] \in {"live", "orphan"}
    /\ Close(r) /\ Ended(r)
    /\ stuck' = (stuck \/ call[r].op = "create")
    /\ UNCHANGED <<page, draft, typed, queued, errors, departed>>

\* Any other error, or no response at all: nothing to see.
OtherFailure(r) ==
    /\ pc[r] = "lost" \/ answer[r].status \in {401, 404, 500}
    /\ waiting[r] \in {"live", "orphan"}
    /\ Close(r) /\ Ended(r)
    /\ UNCHANGED <<page, draft, typed, queued, stuck, errors, departed>>

\* Another document takes the page's place; its requests are abandoned.
NewDocument(shown) ==
    /\ page' = shown
    /\ waiting' = [r \in Request |-> "no"]
    /\ draft' = NoCall /\ queued' = {} /\ stuck' = FALSE
    /\ errors' = {} /\ departed' = {}
    /\ UNCHANGED typed

Load(r) ==
    /\ waiting[r] = "browser" /\ pc[r] \in {"answered", "lost"}
    /\ Close(r)
    /\ NewDocument(IF pc[r] = "answered" /\ answer[r].status = 200
                   THEN Shows(r)
                   ELSE [open |-> FALSE, entries |-> {},
                         mode |-> DefaultViewMode])

Deliver(r) == Swap(r) \/ SwapThrows(r) \/ ShowFormError(r) \/ OtherFailure(r)
                \/ Load(r)

-----------------------------------------------------------------------------
ServerStep(r) ==
    /\ \/ Progress(r) \/ Fail(r) \/ Lose(r)
       \/ waiting[r] = "no" /\ Close(r)
    /\ UNCHANGED pageVars

HostDeletesAccount(u) == DeleteAccount(u) /\ UNCHANGED pageVars

PageNext ==
    \/ \E r \in Request, c \in PageCalls : Trigger(r, c)
    \/ \E c \in PageCalls : TypeDraft(c) \/ TriggerAgain(c)
    \/ \E r \in Request, c \in Calls : Reload(r, c) \/ Elsewhere(r, c)
    \/ \E r \in Request : SendQueued(r) \/ Deliver(r) \/ ServerStep(r)
    \/ DropQueued
    \/ \E u \in Leavers : HostDeletesAccount(u)

allVars == <<vars, pageVars>>

PageSpec == PageInit /\ [][PageNext]_allVars

\* As in FairSpec, and a response reaches the browser, as an error at least.
FairPageSpec ==
    /\ PageSpec
    /\ \A r \in Request :
        /\ WF_allVars(Progress(r) /\ UNCHANGED pageVars)
        /\ WF_allVars(Deliver(r))

-----------------------------------------------------------------------------
(* What must hold.                                                         *)

\* A link that has left the list is not seen in it again before the page is
\* loaded anew: of two responses the older list never replaces the newer.
NoGhosts == departed \cap Ids(page.entries) = {}

\* A swap takes a link out of the list only when the link is deleted, and
\* nothing but a swap or a load changes the list.
OnlyDeletedLeave ==
    [][\A i \in Ids(page.entries) \ Ids(page'.entries) :
          HasRow(i) => \E r \in Request : Load(r)]_allVars

\* The calls that can store what the add form submits.
Drafts == {c \in PageCalls : c.op = "create" /\ c.user = Visitor
                              /\ c.body = "ok"}

\* By its value in column k each draft is told from the others, and from
\* whatever anybody else stores.
TellsDrafts(k) ==
    \A c \in PageCalls : c.op = "create" =>
        /\ \A rows \in Seeds : \A d \in rows : d.attrs[k] # c.changes[k]
        /\ \A e \in Calls :
              /\ e.op \in {"create", "update"} /\ e.user # Nobody
              /\ e.body = "ok" /\ k \in DOMAIN e.changes
              /\ e.changes[k] = c.changes[k]
              => e \in Drafts /\ (c \in Drafts => e = c)

\* A draft is stored once, however often its form was submitted, as long as
\* no answer was a server error.  (No edit in the runs makes another link look
\* like a draft: TellsDrafts.)
AddedOnce ==
    \A d, e \in docLinks :
        d.attrs = e.attrs /\ (\E c \in typed : c.changes = d.attrs) => d = e

\* While the add form shows why a submission was refused, there is still
\* something in it to correct: no other answer empties it and leaves the banner.
RefusedDraftIsKept == AddForm \in errors => draft # NoCall

AtRest == /\ page.open /\ queued = {}
          /\ \A r \in Request : waiting[r] = "no" /\ pc[r] = "idle"

\* The visitor changes nothing but on this page.
QuietElsewhere ==
    \A c \in Calls : c.user = Visitor /\ c.surface = "json" => c.op = "list"

\* Once every request is answered the page shows what is stored, in the
\* stored view mode, as long as the account exists.
PageIsTrue ==
    AtRest /\ Visitor \in hostUsers =>
        /\ page.entries = {[row |-> d, shown |-> d.attrs] :
                              d \in ListForUser(Visitor)}
        /\ page.mode = GetViewMode(Visitor)

\* The add form does not stay busy: it can be submitted again in the end.
AddFormComesFree == Busy(AddForm) ~> ~Busy(AddForm)
=============================================================================
