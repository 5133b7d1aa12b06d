------------------------------ MODULE DocLinks ------------------------------
(***************************************************************************)
(* The HTTP handlers of the doc-library service over their three tables:   *)
(* app/api/v1/doc_links.py, app/api/v1/preferences.py,                     *)
(* app/pages/doc_library.py and app/pages/doc_links_fragments.py, with the *)
(* queries of app/models.                                                  *)
(*                                                                         *)
(* Handlers are coroutines on one or more service instances.  One handler  *)
(* runs a statement of its own transaction at a time, and between any two  *)
(* statements every other request, and the Host's account deletion, may    *)
(* run.  Postgres works at READ COMMITTED: a SELECT sees what is committed *)
(* when it starts.  A flush and the COMMIT after it are one step: the      *)
(* flush holds its row locks until the COMMIT, so nothing can change what  *)
(* it found in between, and no other session sees it before.               *)
(*                                                                         *)
(* A definition named X_... right before X is a faulty variant of X, the   *)
(* mistake its name tells of.  Nothing uses it: it is there to be put in   *)
(* the place of X, to see that a property notices.                         *)
(***************************************************************************)
EXTENDS Naturals, FiniteSets

CONSTANTS
    User,       \* ids the Host issues tokens for
    LinkId,     \* ids uuid4 may draw for doc_links.id
    Request,    \* slots for the requests in progress at the same time
    Value,      \* what a column may hold; a number is its collation rank
    Calls,      \* the calls clients make
    Seeds,      \* contents of doc_links the service may be started on
    Leavers,    \* users whose account the Host may delete
    Faults,     \* whether a connection may break or an instance be killed
    Nobody,     \* the user of a call without a valid token
    NoLink,     \* an id that no row has ever had
    NoCall      \* the call of a slot that serves no request

Column == {"title", "url", "category"}
ViewMode == {"list", "tiles"}
DefaultViewMode == "list"
Surface == {"json", "fragment", "page"}

Attributes == [Column -> Value]
Row == [id : LinkId, user_id : User, attrs : Attributes]
Preference == [user_id : User, view_mode : ViewMode]

\* A payload as model_dump(exclude_unset=True) gives it: a value for each
\* column that was submitted.
Changes == UNION {[S -> Value] : S \in SUBSET Column}

\* "malformed" fails FastAPI's own parsing of the path and the form fields,
\* "invalid" fails the pydantic schema.
Body == {"ok", "invalid", "malformed"}

Call == [surface : Surface,
         op      : {"list", "create", "update", "delete", "setMode"},
         user    : User \cup {Nobody},
         id      : LinkId \cup {NoLink},
         changes : Changes,
         mode    : ViewMode,
         body    : Body]

\* What one line of a rendered list, or of a JSON answer, is made of: the row
\* the statement returned and the attributes the object in the session has.
Entry == [row : Row, shown : Attributes]

\* Every column is submitted by a create, and by the edit form's update.
WellFormedCall(c) ==
    /\ c \in Call
    /\ c.surface = "page" => c.op = "list"
    /\ c.surface = "fragment" => c.op # "list"
    /\ c.op = "create" => DOMAIN c.changes = Column
    /\ c.surface = "fragment" /\ c.op = "update" => DOMAIN c.changes = Column

UniqueIds(rows) == \A d, e \in rows : d.id = e.id => d = e

ASSUME CallsAssumption == \A c \in Calls : WellFormedCall(c)
ASSUME SeedsAssumption ==
    \A rows \in Seeds : rows \subseteq Row /\ UniqueIds(rows)
ASSUME ConstantsAssumption ==
    /\ Nobody \notin User
    /\ NoLink \notin LinkId
    /\ NoCall \notin Calls
    /\ Leavers \subseteq User
    /\ Value \subseteq Nat
    /\ Faults \in BOOLEAN

VARIABLES
    hostUsers,    \* host.users: the accounts that exist
    docLinks,     \* doc_library.doc_links, committed
    preferences,  \* doc_library.user_preferences, committed
    issued,       \* the ids uuid4 has drawn so far
    pc,           \* the statement a request is about to run
    call,         \* what the client asked for
    session,      \* the request's AsyncSession and the outcome of its COMMIT
    answer        \* the response so far

tables == <<hostUsers, docLinks, preferences, issued>>
vars == <<hostUsers, docLinks, preferences, issued, pc, call, session, answer>>

InFlight == {"select", "write", "refresh", "links", "mode"}
Status == {0, 200, 201, 204, 302, 401, 404, 422, 500}

NewSession == [id |-> NoLink, found |-> {}, durable |-> FALSE]
NoAnswer == [status |-> 0, entries |-> {}, mode |-> DefaultViewMode]

\* DocLink.id or user_id cannot change and no column is nullable, so every
\* state of the tables is described by the sets of rows below.
TypeOK ==
    /\ hostUsers \subseteq User
    /\ docLinks \subseteq Row
    /\ preferences \subseteq Preference
    /\ issued \subseteq LinkId
    /\ pc \in [Request -> InFlight \cup {"idle", "answered", "lost"}]
    /\ call \in [Request -> Calls \cup {NoCall}]
    /\ session \in [Request -> [id : LinkId \cup {NoLink},
                                found : SUBSET Row, durable : BOOLEAN]]
    /\ answer \in [Request -> [status : Status, entries : SUBSET Entry,
                               mode : ViewMode]]

Init ==
    /\ hostUsers = User
    /\ docLinks \in Seeds
    /\ preferences = {}
    /\ issued = {d.id : d \in docLinks}
    /\ pc = [r \in Request |-> "idle"]
    /\ call = [r \in Request |-> NoCall]
    /\ session = [r \in Request |-> NewSession]
    /\ answer = [r \in Request |-> NoAnswer]

-----------------------------------------------------------------------------
(* The queries of app/models.                                              *)

ListForUser(u) == {d \in docLinks : d.user_id = u}

GetOwnedDocLink_Anyones(i, u) == {d \in docLinks : d.id = i}

GetOwnedDocLink(i, u) == {d \in docLinks : d.id = i /\ d.user_id = u}

GetViewMode(u) ==
    IF \E p \in preferences : p.user_id = u
    THEN (CHOOSE p \in preferences : p.user_id = u).view_mode
    ELSE DefaultViewMode

SetViewMode_NoConflictClause(u, m) ==
    preferences \cup {[user_id |-> u, view_mode |-> m]}

\* INSERT ... ON CONFLICT (user_id) DO UPDATE.
SetViewMode(u, m) ==
    {p \in preferences : p.user_id # u}
        \cup {[user_id |-> u, view_mode |-> m]}

Merge_TooLate(attrs, changes) == attrs

\* setattr for every submitted field of an object loaded with attrs.
Merge(attrs, changes) ==
    [c \in Column |-> IF c \in DOMAIN changes THEN changes[c] ELSE attrs[c]]

\* The columns the unit of work finds changed: an attribute set to the value
\* it was loaded with is not part of the UPDATE.
Dirty(attrs, changes) == {c \in DOMAIN changes : changes[c] # attrs[c]}

\* UPDATE doc_links SET <dirty columns> WHERE id = i.
UpdateDocLink(i, dirty, changes) ==
    {IF d.id = i
     THEN [d EXCEPT !.attrs = [c \in Column |->
              IF c \in dirty THEN changes[c] ELSE d.attrs[c]]]
     ELSE d : d \in docLinks}

\* The object loaded by get_owned_doc_link.
Loaded(r) == CHOOSE d \in session[r].found : TRUE

\* A SELECT does not overwrite an object the session already holds: sessions
\* are made with expire_on_commit=False and an edit's handler keeps a
\* reference to its doc_link, so that row shows the attributes of the object.
Shown(r, d) ==
    IF call[r].op = "update" /\ session[r].found # {} /\ d.id = Loaded(r).id
    THEN Merge(Loaded(r).attrs, call[r].changes)
    ELSE d.attrs

-----------------------------------------------------------------------------
(* The life of a request.                                                  *)

GoTo(r, label) == pc' = [pc EXCEPT ![r] = label]

\* The handler returns or raises; the session closes, and what it has not
\* committed is rolled back.
Respond(r, status) ==
    /\ GoTo(r, "answered")
    /\ answer' = [answer EXCEPT ![r].status = status]

\* Refused before any statement.  The update fragment looks up the link before
\* it validates, every other handler validates first.
Unread(c) ==
    \/ c.body = "malformed"
    \/ c.body = "invalid" /\ ~(c.surface = "fragment" /\ c.op = "update")

FirstStep(c) ==
    IF c.op \in {"update", "delete"} THEN "select"
    ELSE IF c.op = "list" THEN "links"
    ELSE "write"

\* FastAPI reads a JSON body before it calls any dependency.
Unparsed(c) ==
    /\ c.surface = "json" /\ c.op \in {"create", "update", "setMode"}
    /\ c.body = "malformed"

\* A bound of the model: there is an id left for each create in progress.
RoomForCreate ==
    Cardinality({q \in Request : pc[q] = "write" /\ call[q].op = "create"})
        < Cardinality(LinkId \ issued)

\* current_user_id(_optional), then validation, then the handler starts.
Receive(r, c) ==
    /\ pc[r] = "idle"
    /\ c.id \in issued \cup {NoLink}
    /\ c.op = "create" => RoomForCreate
    /\ call' = [call EXCEPT ![r] = c]
    /\ \/ c.user = Nobody /\ c.surface = "page" /\ Respond(r, 302)
       \/ c.user = Nobody /\ c.surface # "page" /\ Respond(r, 401)
       \/ /\ Unparsed(c) \/ (c.user # Nobody /\ Unread(c))
          /\ Respond(r, 422)
       \/ /\ c.user # Nobody /\ ~Unread(c)
          /\ GoTo(r, FirstStep(c))
          /\ UNCHANGED answer
    /\ UNCHANGED <<tables, session>>

\* doc_link = await get_owned_doc_link(...), and what is done with it.
SelectOwned(r) ==
    /\ pc[r] = "select"
    /\ LET found == GetOwnedDocLink(call[r].id, call[r].user) IN
        /\ session' = [session EXCEPT ![r].found = found]
        /\ \/ found = {} /\ Respond(r, 404)
           \/ found # {} /\ call[r].body = "invalid" /\ Respond(r, 422)
           \/ found # {} /\ call[r].body = "ok" /\ GoTo(r, "write")
                                                /\ UNCHANGED answer
    /\ UNCHANGED <<tables, call>>

\* What follows a COMMIT that took effect.  Its acknowledgement may be lost
\* with the connection: commit() then raises although the change is durable.
Committed(r, id) ==
    /\ session' = [session EXCEPT ![r].durable = TRUE, ![r].id = id]
    /\ \/ Faults /\ Respond(r, 500)
       \/ /\ call[r].surface = "fragment"
          /\ GoTo(r, "links")
          /\ UNCHANGED answer
       \/ /\ call[r].surface = "json" /\ call[r].op = "create"
          /\ GoTo(r, "refresh")
          /\ UNCHANGED answer
       \/ /\ call[r].surface = "json" /\ call[r].op = "update"
          /\ GoTo(r, "answered")
          /\ answer' = [answer EXCEPT ![r].status = 200,
                ![r].entries = {[row |-> Loaded(r),
                                 shown |-> Shown(r, Loaded(r))]}]
       \/ /\ call[r].surface = "json" /\ call[r].op = "delete"
          /\ Respond(r, 204)
       \/ /\ call[r].surface = "json" /\ call[r].op = "setMode"
          /\ GoTo(r, "answered")
          /\ answer' = [answer EXCEPT ![r].status = 200,
                                      ![r].mode = call[r].mode]

CommitCreate_NoForeignKey(r) ==
    /\ pc[r] = "write" /\ call[r].op = "create"
    /\ \E i \in LinkId \ issued :
        /\ docLinks' = docLinks \cup {[id |-> i, user_id |-> call[r].user,
                                       attrs |-> call[r].changes]}
        /\ issued' = issued \cup {i}
        /\ Committed(r, i)
    /\ UNCHANGED <<hostUsers, preferences, call>>

\* db.add(DocLink(...)); await db.commit() - the user's row must exist.
CommitCreate(r) ==
    /\ pc[r] = "write" /\ call[r].op = "create"
    /\ call[r].user \in hostUsers
    /\ \E i \in LinkId \ issued :
        /\ docLinks' = docLinks \cup {[id |-> i, user_id |-> call[r].user,
                                       attrs |-> call[r].changes]}
        /\ issued' = issued \cup {i}
        /\ Committed(r, i)
    /\ UNCHANGED <<hostUsers, preferences, call>>

CommitUpdate_AllColumns(r) ==
    /\ pc[r] = "write" /\ call[r].op = "update"
    /\ \E d \in docLinks : d.id = Loaded(r).id
    /\ docLinks' = UpdateDocLink(Loaded(r).id, Column,
                      Merge(Loaded(r).attrs, call[r].changes))
    /\ Committed(r, Loaded(r).id)
    /\ UNCHANGED <<hostUsers, preferences, issued, call>>

CommitUpdate_Upsert(r) ==
    /\ pc[r] = "write" /\ call[r].op = "update"
    /\ Loaded(r).user_id \in hostUsers
    /\ docLinks' = {d \in docLinks : d.id # Loaded(r).id} \cup
          {[Loaded(r) EXCEPT !.attrs = Merge(@, call[r].changes)]}
    /\ Committed(r, Loaded(r).id)
    /\ UNCHANGED <<hostUsers, preferences, issued, call>>

\* await db.commit() after the setattr loop.  Nothing is sent to the database
\* when no attribute changed, so the row is then not even looked for.
CommitUpdate(r) ==
    /\ pc[r] = "write" /\ call[r].op = "update"
    /\ LET dirty == Dirty(Loaded(r).attrs, call[r].changes) IN
        /\ dirty = {} \/ \E d \in docLinks : d.id = Loaded(r).id
        /\ docLinks' = UpdateDocLink(Loaded(r).id, dirty, call[r].changes)
    /\ Committed(r, Loaded(r).id)
    /\ UNCHANGED <<hostUsers, preferences, issued, call>>

\* The UPDATE matches no row: StaleDataError, which no handler catches.
UpdateMatchesNothing(r) ==
    /\ pc[r] = "write" /\ call[r].op = "update"
    /\ Dirty(Loaded(r).attrs, call[r].changes) # {}
    /\ \A d \in docLinks : d.id # Loaded(r).id
    /\ Respond(r, 500)
    /\ UNCHANGED <<tables, call, session>>

CommitDelete_IfUnchanged(r) ==
    /\ pc[r] = "write" /\ call[r].op = "delete"
    /\ docLinks' = docLinks \ session[r].found
    /\ Committed(r, Loaded(r).id)
    /\ UNCHANGED <<hostUsers, preferences, issued, call>>

\* await db.delete(doc_link); await db.commit().  A DELETE that matches no row
\* only warns.
CommitDelete(r) ==
    /\ pc[r] = "write" /\ call[r].op = "delete"
    /\ docLinks' = {d \in docLinks : d.id # Loaded(r).id}
    /\ Committed(r, Loaded(r).id)
    /\ UNCHANGED <<hostUsers, preferences, issued, call>>

\* await set_view_mode(...); await db.commit().
CommitMode(r) ==
    /\ pc[r] = "write" /\ call[r].op = "setMode"
    /\ call[r].user \in hostUsers
    /\ preferences' = SetViewMode(call[r].user, call[r].mode)
    /\ Committed(r, NoLink)
    /\ UNCHANGED <<hostUsers, docLinks, issued, call>>

AccountIsGone_Retries(r) ==
    /\ pc[r] = "write" /\ call[r].op \in {"create", "setMode"}
    /\ call[r].user \notin hostUsers
    /\ UNCHANGED vars

\* The foreign key rejects a row of an account that is gone: IntegrityError.
AccountIsGone(r) ==
    /\ pc[r] = "write" /\ call[r].op \in {"create", "setMode"}
    /\ call[r].user \notin hostUsers
    /\ Respond(r, 500)
    /\ UNCHANGED <<tables, call, session>>

\* await db.refresh(doc_link): a new SELECT, which fails if the row is gone.
Refresh(r) ==
    /\ pc[r] = "refresh"
    /\ LET row == {d \in docLinks : d.id = session[r].id} IN
        \/ row = {} /\ Respond(r, 500)
        \/ /\ row # {}
           /\ GoTo(r, "answered")
           /\ answer' = [answer EXCEPT ![r].status = 201,
                ![r].entries = {[row |-> d, shown |-> d.attrs] : d \in row}]
    /\ UNCHANGED <<tables, call, session>>

\* list_for_user / list_grouped_by_category: the JSON list ends here.  The page
\* has read host.users before, for its colours, and does without the row.
SelectLinks(r) ==
    /\ pc[r] = "links"
    /\ answer' = [answer EXCEPT
          ![r].entries = {[row |-> d, shown |-> Shown(r, d)] :
                              d \in ListForUser(call[r].user)},
          ![r].status = IF call[r].surface = "json" THEN 200 ELSE @]
    /\ GoTo(r, IF call[r].surface = "json" THEN "answered" ELSE "mode")
    /\ UNCHANGED <<tables, call, session>>

\* get_view_mode, and the template is rendered.
SelectMode(r) ==
    /\ pc[r] = "mode"
    /\ GoTo(r, "answered")
    /\ answer' = [answer EXCEPT ![r].status = 200,
                                ![r].mode = GetViewMode(call[r].user)]
    /\ UNCHANGED <<tables, call, session>>

\* A statement raises because the connection is gone.
Fail(r) ==
    /\ Faults
    /\ pc[r] \in InFlight
    /\ Respond(r, 500)
    /\ UNCHANGED <<tables, call, session>>

\* The instance is killed: no answer.  Each request can be lost alone, which
\* includes the loss of all those an instance serves.
Lose(r) ==
    /\ Faults
    /\ pc[r] \in InFlight
    /\ GoTo(r, "lost")
    /\ UNCHANGED <<tables, call, session, answer>>

\* The slot becomes free for the next request.
Close(r) ==
    /\ pc[r] \in {"answered", "lost"}
    /\ GoTo(r, "idle")
    /\ call' = [call EXCEPT ![r] = NoCall]
    /\ session' = [session EXCEPT ![r] = NewSession]
    /\ answer' = [answer EXCEPT ![r] = NoAnswer]
    /\ UNCHANGED tables

\* The Host deletes an account; both foreign keys are ON DELETE CASCADE.
DeleteAccount(u) ==
    /\ u \in hostUsers
    /\ hostUsers' = hostUsers \ {u}
    /\ docLinks' = {d \in docLinks : d.user_id # u}
    /\ preferences' = {p \in preferences : p.user_id # u}
    /\ UNCHANGED <<issued, pc, call, session, answer>>

Write(r) ==
    \/ CommitCreate(r)
    \/ CommitUpdate(r)
    \/ UpdateMatchesNothing(r)
    \/ CommitDelete(r)
    \/ CommitMode(r)
    \/ AccountIsGone(r)

Progress(r) ==
    \/ SelectOwned(r)
    \/ Write(r)
    \/ Refresh(r)
    \/ SelectLinks(r)
    \/ SelectMode(r)

Next ==
    \/ \E r \in Request, c \in Calls : Receive(r, c)
    \/ \E r \in Request : Progress(r) \/ Fail(r) \/ Lose(r) \/ Close(r)
    \/ \E u \in Leavers : DeleteAccount(u)

Spec == Init /\ [][Next]_vars

\* The event loop resumes a handler whose statement has returned, and asyncpg
\* returns or raises.  Clients and the Host owe nothing.
FairSpec == Spec /\ \A r \in Request : WF_vars(Progress(r))

-----------------------------------------------------------------------------
(* What must hold.                                                         *)

HasRow(i) == \E d \in docLinks : d.id = i

\* No row outlives its account, whatever a handler that was authenticated
\* before the account was deleted still writes.
ForeignKeys ==
    /\ \A d \in docLinks : d.user_id \in hostUsers
    /\ \A p \in preferences : p.user_id \in hostUsers

\* A link has one row under an id that was drawn for it, and a user has one
\* preference however many first writes run at once.
PrimaryKeys ==
    /\ UniqueIds(docLinks)
    /\ \A d \in docLinks : d.id \in issued
    /\ \A p, q \in preferences : p.user_id = q.user_id => p = q

\* Whatever rows a handler holds or has put into an answer belong to the user
\* of its token.
OnlyOwnRows ==
    \A r \in Request :
        /\ \A d \in session[r].found : d.user_id = call[r].user
        /\ \A e \in answer[r].entries : e.row.user_id = call[r].user

\* Once a DELETE has committed the link is gone, also when edits of it that
\* had read it before are still under way.
DeletedForGood ==
    \A r \in Request :
        call[r] # NoCall /\ call[r].op = "delete" /\ session[r].durable
            => ~HasRow(call[r].id)

\* A 404 is final: the link is not, and never again becomes, a row of the
\* caller, so a client may forget an id that was answered 404.
NotFoundIsFinal ==
    \A r \in Request :
        answer[r].status = 404 =>
            \A d \in docLinks :
                ~(d.id = call[r].id /\ d.user_id = call[r].user)

\* What an update, create or delete fragment renders includes its own effect:
\* the new link is listed, the edited one with the submitted values, the
\* deleted one is not - unless the link was deleted by somebody else meanwhile.
OwnEffectShown ==
    \A r \in Request :
        answer[r].status = 200 /\ call[r].surface = "fragment" =>
            LET shown(i) == {e \in answer[r].entries : e.row.id = i} IN
            /\ call[r].op = "create" =>
                  shown(session[r].id) # {} \/ ~HasRow(session[r].id)
            /\ call[r].op = "update" =>
                  \/ shown(call[r].id) = {} /\ ~HasRow(call[r].id)
                  \/ /\ shown(call[r].id) # {}
                     /\ \A e \in shown(call[r].id) : e.shown = call[r].changes
            /\ call[r].op = "delete" => shown(call[r].id) = {}

\* The id of a link that was deleted is never seen on a row again: an edit
\* that loaded the link before does not bring it back.
NoResurrection ==
    [][\A i \in issued : ~HasRow(i) => ~HasRow(i)']_vars

\* The request whose COMMIT this step is.
Commits(r) == pc[r] = "write" /\ session'[r].durable

\* After an edit, a column has its old value or one that was submitted for it.
EditedWithin(d, e, changes) ==
    /\ e.id = d.id /\ e.user_id = d.user_id
    /\ \A c \in Column :
          \/ e.attrs[c] = d.attrs[c]
          \/ c \in DOMAIN changes /\ e.attrs[c] = changes[c]

\* A row changes or disappears only by the COMMIT of a call of its owner on
\* its id, or with its account, and an edit leaves the columns alone that its
\* call does not submit: two edits of different columns both survive.
WritesStayWithinCall ==
    [][/\ \A d \in docLinks \ docLinks' :
            \/ d.user_id \notin hostUsers'
            \/ \E r \in Request :
                /\ Commits(r)
                /\ call[r].id = d.id /\ call[r].user = d.user_id
                /\ \/ call[r].op = "delete"
                   \/ /\ call[r].op = "update"
                      /\ \E e \in docLinks' :
                            EditedWithin(d, e, call[r].changes)
       /\ \A p \in preferences' \ preferences :
            \E r \in Request :
                /\ Commits(r) /\ call[r].op = "setMode"
                /\ p = [user_id |-> call[r].user, view_mode |-> call[r].mode]
      ]_vars

\* Every request that was let in is answered, unless its instance is killed.
EveryRequestAnswered ==
    \A r \in Request :
        pc[r] \in InFlight ~> pc[r] \in {"answered", "lost"}

-----------------------------------------------------------------------------
(* The inductive invariant: what a request may rely on between statements. *)

\* Where a request stands determines what it holds.  What it found is its
\* caller's link, and an edit or delete only goes on if it found one.
Bookkeeping(r) ==
    /\ pc[r] = "idle" =>
         call[r] = NoCall /\ session[r] = NewSession /\ answer[r] = NoAnswer
    /\ pc[r] # "idle" =>
         call[r] \in Calls /\ call[r].id \in issued \cup {NoLink}
    /\ pc[r] \in InFlight => call[r].user \in User
    /\ pc[r] = "select" => call[r].op \in {"update", "delete"}
    /\ pc[r] \in {"select", "write"} => ~session[r].durable
    /\ pc[r] = "refresh" => session[r].id # NoLink
    /\ pc[r] = "write" \/ session[r].durable =>
         (call[r].op \in {"update", "delete"} => session[r].found # {})
    /\ \A d \in session[r].found :
         d.id = call[r].id /\ d.user_id = call[r].user

\* What was created or found may have been changed or deleted since, but the
\* id has not passed to another owner; what was deleted or not found has not
\* come back.
Knowledge(r) ==
    /\ session[r].id # NoLink =>
         /\ session[r].id \in issued
         /\ \A d \in docLinks :
              d.id = session[r].id => d.user_id = call[r].user
    /\ session[r].found # {} =>
         \A d \in docLinks : d.id = call[r].id => d.user_id = call[r].user
    /\ session[r].durable /\ call[r].op = "delete" => ~HasRow(call[r].id)
    /\ answer[r].status = 404 =>
         \A d \in docLinks : ~(d.id = call[r].id /\ d.user_id = call[r].user)
    /\ \A e \in answer[r].entries : e.row.user_id = call[r].user

IInv ==
    /\ TypeOK
    /\ ForeignKeys
    /\ PrimaryKeys
    /\ \A r \in Request : Bookkeeping(r) /\ Knowledge(r)

-----------------------------------------------------------------------------
(* Every call takes effect at most once, at its COMMIT, on its caller's own  *)
(* rows, and its status tells whether it did.                              *)

StageOf(label) ==
    IF label = "idle" THEN "idle"
    ELSE IF label \in InFlight THEN "open"
    ELSE "over"

VerdictOf(label, status) ==
    IF label = "lost" THEN "failed"
    ELSE IF label # "answered" THEN "none"
    ELSE IF status \in {200, 201, 204} THEN "done"
    ELSE IF status = 500 THEN "failed"
    ELSE "refused"

Store == INSTANCE LinkStore WITH
    accounts <- hostUsers,
    links <- docLinks,
    modes <- preferences,
    stage <- [r \in Request |-> StageOf(pc[r])],
    took <- [r \in Request |-> session[r].durable],
    verdict <- [r \in Request |-> VerdictOf(pc[r], answer[r].status)]

\* The handlers implement the store that LinkStore promises.
ImplementsStore == Store!Spec

-----------------------------------------------------------------------------
(* What the documentation promises and the code does not keep.             *)

\* ORDER BY category, title.
Before(d, e) ==
    \/ d.attrs["category"] < e.attrs["category"]
    \/ /\ d.attrs["category"] = e.attrs["category"]
       /\ d.attrs["title"] < e.attrs["title"]

\* itertools.groupby merges neighbours of equal category: a category whose
\* links are not neighbours in the order of the statement gets two groups.
\* list_grouped_by_category's docstring relies on this never happening.
CategoriesAreContiguous ==
    \A r \in Request : \A a, x, b \in answer[r].entries :
        Before(a.row, x.row) /\ Before(x.row, b.row)
            /\ a.shown["category"] = b.shown["category"]
            => x.shown["category"] = a.shown["category"]

\* An id that is not a link of the caller is answered 404: an edit whose link
\* has gone by the time it is answered is no server error.
MissingLinkIsNoServerError ==
    \A r \in Request :
        call[r] # NoCall /\ call[r].op = "update" /\ ~HasRow(call[r].id)
            => answer[r].status # 500
=============================================================================
