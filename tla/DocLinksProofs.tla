--------------------------- MODULE DocLinksProofs ---------------------------
(* Theorems about DocLinks, for every value of its constants: its          *)
(* invariants first, then what a call does to the tables and to its        *)
(* answer, up to the refinement of LinkStore.                              *)
EXTENDS DocLinks, TLAPS

-----------------------------------------------------------------------------
(* Lemmas about calls and about the operators the handlers are built from. *)

\* A submitted column holds a value, and a create submits every column.
LEMMA CallFields ==
    ASSUME NEW c \in Calls
    PROVE  /\ c.user \in User \cup {Nobody}
           /\ c.id \in LinkId \cup {NoLink}
           /\ c.mode \in ViewMode
           /\ c.op \in {"list", "create", "update", "delete", "setMode"}
           /\ c.surface \in Surface
           /\ DOMAIN c.changes \subseteq Column
           /\ \A k \in DOMAIN c.changes : c.changes[k] \in Value
           /\ c.op = "create" => c.changes \in Attributes
<1>1. c \in Call /\ (c.op = "create" => DOMAIN c.changes = Column)
  BY CallsAssumption DEF WellFormedCall
<1>2. c.changes \in Changes
  BY <1>1 DEF Call
<1>3. PICK S \in SUBSET Column : c.changes \in [S -> Value]
  BY <1>2 DEF Changes
<1>4. DOMAIN c.changes = S
  BY <1>3
<1> QED
  BY <1>1, <1>3, <1>4 DEF Call, Attributes

\* Setting submitted attributes gives attributes again.
LEMMA MergeType ==
    ASSUME NEW attrs \in Attributes, NEW c \in Calls
    PROVE  Merge(attrs, c.changes) \in Attributes
BY CallFields DEF Merge, Attributes

\* The row e is what the UPDATE of the link i makes of the row d.
Updated(d, e, i, dirty, changes) ==
    /\ e.id = d.id /\ e.user_id = d.user_id
    /\ d.id # i => e = d
    /\ d.id = i => e.attrs = [k \in Column |->
                               IF k \in dirty THEN changes[k] ELSE d.attrs[k]]

\* The UPDATE writes rows, changes no id and no owner, and adds no row.
LEMMA UpdateKeepsKeys ==
    ASSUME NEW c \in Calls, NEW i, NEW dirty \in SUBSET DOMAIN c.changes,
           docLinks \subseteq Row
    PROVE  /\ UpdateDocLink(i, dirty, c.changes) \subseteq Row
           /\ \A e \in UpdateDocLink(i, dirty, c.changes) :
                \E d \in docLinks : Updated(d, e, i, dirty, c.changes)
<1> SUFFICES ASSUME NEW e \in UpdateDocLink(i, dirty, c.changes)
             PROVE  /\ e \in Row
                    /\ \E d \in docLinks : Updated(d, e, i, dirty, c.changes)
  OBVIOUS
<1>1. PICK d \in docLinks :
        e = IF d.id = i
            THEN [d EXCEPT !.attrs = [k \in Column |->
                    IF k \in dirty THEN c.changes[k] ELSE d.attrs[k]]]
            ELSE d
  BY DEF UpdateDocLink
<1>2. d \in Row
  OBVIOUS
<1>3. CASE d.id # i
  BY <1>1, <1>2, <1>3 DEF Updated
<1>4. CASE d.id = i
  <2> DEFINE new == [k \in Column |->
                       IF k \in dirty THEN c.changes[k] ELSE d.attrs[k]]
  <2>1. e = [d EXCEPT !.attrs = new]
    BY <1>1, <1>4
  <2>2. new \in Attributes
    <3>1. d.attrs \in [Column -> Value]
      BY <1>2 DEF Row, Attributes
    <3> QED
      BY <3>1, CallFields DEF Attributes
  <2> HIDE DEF new
  <2>3. e.id = d.id /\ e.user_id = d.user_id /\ e.attrs = new /\ e \in Row
    BY <1>2, <2>1, <2>2 DEF Row
  <2> QED
    BY <1>4, <2>3 DEF new, Updated
<1> QED
  BY <1>3, <1>4

\* The row an edit has loaded is one of the rows it found.
LEMMA LoadedIsFound ==
    ASSUME NEW r, session[r].found # {}
    PROVE  Loaded(r) \in session[r].found
BY DEF Loaded

\* What a rendered line shows is a set of attributes.
LEMMA ShownType ==
    ASSUME TypeOK, NEW r \in Request, call[r] \in Calls, NEW d \in Row
    PROVE  Shown(r, d) \in Attributes
<1>1. d.attrs \in Attributes
  BY DEF Row
<1>2. CASE session[r].found # {}
  <2>1. Loaded(r) \in Row
    BY <1>2, LoadedIsFound DEF TypeOK
  <2>2. Loaded(r).attrs \in Attributes
    BY <2>1 DEF Row
  <2>3. Merge(Loaded(r).attrs, call[r].changes) \in Attributes
    BY <2>2, MergeType
  <2> QED
    BY <1>1, <2>3 DEF Shown
<1>3. CASE session[r].found = {}
  BY <1>1, <1>3 DEF Shown
<1> QED
  BY <1>2, <1>3

\* A user has a view mode, whether or not one was ever chosen.
LEMMA ViewModeType ==
    ASSUME TypeOK, NEW u
    PROVE  GetViewMode(u) \in ViewMode
<1>1. CASE \E p \in preferences : p.user_id = u
  <2>1. (CHOOSE p \in preferences : p.user_id = u) \in preferences
    BY <1>1
  <2> QED
    BY <1>1, <2>1 DEF GetViewMode, TypeOK, Preference
<1>2. CASE ~ \E p \in preferences : p.user_id = u
  BY <1>2 DEF GetViewMode, DefaultViewMode, ViewMode
<1> QED
  BY <1>1, <1>2

\* Answering keeps the types of the program counters and the answers.
LEMMA RespondType ==
    ASSUME TypeOK, NEW r \in Request, NEW status \in Status, Respond(r, status)
    PROVE  /\ pc' \in [Request -> InFlight \cup {"idle", "answered", "lost"}]
           /\ answer' \in [Request -> [status : Status, entries : SUBSET Entry,
                                       mode : ViewMode]]
BY DEF TypeOK, Respond, GoTo

\* Filling in an answer keeps its type.
LEMMA AnswerType ==
    ASSUME TypeOK, NEW r \in Request, NEW status \in Status,
           NEW lines \in SUBSET Entry, NEW m \in ViewMode
    PROVE  /\ [answer EXCEPT ![r].status = status, ![r].entries = lines] \in
                [Request -> [status : Status, entries : SUBSET Entry,
                             mode : ViewMode]]
           /\ [answer EXCEPT ![r].entries = lines, ![r].status = status] \in
                [Request -> [status : Status, entries : SUBSET Entry,
                             mode : ViewMode]]
           /\ [answer EXCEPT ![r].status = status, ![r].mode = m] \in
                [Request -> [status : Status, entries : SUBSET Entry,
                             mode : ViewMode]]
BY DEF TypeOK

\* So does whatever follows a COMMIT.
LEMMA CommittedType ==
    ASSUME TypeOK, NEW r \in Request, NEW id \in LinkId \cup {NoLink},
           call[r] \in Calls,
           call[r].op = "update" => session[r].found # {},
           Committed(r, id)
    PROVE  /\ pc' \in [Request -> InFlight \cup {"idle", "answered", "lost"}]
           /\ session' \in [Request -> [id : LinkId \cup {NoLink},
                                        found : SUBSET Row, durable : BOOLEAN]]
           /\ answer' \in [Request -> [status : Status, entries : SUBSET Entry,
                                       mode : ViewMode]]
<1>1. session' \in [Request -> [id : LinkId \cup {NoLink},
                                found : SUBSET Row, durable : BOOLEAN]]
  <2> DEFINE done == [session[r] EXCEPT !.durable = TRUE, !.id = id]
  <2>1. done \in [id : LinkId \cup {NoLink}, found : SUBSET Row,
                  durable : BOOLEAN]
    BY DEF TypeOK
  <2>2. session' = [session EXCEPT ![r] = done]
    BY DEF Committed, TypeOK
  <2> HIDE DEF done
  <2> QED
    BY <2>1, <2>2 DEF TypeOK
<1>2. CASE Respond(r, 500) \/ Respond(r, 204)
  BY <1>1, <1>2, RespondType DEF Status
<1>3. CASE GoTo(r, "links") /\ UNCHANGED answer
  BY <1>1, <1>3 DEF GoTo, TypeOK, InFlight
<1>4. CASE GoTo(r, "refresh") /\ UNCHANGED answer
  BY <1>1, <1>4 DEF GoTo, TypeOK, InFlight
<1>5. CASE /\ call[r].op = "update" /\ GoTo(r, "answered")
           /\ answer' = [answer EXCEPT ![r].status = 200,
                 ![r].entries = {[row |-> Loaded(r),
                                  shown |-> Shown(r, Loaded(r))]}]
  <2>1. Loaded(r) \in Row
    BY <1>5, LoadedIsFound DEF TypeOK
  <2>2. [row |-> Loaded(r), shown |-> Shown(r, Loaded(r))] \in Entry
    BY <2>1, ShownType DEF Entry
  <2> DEFINE lines == {[row |-> Loaded(r), shown |-> Shown(r, Loaded(r))]}
  <2>3. lines \in SUBSET Entry
    BY <2>2
  <2>4. answer' = [answer EXCEPT ![r].status = 200, ![r].entries = lines]
    BY <1>5
  <2>5. 200 \in Status
    BY DEF Status
  <2> HIDE DEF lines
  <2>6. answer' \in [Request -> [status : Status, entries : SUBSET Entry,
                                 mode : ViewMode]]
    BY <2>3, <2>4, <2>5, AnswerType, ViewModeType
  <2> QED
    BY <1>1, <1>5, <2>6 DEF GoTo, TypeOK
<1>6. CASE /\ GoTo(r, "answered")
           /\ answer' = [answer EXCEPT ![r].status = 200,
                                       ![r].mode = call[r].mode]
  <2>1. call[r].mode \in ViewMode /\ 200 \in Status
    BY CallFields DEF Status
  <2>2. answer' \in [Request -> [status : Status, entries : SUBSET Entry,
                                 mode : ViewMode]]
    BY <1>6, <2>1, AnswerType
  <2> QED
    BY <1>1, <1>6, <2>2 DEF GoTo, TypeOK
<1> QED
  BY <1>2, <1>3, <1>4, <1>5, <1>6 DEF Committed

-----------------------------------------------------------------------------
(* Type correctness.                                                       *)

LEMMA InitType == Init => TypeOK
BY SeedsAssumption
   DEF Init, TypeOK, NewSession, NoAnswer, InFlight, Status, ViewMode,
       DefaultViewMode, Row

LEMMA NextType == IInv /\ [Next]_vars => TypeOK'
<1> SUFFICES ASSUME IInv, [Next]_vars PROVE TypeOK'
  OBVIOUS
<1> USE DEF IInv
<1>1. ASSUME NEW r \in Request, NEW c \in Calls, Receive(r, c) PROVE TypeOK'
  <2>1. \/ Respond(r, 302) \/ Respond(r, 401) \/ Respond(r, 422)
        \/ GoTo(r, FirstStep(c)) /\ UNCHANGED answer
    BY <1>1 DEF Receive
  <2>2. call' \in [Request -> Calls \cup {NoCall}]
    BY <1>1 DEF Receive, TypeOK
  <2>3. FirstStep(c) \in InFlight
    BY DEF FirstStep, InFlight
  <2>4. /\ pc' \in [Request -> InFlight \cup {"idle", "answered", "lost"}]
        /\ answer' \in [Request -> [status : Status, entries : SUBSET Entry,
                                    mode : ViewMode]]
    BY <2>1, <2>3, RespondType DEF Status, GoTo, TypeOK
  <2> QED
    BY <1>1, <2>2, <2>4 DEF Receive, TypeOK, tables
<1>2. ASSUME NEW r \in Request, SelectOwned(r) PROVE TypeOK'
  <2> DEFINE found == GetOwnedDocLink(call[r].id, call[r].user)
  <2>1. found \in SUBSET Row
    BY DEF GetOwnedDocLink, TypeOK
  <2>2. session' = [session EXCEPT ![r].found = found]
    BY <1>2 DEF SelectOwned
  <2> HIDE DEF found
  <2>3. session' \in [Request -> [id : LinkId \cup {NoLink},
                                  found : SUBSET Row, durable : BOOLEAN]]
    BY <2>1, <2>2 DEF TypeOK
  <2>4. \/ Respond(r, 404) \/ Respond(r, 422)
        \/ GoTo(r, "write") /\ UNCHANGED answer
    BY <1>2 DEF SelectOwned
  <2>5. /\ pc' \in [Request -> InFlight \cup {"idle", "answered", "lost"}]
        /\ answer' \in [Request -> [status : Status, entries : SUBSET Entry,
                                    mode : ViewMode]]
    BY <2>4, RespondType DEF Status, GoTo, TypeOK, InFlight
  <2> QED
    BY <1>2, <2>3, <2>5 DEF SelectOwned, TypeOK, tables
<1>3. ASSUME NEW r \in Request, CommitCreate(r) PROVE TypeOK'
  <2>1. call[r] \in Calls
    BY <1>3 DEF CommitCreate, Bookkeeping
  <2>2. PICK i \in LinkId \ issued :
          /\ docLinks' = docLinks \cup {[id |-> i, user_id |-> call[r].user,
                                         attrs |-> call[r].changes]}
          /\ issued' = issued \cup {i}
          /\ Committed(r, i)
    BY <1>3 DEF CommitCreate
  <2>3. call[r].changes \in Attributes /\ call[r].user \in User
    BY <1>3, <2>1, CallFields DEF CommitCreate, TypeOK
  <2>4. docLinks' \subseteq Row /\ issued' \subseteq LinkId
    BY <2>2, <2>3 DEF TypeOK, Row
  <2> QED
    BY <1>3, <2>1, <2>2, <2>4, CommittedType DEF CommitCreate, TypeOK
<1>4. ASSUME NEW r \in Request, CommitUpdate(r) PROVE TypeOK'
  <2>1. call[r] \in Calls /\ session[r].found # {}
    BY <1>4 DEF CommitUpdate, Bookkeeping
  <2>2. Loaded(r) \in Row
    BY <2>1, LoadedIsFound DEF TypeOK
  <2>3. Dirty(Loaded(r).attrs, call[r].changes)
           \in SUBSET DOMAIN call[r].changes
    BY DEF Dirty
  <2>4. docLinks' \subseteq Row
    BY <1>4, <2>1, <2>3, UpdateKeepsKeys DEF CommitUpdate, TypeOK
  <2>5. Loaded(r).id \in LinkId
    BY <2>2 DEF Row
  <2>6. Committed(r, Loaded(r).id)
    BY <1>4 DEF CommitUpdate
  <2> QED
    BY <1>4, <2>1, <2>4, <2>5, <2>6, CommittedType DEF CommitUpdate, TypeOK
<1>5. ASSUME NEW r \in Request, CommitDelete(r) PROVE TypeOK'
  <2>1. call[r] \in Calls /\ session[r].found # {}
    BY <1>5 DEF CommitDelete, Bookkeeping
  <2>2. Loaded(r).id \in LinkId
    BY <2>1, LoadedIsFound DEF TypeOK, Row
  <2>3. Committed(r, Loaded(r).id)
    BY <1>5 DEF CommitDelete
  <2> QED
    BY <1>5, <2>1, <2>2, <2>3, CommittedType DEF CommitDelete, TypeOK
<1>6. ASSUME NEW r \in Request, CommitMode(r) PROVE TypeOK'
  <2>1. call[r] \in Calls
    BY <1>6 DEF CommitMode, Bookkeeping
  <2>2. preferences' \subseteq Preference
    BY <1>6, <2>1, CallFields DEF CommitMode, SetViewMode, TypeOK, Preference
  <2>3. Committed(r, NoLink) /\ call[r].op # "update"
    BY <1>6 DEF CommitMode
  <2> QED
    BY <1>6, <2>1, <2>2, <2>3, CommittedType DEF CommitMode, TypeOK
<1>7. ASSUME NEW r \in Request,
             UpdateMatchesNothing(r) \/ AccountIsGone(r) \/ Fail(r)
      PROVE  TypeOK'
  BY <1>7, RespondType
     DEF UpdateMatchesNothing, AccountIsGone, Fail, Status, TypeOK, tables
<1>8. ASSUME NEW r \in Request, Refresh(r) PROVE TypeOK'
  <2> DEFINE row == {d \in docLinks : d.id = session[r].id}
             lines == {[row |-> d, shown |-> d.attrs] : d \in row}
  <2>1. \/ Respond(r, 500)
        \/ /\ GoTo(r, "answered")
           /\ answer' = [answer EXCEPT ![r].status = 201, ![r].entries = lines]
    BY <1>8 DEF Refresh
  <2>2. lines \in SUBSET Entry
    BY DEF TypeOK, Entry, Row
  <2> HIDE DEF lines
  <2>3. /\ pc' \in [Request -> InFlight \cup {"idle", "answered", "lost"}]
        /\ answer' \in [Request -> [status : Status, entries : SUBSET Entry,
                                    mode : ViewMode]]
    BY <2>1, <2>2, RespondType DEF Status, GoTo, TypeOK
  <2> QED
    BY <1>8, <2>3 DEF Refresh, TypeOK, tables
<1>9. ASSUME NEW r \in Request, SelectLinks(r) PROVE TypeOK'
  <2> DEFINE lines == {[row |-> d, shown |-> Shown(r, d)] :
                          d \in ListForUser(call[r].user)}
             status == IF call[r].surface = "json" THEN 200
                       ELSE answer[r].status
  <2>1. call[r] \in Calls
    BY <1>9 DEF SelectLinks, Bookkeeping
  <2>2. lines \in SUBSET Entry
    BY <2>1, ShownType DEF TypeOK, Entry, ListForUser
  <2>3. status \in Status
    BY DEF TypeOK, Status
  <2>4. answer' = [answer EXCEPT ![r].entries = lines, ![r].status = status]
    BY <1>9 DEF SelectLinks, TypeOK
  <2> HIDE DEF lines, status
  <2>5. answer' \in [Request -> [status : Status, entries : SUBSET Entry,
                                 mode : ViewMode]]
    BY <2>2, <2>3, <2>4 DEF TypeOK
  <2> QED
    BY <1>9, <2>5 DEF SelectLinks, GoTo, TypeOK, tables, InFlight
<1>10. ASSUME NEW r \in Request, SelectMode(r) PROVE TypeOK'
  <2> DEFINE mode == GetViewMode(call[r].user)
  <2>1. mode \in ViewMode /\ 200 \in Status
    BY ViewModeType DEF Status
  <2>2. answer' = [answer EXCEPT ![r].status = 200, ![r].mode = mode]
    BY <1>10 DEF SelectMode
  <2> HIDE DEF mode
  <2>3. answer' \in [Request -> [status : Status, entries : SUBSET Entry,
                                 mode : ViewMode]]
    BY <2>1, <2>2, AnswerType
  <2> QED
    BY <1>10, <2>3 DEF SelectMode, GoTo, TypeOK, tables
<1>11. ASSUME NEW r \in Request, Lose(r) PROVE TypeOK'
  BY <1>11 DEF Lose, GoTo, TypeOK, tables
<1>12. ASSUME NEW r \in Request, Close(r) PROVE TypeOK'
  BY <1>12 DEF Close, GoTo, TypeOK, tables, NewSession, NoAnswer, Status,
               ViewMode, DefaultViewMode
<1>13. ASSUME NEW u \in Leavers, DeleteAccount(u) PROVE TypeOK'
  BY <1>13 DEF DeleteAccount, TypeOK
<1>14. CASE UNCHANGED vars
  BY <1>14 DEF vars, TypeOK
<1> QED
  BY <1>1, <1>2, <1>3, <1>4, <1>5, <1>6, <1>7, <1>8, <1>9, <1>10, <1>11,
     <1>12, <1>13, <1>14 DEF Next, Progress, Write

-----------------------------------------------------------------------------
(* The tables: keys, and what no step does to an id that was once issued.  *)

\* A row under an id issued before has been that user's row all along.
IdsStay ==
    /\ issued \subseteq issued'
    /\ \A e \in docLinks' : e.id \in issued =>
         \E d \in docLinks : d.id = e.id /\ d.user_id = e.user_id

\* Only a COMMIT and the deletion of an account change the tables.
LEMMA TableSteps ==
    ASSUME [Next]_vars
    PROVE  \/ UNCHANGED tables
           \/ \E r \in Request : CommitCreate(r) \/ CommitUpdate(r)
                                   \/ CommitDelete(r) \/ CommitMode(r)
           \/ \E u \in Leavers : DeleteAccount(u)
<1>1. CASE UNCHANGED vars
  BY <1>1 DEF vars, tables
<1>2. CASE \E u \in Leavers : DeleteAccount(u)
  BY <1>2
<1>3. ASSUME NEW r \in Request, NEW c \in Calls, Receive(r, c)
      PROVE  UNCHANGED tables
  BY <1>3 DEF Receive, tables
<1>4. ASSUME NEW r \in Request,
             Progress(r) \/ Fail(r) \/ Lose(r) \/ Close(r)
      PROVE  \/ UNCHANGED tables
             \/ CommitCreate(r) \/ CommitUpdate(r)
             \/ CommitDelete(r) \/ CommitMode(r)
  BY <1>4 DEF Progress, Write, Fail, Lose, Close, SelectOwned, Refresh,
              SelectLinks, SelectMode, UpdateMatchesNothing, AccountIsGone
<1> QED
  BY <1>1, <1>2, <1>3, <1>4 DEF Next

\* The foreign keys and the primary keys hold after every step, and no step
\* gives an issued id to another owner or back to a row.
LEMMA TablesStep ==
    ASSUME IInv, [Next]_vars
    PROVE  ForeignKeys' /\ PrimaryKeys' /\ IdsStay
<1> USE DEF IInv
<1>1. CASE UNCHANGED tables
  BY <1>1 DEF tables, ForeignKeys, PrimaryKeys, UniqueIds, IdsStay
<1>2. ASSUME NEW r \in Request, CommitCreate(r)
      PROVE  ForeignKeys' /\ PrimaryKeys' /\ IdsStay
  <2>1. PICK i \in LinkId \ issued :
          /\ docLinks' = docLinks \cup {[id |-> i, user_id |-> call[r].user,
                                         attrs |-> call[r].changes]}
          /\ issued' = issued \cup {i}
    BY <1>2 DEF CommitCreate
  <2> DEFINE new == [id |-> i, user_id |-> call[r].user,
                     attrs |-> call[r].changes]
  <2>2. new.id = i /\ new.user_id = call[r].user
    OBVIOUS
  <2>3. docLinks' = docLinks \cup {new}
    BY <2>1
  <2> HIDE DEF new
  <2>4. /\ call[r].user \in hostUsers
        /\ hostUsers' = hostUsers /\ preferences' = preferences
    BY <1>2 DEF CommitCreate
  <2>5. ForeignKeys'
    BY <2>2, <2>3, <2>4 DEF ForeignKeys
  <2>6. PrimaryKeys'
    BY <2>1, <2>2, <2>3, <2>4 DEF PrimaryKeys, UniqueIds
  <2>7. IdsStay
    BY <2>1, <2>2, <2>3 DEF IdsStay
  <2> QED
    BY <2>5, <2>6, <2>7
<1>3. ASSUME NEW r \in Request, CommitUpdate(r)
      PROVE  ForeignKeys' /\ PrimaryKeys' /\ IdsStay
  <2> DEFINE dirty == Dirty(Loaded(r).attrs, call[r].changes)
             i == Loaded(r).id
  <2>1. call[r] \in Calls /\ dirty \in SUBSET DOMAIN call[r].changes
    BY <1>3 DEF CommitUpdate, Bookkeeping, Dirty
  <2>2. docLinks' = UpdateDocLink(i, dirty, call[r].changes)
    BY <1>3 DEF CommitUpdate
  <2>3. /\ hostUsers' = hostUsers /\ preferences' = preferences
        /\ issued' = issued
    BY <1>3 DEF CommitUpdate
  <2> HIDE DEF dirty, i
  <2>4. \A e \in docLinks' :
          \E d \in docLinks : Updated(d, e, i, dirty, call[r].changes)
    BY <2>1, <2>2, UpdateKeepsKeys DEF TypeOK
  <2>5. docLinks' \subseteq Row
    BY <2>1, <2>2, UpdateKeepsKeys DEF TypeOK
  <2>6. UniqueIds(docLinks')
    <3> SUFFICES ASSUME NEW e \in docLinks', NEW f \in docLinks', e.id = f.id
                 PROVE  e = f
      BY DEF UniqueIds
    <3>1. PICK d \in docLinks : Updated(d, e, i, dirty, call[r].changes)
      BY <2>4
    <3>2. PICK g \in docLinks : Updated(g, f, i, dirty, call[r].changes)
      BY <2>4
    <3>3. d = g
      BY <3>1, <3>2 DEF PrimaryKeys, UniqueIds, Updated
    <3>4. CASE d.id # i
      BY <3>1, <3>2, <3>3, <3>4 DEF Updated
    <3>5. CASE d.id = i
      <4>1. e.id = f.id /\ e.user_id = f.user_id /\ e.attrs = f.attrs
        BY <3>1, <3>2, <3>3, <3>5 DEF Updated
      <4> QED
        BY <4>1, <2>5 DEF Row
    <3> QED
      BY <3>4, <3>5
  <2>7. ForeignKeys'
    BY <2>3, <2>4 DEF ForeignKeys, Updated
  <2>8. PrimaryKeys'
    BY <2>3, <2>4, <2>6 DEF PrimaryKeys, Updated
  <2>9. IdsStay
    BY <2>3, <2>4 DEF IdsStay, Updated
  <2> QED
    BY <2>7, <2>8, <2>9
<1>4. ASSUME NEW r \in Request, CommitDelete(r)
      PROVE  ForeignKeys' /\ PrimaryKeys' /\ IdsStay
  BY <1>4 DEF CommitDelete, ForeignKeys, PrimaryKeys, UniqueIds, IdsStay
<1>5. ASSUME NEW r \in Request, CommitMode(r)
      PROVE  ForeignKeys' /\ PrimaryKeys' /\ IdsStay
  <2>1. /\ call[r].user \in hostUsers
        /\ preferences' = SetViewMode(call[r].user, call[r].mode)
        /\ hostUsers' = hostUsers /\ docLinks' = docLinks /\ issued' = issued
    BY <1>5 DEF CommitMode
  <2>2. ForeignKeys'
    BY <2>1 DEF ForeignKeys, SetViewMode
  <2>3. PrimaryKeys'
    BY <2>1 DEF PrimaryKeys, UniqueIds, SetViewMode
  <2> QED
    BY <2>1, <2>2, <2>3 DEF IdsStay
<1>6. ASSUME NEW u \in Leavers, DeleteAccount(u)
      PROVE  ForeignKeys' /\ PrimaryKeys' /\ IdsStay
  BY <1>6 DEF DeleteAccount, ForeignKeys, PrimaryKeys, UniqueIds, IdsStay
<1> QED
  BY <1>1, <1>2, <1>3, <1>4, <1>5, <1>6, TableSteps

-----------------------------------------------------------------------------
(* The requests.                                                           *)

\* What a request knows stays true while others, or its own later statements,
\* change the tables.
LEMMA KnowledgeStays ==
    ASSUME IInv, TypeOK', IdsStay, NEW q \in Request
    PROVE  /\ session[q].id # NoLink =>
                /\ session[q].id \in issued'
                /\ \A d \in docLinks' :
                      d.id = session[q].id => d.user_id = call[q].user
           /\ session[q].found # {} =>
                \A d \in docLinks' :
                    d.id = call[q].id => d.user_id = call[q].user
           /\ session[q].durable /\ call[q].op = "delete" =>
                \A d \in docLinks' : d.id # call[q].id
           /\ answer[q].status = 404 =>
                \A d \in docLinks' :
                    ~(d.id = call[q].id /\ d.user_id = call[q].user)
<1>1. CASE pc[q] = "idle"
  BY <1>1 DEF IInv, Bookkeeping, NewSession, NoAnswer
<1>2. CASE pc[q] # "idle"
  <2>1. \A d \in docLinks' : d.id = call[q].id =>
          \E e \in docLinks : e.id = d.id /\ e.user_id = d.user_id
    <3> SUFFICES ASSUME NEW d \in docLinks', d.id = call[q].id
                 PROVE  \E e \in docLinks :
                            e.id = d.id /\ e.user_id = d.user_id
      OBVIOUS
    <3>1. d.id \in LinkId
      BY DEF TypeOK, Row
    <3>2. call[q].id \in issued
      BY <1>2, <3>1, ConstantsAssumption DEF IInv, Bookkeeping
    <3> QED
      BY <3>2 DEF IdsStay
  <2>2. session[q].id # NoLink =>
          /\ session[q].id \in issued'
          /\ \A d \in docLinks' :
                d.id = session[q].id => d.user_id = call[q].user
    BY DEF IInv, Knowledge, IdsStay
  <2> QED
    BY <2>1, <2>2 DEF IInv, Knowledge, HasRow
<1> QED
  BY <1>1, <1>2

\* A request that takes no part in a step is where it was.
LEMMA Bystander ==
    ASSUME IInv, TypeOK', IdsStay, NEW q \in Request,
           pc'[q] = pc[q], call'[q] = call[q], session'[q] = session[q],
           answer'[q] = answer[q]
    PROVE  Bookkeeping(q)' /\ Knowledge(q)'
<1>1. Bookkeeping(q)'
  BY DEF IInv, Bookkeeping, IdsStay
<1>2. Knowledge(q)'
  BY KnowledgeStays DEF IInv, Knowledge, HasRow
<1> QED
  BY <1>1, <1>2

\* Responding, and going on to another statement, leave every other request
\* alone.
LEMMA OthersUntouched ==
    ASSUME TypeOK, NEW r \in Request, NEW q \in Request, q # r,
           \/ Progress(r) \/ Fail(r) \/ Lose(r) \/ Close(r)
           \/ \E c \in Calls : Receive(r, c)
    PROVE  /\ pc'[q] = pc[q] /\ call'[q] = call[q]
           /\ session'[q] = session[q] /\ answer'[q] = answer[q]
<1> USE DEF GoTo, Respond, TypeOK
<1>1. ASSUME NEW id, Committed(r, id)
      PROVE  /\ pc'[q] = pc[q]
             /\ session'[q] = session[q] /\ answer'[q] = answer[q]
  BY <1>1 DEF Committed
<1>2. CASE CommitCreate(r)
  BY <1>1, <1>2 DEF CommitCreate
<1>3. CASE CommitUpdate(r)
  BY <1>1, <1>3 DEF CommitUpdate
<1>4. CASE CommitDelete(r)
  BY <1>1, <1>4 DEF CommitDelete
<1>5. CASE CommitMode(r)
  BY <1>1, <1>5 DEF CommitMode
<1>6. CASE UpdateMatchesNothing(r) \/ AccountIsGone(r)
  BY <1>6 DEF UpdateMatchesNothing, AccountIsGone
<1>7. CASE SelectOwned(r)
  BY <1>7 DEF SelectOwned
<1>8. CASE Refresh(r)
  BY <1>8 DEF Refresh
<1>9. CASE SelectLinks(r)
  BY <1>9 DEF SelectLinks
<1>10. CASE SelectMode(r)
  BY <1>10 DEF SelectMode
<1>11. CASE Fail(r) \/ Lose(r) \/ Close(r)
  BY <1>11 DEF Fail, Lose, Close
<1>12. CASE \E c \in Calls : Receive(r, c)
  BY <1>12 DEF Receive
<1> QED
  BY <1>2, <1>3, <1>4, <1>5, <1>6, <1>7, <1>8, <1>9, <1>10, <1>11, <1>12
     DEF Progress, Write

\* Responding with a status other than 404 adds nothing a request must know.
LEMMA AfterRespond ==
    ASSUME IInv, TypeOK', NEW r \in Request, NEW status, status # 404,
           pc[r] \in InFlight, UNCHANGED <<tables, call, session>>,
           Respond(r, status)
    PROVE  Bookkeeping(r)' /\ Knowledge(r)'
<1>1. pc'[r] = "answered" /\ answer'[r].status = status
      /\ answer'[r].entries = answer[r].entries
  BY DEF IInv, TypeOK, Respond, GoTo
<1>2. /\ call' = call /\ session' = session
      /\ docLinks' = docLinks /\ issued' = issued
  BY DEF tables
<1>3. Bookkeeping(r)'
  BY <1>1, <1>2 DEF IInv, Bookkeeping, InFlight
<1>4. Knowledge(r)'
  BY <1>1, <1>2 DEF IInv, Knowledge, HasRow
<1> QED
  BY <1>3, <1>4

\* After a COMMIT: the row an edit or delete had loaded was its caller's, and
\* a deleted one is gone.
LEMMA AfterCommit ==
    ASSUME IInv, TypeOK', IdsStay, NEW r \in Request, NEW id,
           pc[r] = "write", call' = call, Committed(r, id),
           call[r].op = "create" => id # NoLink,
           id # NoLink =>
              /\ id \in issued'
              /\ \A d \in docLinks' : d.id = id => d.user_id = call[r].user,
           call[r].op = "delete" => \A d \in docLinks' : d.id # call[r].id
    PROVE  Bookkeeping(r)' /\ Knowledge(r)'
<1>1. /\ session'[r].found = session[r].found
      /\ session'[r].durable /\ session'[r].id = id
  BY DEF IInv, TypeOK, Committed
<1>2. /\ pc'[r] \in {"answered", "links", "refresh"}
      /\ pc'[r] = "refresh" => call[r].op = "create"
  BY DEF IInv, TypeOK, Committed, Respond, GoTo
<1>3. answer'[r].status # 404 \/ answer'[r].status = answer[r].status
  BY DEF IInv, TypeOK, Committed, Respond, GoTo
<1>4. \A e \in answer'[r].entries : e.row.user_id = call[r].user
  <2>1. \A e \in answer[r].entries : e.row.user_id = call[r].user
    BY DEF IInv, Knowledge
  <2>2. \/ answer'[r].entries = answer[r].entries
        \/ /\ call[r].op = "update"
           /\ answer'[r].entries = {[row |-> Loaded(r),
                                     shown |-> Shown(r, Loaded(r))]}
    BY DEF IInv, TypeOK, Committed, Respond, GoTo
  <2>3. CASE call[r].op = "update"
    <3>1. Loaded(r) \in session[r].found
      BY <2>3, LoadedIsFound DEF IInv, Bookkeeping
    <3>2. Loaded(r).user_id = call[r].user
      BY <3>1 DEF IInv, Bookkeeping
    <3> QED
      BY <2>1, <2>2, <3>2
  <2> QED
    BY <2>1, <2>2, <2>3
<1>5. Bookkeeping(r)'
  BY <1>1, <1>2 DEF IInv, Bookkeeping, IdsStay, InFlight
<1>6. Knowledge(r)'
  BY <1>1, <1>3, <1>4, KnowledgeStays DEF IInv, Knowledge, HasRow
<1> QED
  BY <1>5, <1>6

\* The step of a request leaves it knowing no more than it may.
LEMMA OwnStep ==
    ASSUME IInv, TypeOK', IdsStay, NEW r \in Request,
           \/ Progress(r) \/ Fail(r) \/ Lose(r) \/ Close(r)
           \/ \E c \in Calls : Receive(r, c)
    PROVE  Bookkeeping(r)' /\ Knowledge(r)'
<1>1. ASSUME NEW c \in Calls, Receive(r, c)
      PROVE  Bookkeeping(r)' /\ Knowledge(r)'
  <2>1. /\ call'[r] = c /\ c # NoCall /\ c.id \in issued \cup {NoLink}
        /\ session'[r] = NewSession /\ issued' = issued
    BY <1>1, ConstantsAssumption
       DEF Receive, IInv, TypeOK, Bookkeeping, tables
  <2>2. answer[r] = NoAnswer
    BY <1>1 DEF Receive, IInv, Bookkeeping
  <2>3. /\ answer'[r].entries = {} /\ answer'[r].status # 404
        /\ \/ pc'[r] = "answered"
           \/ pc'[r] = FirstStep(c) /\ c.user # Nobody
    <3>1. CASE \E s \in {302, 401, 422} : Respond(r, s)
      BY <2>2, <3>1 DEF IInv, TypeOK, Respond, GoTo, NoAnswer
    <3>2. CASE c.user # Nobody /\ GoTo(r, FirstStep(c)) /\ UNCHANGED answer
      BY <2>2, <3>2 DEF IInv, TypeOK, GoTo, NoAnswer
    <3> QED
      BY <1>1, <3>1, <3>2 DEF Receive
  <2>4. c.user # Nobody => c.user \in User
    BY CallFields
  <2>5. Bookkeeping(r)'
    BY <2>1, <2>3, <2>4 DEF Bookkeeping, NewSession, FirstStep, InFlight
  <2>6. Knowledge(r)'
    BY <2>1, <2>3 DEF Knowledge, NewSession
  <2> QED
    BY <2>5, <2>6
<1>2. CASE SelectOwned(r)
  <2> DEFINE found == GetOwnedDocLink(call[r].id, call[r].user)
  <2>1. /\ session'[r].found = found /\ session'[r].id = session[r].id
        /\ session'[r].durable = session[r].durable /\ ~session[r].durable
        /\ call' = call /\ docLinks' = docLinks /\ issued' = issued
    BY <1>2 DEF SelectOwned, IInv, TypeOK, Bookkeeping, tables
  <2>2. \/ found = {} /\ pc'[r] = "answered"
        \/ found # {} /\ pc'[r] = "answered" /\ answer'[r].status # 404
        \/ found # {} /\ pc'[r] = "write" /\ answer' = answer
    BY <1>2 DEF SelectOwned, IInv, TypeOK, Respond, GoTo
  <2>3. answer'[r].entries = answer[r].entries
    BY <1>2 DEF SelectOwned, IInv, TypeOK, Respond, GoTo
  <2>4. \A d \in found : d \in docLinks /\ d.id = call[r].id
                                        /\ d.user_id = call[r].user
    BY DEF GetOwnedDocLink
  <2>5. found = {} => \A d \in docLinks :
                        ~(d.id = call[r].id /\ d.user_id = call[r].user)
    BY DEF GetOwnedDocLink
  <2>6. pc[r] = "select"
    BY <1>2 DEF SelectOwned
  <2> HIDE DEF found
  <2>7. found # {} =>
          \A d \in docLinks : d.id = call[r].id => d.user_id = call[r].user
    BY <2>4 DEF IInv, PrimaryKeys, UniqueIds
  <2>8. Bookkeeping(r)'
    BY <2>1, <2>2, <2>4, <2>6 DEF IInv, Bookkeeping, InFlight
  <2>9. Knowledge(r)'
    BY <2>1, <2>2, <2>3, <2>5, <2>7 DEF IInv, Knowledge
  <2> QED
    BY <2>8, <2>9
<1>3. CASE CommitCreate(r)
  <2>1. PICK i \in LinkId \ issued :
          /\ docLinks' = docLinks \cup {[id |-> i, user_id |-> call[r].user,
                                         attrs |-> call[r].changes]}
          /\ issued' = issued \cup {i}
          /\ Committed(r, i)
    BY <1>3 DEF CommitCreate
  <2>2. \A d \in docLinks' : d.id = i => d.user_id = call[r].user
    <3> DEFINE new == [id |-> i, user_id |-> call[r].user,
                       attrs |-> call[r].changes]
    <3>1. new.user_id = call[r].user /\ docLinks' = docLinks \cup {new}
      BY <2>1
    <3> HIDE DEF new
    <3> QED
      BY <2>1, <3>1 DEF IInv, PrimaryKeys
  <2>3. i # NoLink
    BY ConstantsAssumption
  <2> QED
    BY <1>3, <2>1, <2>2, <2>3, AfterCommit DEF CommitCreate
<1>4. ASSUME CommitUpdate(r) \/ CommitDelete(r)
      PROVE  /\ Loaded(r).id = call[r].id
             /\ Loaded(r).id \in issued'
             /\ \A d \in docLinks' :
                    d.id = call[r].id => d.user_id = call[r].user
  <2>1. /\ Loaded(r) \in session[r].found /\ session[r].found # {}
        /\ pc[r] = "write" /\ issued' = issued
    BY <1>4, LoadedIsFound
       DEF CommitUpdate, CommitDelete, IInv, Bookkeeping
  <2>2. Loaded(r).id = call[r].id /\ Loaded(r).id \in LinkId
    BY <2>1 DEF IInv, Bookkeeping, TypeOK, Row
  <2>3. Loaded(r).id \in issued
    BY <2>1, <2>2, ConstantsAssumption DEF IInv, Bookkeeping
  <2> QED
    BY <2>1, <2>2, <2>3, KnowledgeStays
<1>5. CASE CommitUpdate(r) \/ CommitDelete(r)
  BY <1>4, <1>5, AfterCommit DEF CommitUpdate, CommitDelete
<1>6. CASE CommitMode(r)
  BY <1>6, AfterCommit DEF CommitMode
<1>7. CASE UpdateMatchesNothing(r) \/ AccountIsGone(r) \/ Fail(r)
  BY <1>7, AfterRespond DEF UpdateMatchesNothing, AccountIsGone, Fail, InFlight
<1>8. CASE Refresh(r)
  <2>1. CASE Respond(r, 500)
    BY <1>8, <2>1, AfterRespond DEF Refresh, InFlight
  <2>2. CASE ~Respond(r, 500)
    <3>1. /\ pc[r] = "refresh" /\ pc'[r] = "answered"
          /\ call' = call /\ session' = session
          /\ docLinks' = docLinks /\ issued' = issued
      BY <1>8, <2>2 DEF Refresh, IInv, TypeOK, GoTo, tables
    <3>2. /\ answer'[r].status = 201
          /\ answer'[r].entries = {[row |-> d, shown |-> d.attrs] :
                d \in {e \in docLinks : e.id = session[r].id}}
      BY <1>8, <2>2 DEF Refresh, IInv, TypeOK
    <3>3. \A d \in docLinks : d.id = session[r].id => d.user_id = call[r].user
      BY <3>1 DEF IInv, Bookkeeping, Knowledge
    <3>4. \A e \in answer'[r].entries : e.row.user_id = call[r].user
      BY <3>2, <3>3
    <3>5. Bookkeeping(r)'
      BY <3>1 DEF IInv, Bookkeeping, InFlight
    <3>6. Knowledge(r)'
      BY <3>1, <3>2, <3>4 DEF IInv, Knowledge, HasRow
    <3> QED
      BY <3>5, <3>6
  <2> QED
    BY <2>1, <2>2
<1>9. CASE SelectLinks(r)
  <2>1. /\ pc[r] = "links" /\ pc'[r] \in {"answered", "mode"}
        /\ call' = call /\ session' = session
        /\ docLinks' = docLinks /\ issued' = issued
    BY <1>9 DEF SelectLinks, IInv, TypeOK, GoTo, tables
  <2> DEFINE lines == {[row |-> d, shown |-> Shown(r, d)] :
                          d \in ListForUser(call[r].user)}
             status == IF call[r].surface = "json" THEN 200
                       ELSE answer[r].status
  <2>2. answer' = [answer EXCEPT ![r].entries = lines, ![r].status = status]
    BY <1>9 DEF SelectLinks, IInv, TypeOK
  <2>3. /\ status \in {200, answer[r].status}
        /\ \A e \in lines : e.row.user_id = call[r].user
    BY DEF ListForUser
  <2> HIDE DEF lines, status
  <2>4. answer'[r].entries = lines /\ answer'[r].status = status
    BY <2>2 DEF IInv, TypeOK
  <2>5. Bookkeeping(r)'
    BY <2>1 DEF IInv, Bookkeeping, InFlight
  <2>6. Knowledge(r)'
    BY <2>1, <2>3, <2>4 DEF IInv, Knowledge, HasRow
  <2> QED
    BY <2>5, <2>6
<1>10. CASE SelectMode(r)
  <2>1. /\ pc[r] = "mode" /\ pc'[r] = "answered"
        /\ call' = call /\ session' = session
        /\ docLinks' = docLinks /\ issued' = issued
    BY <1>10 DEF SelectMode, IInv, TypeOK, GoTo, tables
  <2>2. answer'[r].status = 200 /\ answer'[r].entries = answer[r].entries
    BY <1>10 DEF SelectMode, IInv, TypeOK
  <2>3. Bookkeeping(r)'
    BY <2>1 DEF IInv, Bookkeeping, InFlight
  <2>4. Knowledge(r)'
    BY <2>1, <2>2 DEF IInv, Knowledge, HasRow
  <2> QED
    BY <2>3, <2>4
<1>11. CASE Lose(r)
  <2>1. /\ pc[r] \in InFlight /\ pc'[r] = "lost"
        /\ call' = call /\ session' = session /\ answer' = answer
        /\ docLinks' = docLinks /\ issued' = issued
    BY <1>11 DEF Lose, IInv, TypeOK, GoTo, tables
  <2> QED
    BY <2>1 DEF IInv, Bookkeeping, Knowledge, HasRow, InFlight
<1>12. CASE Close(r)
  <2>1. /\ pc'[r] = "idle" /\ call'[r] = NoCall
        /\ session'[r] = NewSession /\ answer'[r] = NoAnswer
    BY <1>12 DEF Close, IInv, TypeOK, GoTo
  <2> QED
    BY <2>1 DEF Bookkeeping, Knowledge, NewSession, NoAnswer, InFlight
<1> QED
  BY <1>1, <1>2, <1>3, <1>5, <1>6, <1>7, <1>8, <1>9, <1>10, <1>11, <1>12
     DEF Progress, Write

-----------------------------------------------------------------------------
(* The inductive invariant.                                                *)

LEMMA InitIInv == Init => IInv
<1> SUFFICES ASSUME Init PROVE IInv
  OBVIOUS
<1>1. TypeOK
  BY InitType
<1>2. PICK rows \in Seeds : docLinks = rows
  BY DEF Init
<1>3. docLinks \subseteq Row /\ UniqueIds(docLinks)
  BY <1>2, SeedsAssumption
<1>4. ForeignKeys
  BY <1>3 DEF Init, ForeignKeys, Row
<1>5. PrimaryKeys
  BY <1>3 DEF Init, PrimaryKeys
<1>6. ASSUME NEW r \in Request PROVE Bookkeeping(r) /\ Knowledge(r)
  BY <1>6 DEF Init, Bookkeeping, Knowledge, NewSession, NoAnswer, InFlight
<1> QED
  BY <1>1, <1>4, <1>5, <1>6 DEF IInv

LEMMA NextIInv == IInv /\ [Next]_vars => IInv'
<1> SUFFICES ASSUME IInv, [Next]_vars PROVE IInv'
  OBVIOUS
<1>1. TypeOK'
  BY NextType
<1>2. ForeignKeys' /\ PrimaryKeys' /\ IdsStay
  BY TablesStep
<1>3. ASSUME NEW q \in Request PROVE Bookkeeping(q)' /\ Knowledge(q)'
  <2>1. CASE UNCHANGED <<pc, call, session, answer>>
    BY <1>1, <1>2, <2>1, Bystander
  <2>2. ASSUME NEW r \in Request,
               \/ Progress(r) \/ Fail(r) \/ Lose(r) \/ Close(r)
               \/ \E c \in Calls : Receive(r, c)
        PROVE  Bookkeeping(q)' /\ Knowledge(q)'
    <3>1. CASE q = r
      BY <1>1, <1>2, <2>2, <3>1, OwnStep
    <3>2. CASE q # r
      <4>1. /\ pc'[q] = pc[q] /\ call'[q] = call[q]
            /\ session'[q] = session[q] /\ answer'[q] = answer[q]
        BY <2>2, <3>2, OthersUntouched DEF IInv
      <4> QED
        BY <1>1, <1>2, <4>1, Bystander
    <3> QED
      BY <3>1, <3>2
  <2>3. CASE \E u \in Leavers : DeleteAccount(u)
    BY <2>1, <2>3 DEF DeleteAccount
  <2>4. CASE UNCHANGED vars
    BY <2>1, <2>4 DEF vars
  <2> QED
    BY <2>2, <2>3, <2>4 DEF Next
<1> QED
  BY <1>1, <1>2, <1>3 DEF IInv

\* The inductive invariant holds throughout, for any number of users, links
\* and concurrent requests, with or without faults.
THEOREM Invariance == Spec => []IInv
<1>1. Init => IInv
  BY InitIInv
<1>2. IInv /\ [Next]_vars => IInv'
  BY NextIInv
<1> QED
  BY <1>1, <1>2, PTL DEF Spec

-----------------------------------------------------------------------------
(* The theorems.                                                           *)

\* Every variable keeps its type.
THEOREM TypeCorrectness == Spec => []TypeOK
<1>1. IInv => TypeOK
  BY DEF IInv
<1> QED
  BY <1>1, Invariance, PTL

\* Rows never outlive their account.
THEOREM NoOrphans == Spec => []ForeignKeys
<1>1. IInv => ForeignKeys
  BY DEF IInv
<1> QED
  BY <1>1, Invariance, PTL

\* One row per link, one preference per user.
THEOREM KeysAreUnique == Spec => []PrimaryKeys
<1>1. IInv => PrimaryKeys
  BY DEF IInv
<1> QED
  BY <1>1, Invariance, PTL

\* No handler ever holds, or answers with, somebody else's link.
THEOREM Privacy == Spec => []OnlyOwnRows
<1>1. IInv => OnlyOwnRows
  BY DEF IInv, Bookkeeping, Knowledge, OnlyOwnRows
<1> QED
  BY <1>1, Invariance, PTL

\* A committed DELETE is final, whatever edits were under way.
THEOREM DeleteIsFinal == Spec => []DeletedForGood
<1>1. IInv => DeletedForGood
  <2> SUFFICES ASSUME IInv, NEW r \in Request, call[r].op = "delete",
                      session[r].durable
               PROVE  ~HasRow(call[r].id)
    BY DEF DeletedForGood
  <2> QED
    BY DEF IInv, Knowledge
<1> QED
  BY <1>1, Invariance, PTL

\* A 404 is never contradicted later.
THEOREM NotFoundStays == Spec => []NotFoundIsFinal
<1>1. IInv => NotFoundIsFinal
  BY DEF IInv, Knowledge, NotFoundIsFinal
<1> QED
  BY <1>1, Invariance, PTL

\* No step gives a row to an id that has lost it.
THEOREM DeletedIdsStayDeleted == Spec => NoResurrection
<1>1. IInv /\ [Next]_vars => [\A i \in issued : ~HasRow(i) => ~HasRow(i)']_vars
  <2> SUFFICES ASSUME IInv, [Next]_vars, NEW i \in issued, ~HasRow(i)
               PROVE  ~HasRow(i)'
    OBVIOUS
  <2>1. IdsStay
    BY TablesStep
  <2> QED
    BY <2>1 DEF IdsStay, HasRow
<1> QED
  BY <1>1, Invariance, PTL DEF Spec, NoResurrection

-----------------------------------------------------------------------------
(* What LinkStore sees of a request.                                       *)

Stage == [r \in Request |-> StageOf(pc[r])]
Took == [r \in Request |-> session[r].durable]
Verdict == [r \in Request |-> VerdictOf(pc[r], answer[r].status)]

\* Past its COMMIT a request is never in doubt about its own effect: it only
\* reads what to render once the change is durable, unless it changes nothing.
RendersWhatIsDurable ==
    \A r \in Request :
        /\ pc[r] = "refresh" => session[r].durable
        /\ pc[r] \in {"links", "mode"} =>
              session[r].durable \/ call[r].op = "list"

DurableInv == IInv /\ RendersWhatIsDurable

\* The step of a request r.
StepOf(r) ==
    \/ Progress(r) \/ Fail(r) \/ Lose(r) \/ Close(r)
    \/ \E c \in Calls : Receive(r, c)

\* Only what LinkStore sees of r itself changes in a step of r.
LEMMA OneRequestMoves ==
    ASSUME TypeOK, TypeOK', NEW r \in Request, StepOf(r)
    PROVE  /\ Stage' = [Stage EXCEPT ![r] = StageOf(pc'[r])]
           /\ Took' = [Took EXCEPT ![r] = session'[r].durable]
           /\ Verdict' = [Verdict EXCEPT ![r] =
                              VerdictOf(pc'[r], answer'[r].status)]
           /\ call' = [call EXCEPT ![r] = call'[r]]
<1>1. ASSUME NEW q \in Request, q # r
      PROVE  /\ pc'[q] = pc[q] /\ call'[q] = call[q]
             /\ session'[q] = session[q] /\ answer'[q] = answer[q]
  BY <1>1, OthersUntouched DEF StepOf
<1>2. Stage' = [Stage EXCEPT ![r] = StageOf(pc'[r])]
  BY <1>1 DEF Stage
<1>3. Took' = [Took EXCEPT ![r] = session'[r].durable]
  BY <1>1 DEF Took
<1>4. Verdict' = [Verdict EXCEPT ![r] = VerdictOf(pc'[r], answer'[r].status)]
  BY <1>1 DEF Verdict
<1>5. call' = [call EXCEPT ![r] = call'[r]]
  BY <1>1 DEF TypeOK
<1> QED
  BY <1>2, <1>3, <1>4, <1>5

\* Before its COMMIT a request has had no effect; after it, it has.
LEMMA AfterTheCommit ==
    ASSUME TypeOK, NEW r \in Request, NEW id, Committed(r, id)
    PROVE  /\ session'[r].durable
           /\ \/ pc'[r] = "refresh" /\ call[r].op = "create"
              \/ pc'[r] = "links"
              \/ pc'[r] = "answered" /\ answer'[r].status \in {200, 204, 500}
BY DEF Committed, TypeOK, Respond, GoTo

-----------------------------------------------------------------------------
(* The strengthened invariant.                                             *)

LEMMA RenderingStep ==
    ASSUME DurableInv, TypeOK', [Next]_vars
    PROVE  RendersWhatIsDurable'
<1> SUFFICES ASSUME NEW q \in Request
             PROVE  /\ pc'[q] = "refresh" => session'[q].durable
                    /\ pc'[q] \in {"links", "mode"} =>
                          session'[q].durable \/ call'[q].op = "list"
  BY DEF RendersWhatIsDurable
<1> USE DEF DurableInv
<1>1. CASE /\ pc'[q] = pc[q] /\ call'[q] = call[q]
           /\ session'[q] = session[q]
  BY <1>1 DEF RendersWhatIsDurable
<1>2. ASSUME NEW r \in Request, StepOf(r), q # r
      PROVE  pc'[q] = pc[q] /\ call'[q] = call[q] /\ session'[q] = session[q]
  BY <1>2, OthersUntouched DEF StepOf, IInv
<1>3. CASE \E c \in Calls : Receive(q, c)
  BY <1>3 DEF Receive, Respond, GoTo, FirstStep, IInv, TypeOK
<1>4. CASE SelectOwned(q)
  BY <1>4 DEF SelectOwned, Respond, GoTo, IInv, TypeOK
<1>5. CASE CommitCreate(q)
  BY <1>5, AfterTheCommit DEF CommitCreate, IInv
<1>6. CASE CommitUpdate(q)
  BY <1>6, AfterTheCommit DEF CommitUpdate, IInv
<1>7. CASE CommitDelete(q)
  BY <1>7, AfterTheCommit DEF CommitDelete, IInv
<1>8. CASE CommitMode(q)
  BY <1>8, AfterTheCommit DEF CommitMode, IInv
<1>9. CASE UpdateMatchesNothing(q) \/ AccountIsGone(q) \/ Fail(q)
  BY <1>9 DEF UpdateMatchesNothing, AccountIsGone, Fail, Respond, GoTo, IInv,
              TypeOK
<1>10. CASE Refresh(q)
  BY <1>10 DEF Refresh, Respond, GoTo, IInv, TypeOK
<1>11. CASE SelectLinks(q)
  BY <1>11 DEF SelectLinks, GoTo, IInv, TypeOK, RendersWhatIsDurable
<1>12. CASE SelectMode(q) \/ Lose(q) \/ Close(q)
  BY <1>12 DEF SelectMode, Lose, Close, GoTo, IInv, TypeOK
<1>13. CASE UNCHANGED vars \/ \E u \in Leavers : DeleteAccount(u)
  BY <1>1, <1>13 DEF vars, DeleteAccount
<1>14. CASE StepOf(q)
  BY <1>3, <1>4, <1>5, <1>6, <1>7, <1>8, <1>9, <1>10, <1>11, <1>12, <1>14
     DEF StepOf, Progress, Write
<1> QED
  BY <1>1, <1>2, <1>13, <1>14 DEF Next, StepOf

\* Whatever a request renders after a write, the write is durable.
THEOREM DurableInvariance == Spec => []DurableInv
<1>1. Init => RendersWhatIsDurable
  BY DEF Init, RendersWhatIsDurable
<1>2. IInv /\ [Next]_vars => IInv'
  BY NextIInv
<1>3. DurableInv /\ [Next]_vars => DurableInv'
  BY <1>2, RenderingStep DEF DurableInv, IInv
<1> QED
  BY <1>1, <1>3, InitIInv, PTL DEF Spec, DurableInv

-----------------------------------------------------------------------------
(* The COMMITs take the effects LinkStore allows.                          *)

\* The row d with the dirty columns overwritten.
Edited(d, dirty, changes) ==
    [id |-> d.id, user_id |-> d.user_id,
     attrs |-> [k \in Column |->
                  IF k \in dirty THEN changes[k] ELSE d.attrs[k]]]

\* The UPDATE changes at most the one row an edit had loaded.
LEMMA UpdateIsOneRow ==
    ASSUME IInv, NEW i, NEW c \in Calls, NEW dirty \in SUBSET DOMAIN c.changes,
           NEW d \in docLinks, d.id = i
    PROVE  UpdateDocLink(i, dirty, c.changes) =
             (docLinks \ {d}) \cup {Edited(d, dirty, c.changes)}
<1> DEFINE new == [k \in Column |->
                     IF k \in dirty THEN c.changes[k] ELSE d.attrs[k]]
<1>1. \A e \in docLinks : e.id = i => e = d
  BY DEF IInv, PrimaryKeys, UniqueIds
<1>2. [d EXCEPT !.attrs = new] = Edited(d, dirty, c.changes)
  <2>1. Edited(d, dirty, c.changes) =
           [id |-> d.id, user_id |-> d.user_id, attrs |-> new]
    BY DEF Edited
  <2> HIDE DEF new
  <2> QED
    BY <2>1 DEF IInv, TypeOK, Row
<1>3. UpdateDocLink(i, dirty, c.changes) =
         {IF e.id = i THEN [d EXCEPT !.attrs = new] ELSE e : e \in docLinks}
  <2>1. ASSUME NEW e \in docLinks
        PROVE  (IF e.id = i
                THEN [e EXCEPT !.attrs = [k \in Column |->
                        IF k \in dirty THEN c.changes[k] ELSE e.attrs[k]]]
                ELSE e)
               = (IF e.id = i THEN [d EXCEPT !.attrs = new] ELSE e)
    BY <1>1, <2>1
  <2> QED
    BY <2>1 DEF UpdateDocLink
<1> HIDE DEF new
<1>4. {IF e.id = i THEN [d EXCEPT !.attrs = new] ELSE e : e \in docLinks} =
         (docLinks \ {d}) \cup {[d EXCEPT !.attrs = new]}
  BY <1>1
<1> QED
  BY <1>2, <1>3, <1>4

\* An UPDATE of no column leaves the rows alone.
LEMMA EmptyUpdate ==
    ASSUME docLinks \subseteq Row, NEW i, NEW changes
    PROVE  UpdateDocLink(i, {}, changes) = docLinks
<1>1. ASSUME NEW d \in docLinks
      PROVE  [d EXCEPT !.attrs = [k \in Column |->
                  IF k \in {} THEN changes[k] ELSE d.attrs[k]]] = d
  <2>1. d \in Row /\ d.attrs \in [Column -> Value]
    BY DEF Row, Attributes
  <2>2. [k \in Column |-> IF k \in {} THEN changes[k] ELSE d.attrs[k]]
           = d.attrs
    BY <2>1
  <2> QED
    BY <2>1, <2>2 DEF Row
<1> QED
  BY <1>1 DEF UpdateDocLink

\* What an edit or a delete has loaded is the link its call names, and any row
\* with that id is its caller's.
LEMMA LoadedIsOwn ==
    ASSUME IInv, NEW r \in Request, pc[r] = "write",
           call[r].op \in {"update", "delete"}
    PROVE  /\ call[r] \in Calls
           /\ Loaded(r) \in Row
           /\ Loaded(r).id = call[r].id
           /\ \A d \in docLinks : d.id = call[r].id => d.user_id = call[r].user
<1>1. session[r].found # {} /\ call[r] \in Calls
  BY DEF IInv, Bookkeeping
<1>2. Loaded(r) \in session[r].found
  BY <1>1, LoadedIsFound
<1> QED
  BY <1>1, <1>2 DEF IInv, TypeOK, Bookkeeping, Knowledge

LEMMA CreateTakesEffect ==
    ASSUME IInv, NEW r \in Request, CommitCreate(r)
    PROVE  Store!Create(call[r])
BY DEF CommitCreate, Store!Create

LEMMA UpdateTakesEffect ==
    ASSUME IInv, NEW r \in Request, CommitUpdate(r)
    PROVE  Store!Update(call[r])
<1> DEFINE dirty == Dirty(Loaded(r).attrs, call[r].changes)
<1>1. /\ call[r].op = "update" /\ pc[r] = "write"
      /\ dirty = {} \/ \E d \in docLinks : d.id = Loaded(r).id
      /\ docLinks' = UpdateDocLink(Loaded(r).id, dirty, call[r].changes)
      /\ UNCHANGED <<hostUsers, preferences, issued>>
  BY DEF CommitUpdate
<1>2. dirty \in SUBSET DOMAIN call[r].changes
  BY DEF Dirty
<1> HIDE DEF dirty
<1>3. CASE dirty = {}
  <2>1. docLinks' = docLinks
    BY <1>1, <1>3, EmptyUpdate DEF IInv, TypeOK
  <2> QED
    BY <1>1, <2>1 DEF Store!Update
<1>4. CASE dirty # {}
  <2>1. PICK d \in docLinks : d.id = Loaded(r).id
    BY <1>1, <1>4
  <2>2. d.id = call[r].id /\ d.user_id = call[r].user /\ call[r] \in Calls
    BY <1>1, <2>1, LoadedIsOwn
  <2>3. docLinks' = (docLinks \ {d}) \cup {Edited(d, dirty, call[r].changes)}
    BY <1>1, <1>2, <2>1, <2>2, UpdateIsOneRow
  <2> QED
    BY <1>1, <1>2, <2>2, <2>3 DEF Store!Update, Edited
<1> QED
  BY <1>3, <1>4

LEMMA DeleteTakesEffect ==
    ASSUME IInv, NEW r \in Request, CommitDelete(r)
    PROVE  Store!Delete(call[r])
<1>1. /\ call[r].op = "delete" /\ pc[r] = "write"
      /\ docLinks' = {d \in docLinks : d.id # Loaded(r).id}
      /\ UNCHANGED <<hostUsers, preferences, issued>>
  BY DEF CommitDelete
<1>2. /\ Loaded(r).id = call[r].id
      /\ \A d \in docLinks : d.id = call[r].id => d.user_id = call[r].user
  BY <1>1, LoadedIsOwn
<1>3. docLinks' = {d \in docLinks :
                     ~(d.id = call[r].id /\ d.user_id = call[r].user)}
  BY <1>1, <1>2
<1> QED
  BY <1>1, <1>3 DEF Store!Delete

LEMMA ModeTakesEffect ==
    ASSUME IInv, NEW r \in Request, CommitMode(r)
    PROVE  Store!SetMode(call[r])
BY DEF CommitMode, SetViewMode, Store!SetMode

-----------------------------------------------------------------------------
(* Every step is a step of LinkStore or changes nothing LinkStore sees.    *)

\* A COMMIT is the moment at which a call takes effect.
LEMMA CommitIsTheEffect ==
    ASSUME IInv, TypeOK', NEW r \in Request, NEW id, Committed(r, id),
           pc[r] = "write", Progress(r), UNCHANGED call,
           \/ Store!Create(call[r]) \/ Store!Update(call[r])
           \/ Store!Delete(call[r]) \/ Store!SetMode(call[r])
    PROVE  Store!TakeEffect(r)
<1>1. /\ StageOf(pc[r]) = "open" /\ ~session[r].durable
      /\ VerdictOf(pc[r], answer[r].status) = "none"
  BY DEF StageOf, VerdictOf, InFlight, IInv, Bookkeeping
<1>2. /\ Stage' = [Stage EXCEPT ![r] = StageOf(pc'[r])]
      /\ Took' = [Took EXCEPT ![r] = session'[r].durable]
      /\ Verdict' = [Verdict EXCEPT ![r] =
                        VerdictOf(pc'[r], answer'[r].status)]
  BY OneRequestMoves DEF IInv, StepOf
<1>3. session'[r].durable = TRUE
  BY DEF IInv, TypeOK, Committed
<1>4. \/ /\ StageOf(pc'[r]) = "open"
         /\ VerdictOf(pc'[r], answer'[r].status) = "none"
      \/ /\ StageOf(pc'[r]) = "over"
         /\ VerdictOf(pc'[r], answer'[r].status) \in {"done", "failed"}
  BY AfterTheCommit DEF IInv, StageOf, VerdictOf, InFlight
<1>5. Stage[r] = "open" /\ Took[r] = FALSE /\ Verdict[r] = "none"
  BY <1>1 DEF Stage, Took, Verdict, IInv, TypeOK
<1>6. Took' = [Took EXCEPT ![r] = TRUE]
  BY <1>2, <1>3
<1>7. \/ Stage' = Stage /\ Verdict' = Verdict
      \/ \E v \in {"done", "failed"} :
            /\ Stage' = [Stage EXCEPT ![r] = "over"]
            /\ Verdict' = [Verdict EXCEPT ![r] = v]
  <2>1. CASE /\ StageOf(pc'[r]) = "open"
             /\ VerdictOf(pc'[r], answer'[r].status) = "none"
    <3>1. Stage' = [Stage EXCEPT ![r] = "open"] /\ Stage[r] = "open"
      BY <1>2, <1>5, <2>1
    <3>2. Verdict' = [Verdict EXCEPT ![r] = "none"] /\ Verdict[r] = "none"
      BY <1>2, <1>5, <2>1
    <3> QED
      BY <3>1, <3>2 DEF Stage, Verdict
  <2>2. CASE /\ StageOf(pc'[r]) = "over"
             /\ VerdictOf(pc'[r], answer'[r].status) \in {"done", "failed"}
    BY <1>2, <2>2
  <2> QED
    BY <1>4, <2>1, <2>2
<1> QED
  BY <1>5, <1>6, <1>7
     DEF Stage, Took, Verdict, Store!TakeEffect, Store!Conclude

\* An answer, or the end of the instance, without an effect of its own.
LEMMA AnswerFinishes ==
    ASSUME IInv, TypeOK', NEW r \in Request, StepOf(r), pc[r] \in InFlight,
           UNCHANGED <<tables, call>>, session'[r].durable = session[r].durable,
           StageOf(pc'[r]) = "over",
           LET v == VerdictOf(pc'[r], answer'[r].status) IN
             \/ v = "refused" /\ ~session[r].durable
             \/ v = "done" /\ (session[r].durable \/ call[r].op = "list")
             \/ v = "failed"
    PROVE  Store!Finish(r)
<1> DEFINE v == VerdictOf(pc'[r], answer'[r].status)
<1>1. /\ Stage' = [Stage EXCEPT ![r] = "over"]
      /\ Took' = [Took EXCEPT ![r] = session'[r].durable]
      /\ Verdict' = [Verdict EXCEPT ![r] = v]
  BY OneRequestMoves DEF IInv
<1>2. \/ v = "refused" /\ ~session[r].durable
      \/ v = "done" /\ (session[r].durable \/ call[r].op = "list")
      \/ v = "failed"
  OBVIOUS
<1>3. Took' = Took
  BY <1>1 DEF Took
<1>4. Stage[r] = "open" /\ Took[r] = session[r].durable
  BY DEF Stage, Took, StageOf, InFlight
<1> HIDE DEF v
<1>5. /\ hostUsers' = hostUsers /\ docLinks' = docLinks
      /\ preferences' = preferences /\ issued' = issued /\ call' = call
  BY DEF tables
<1> QED
  BY <1>1, <1>2, <1>3, <1>4, <1>5
     DEF Stage, Took, Verdict, Store!Finish, Store!Conclude, Store!store

\* Going on to another statement.
LEMMA GoingOnStutters ==
    ASSUME IInv, TypeOK', NEW r \in Request, StepOf(r),
           pc[r] \in InFlight, pc'[r] \in InFlight,
           UNCHANGED <<tables, call>>, session'[r].durable = session[r].durable
    PROVE  UNCHANGED Store!vars
<1>1. /\ Stage' = [Stage EXCEPT ![r] = "open"]
      /\ Took' = [Took EXCEPT ![r] = session[r].durable]
      /\ Verdict' = [Verdict EXCEPT ![r] = "none"]
  BY OneRequestMoves DEF IInv, StageOf, VerdictOf, InFlight
<1>2. Stage[r] = "open" /\ Took[r] = session[r].durable /\ Verdict[r] = "none"
  BY DEF Stage, Took, Verdict, StageOf, VerdictOf, InFlight
<1>3. Stage' = Stage /\ Took' = Took /\ Verdict' = Verdict
  BY <1>1, <1>2 DEF Stage, Took, Verdict
<1> QED
  BY <1>3 DEF Stage, Took, Verdict, Store!vars, tables

\* A request's step is one of LinkStore's, or none.
LEMMA RequestStepMaps ==
    ASSUME DurableInv, TypeOK', NEW r \in Request, StepOf(r)
    PROVE  \/ Store!Open(r) \/ Store!TakeEffect(r) \/ Store!Finish(r)
           \/ Store!Release(r) \/ UNCHANGED Store!vars
<1> USE DEF DurableInv
<1>1. CASE \E c \in Calls : Receive(r, c)
  <2>1. PICK c \in Calls : Receive(r, c)
    BY <1>1
  <2>2. /\ pc[r] = "idle" /\ answer[r] = NoAnswer
        /\ call' = [call EXCEPT ![r] = c]
        /\ UNCHANGED <<tables, session>>
    BY <2>1 DEF Receive, IInv, Bookkeeping
  <2>3. \/ /\ pc'[r] \in InFlight
        \/ /\ pc'[r] = "answered" /\ answer'[r].status \in {302, 401, 422}
    BY <2>1 DEF Receive, Respond, GoTo, FirstStep, InFlight, IInv, TypeOK
  <2>4. \/ /\ StageOf(pc'[r]) = "open"
           /\ VerdictOf(pc'[r], answer'[r].status) = "none"
        \/ /\ StageOf(pc'[r]) = "over"
           /\ VerdictOf(pc'[r], answer'[r].status) = "refused"
    BY <2>3 DEF StageOf, VerdictOf, InFlight
  <2>5. /\ Stage' = [Stage EXCEPT ![r] = StageOf(pc'[r])]
        /\ Verdict' = [Verdict EXCEPT ![r] =
                          VerdictOf(pc'[r], answer'[r].status)]
    BY OneRequestMoves DEF IInv
  <2>6. Took' = Took
    BY <2>2 DEF Took
  <2>7. Stage[r] = "idle" /\ Verdict[r] = "none"
    BY <2>2 DEF Stage, StageOf, Verdict, VerdictOf
  <2>8. \/ Stage' = [Stage EXCEPT ![r] = "open"] /\ Verdict' = Verdict
        \/ /\ Stage' = [Stage EXCEPT ![r] = "over"]
           /\ Verdict' = [Verdict EXCEPT ![r] = "refused"]
    <3>1. CASE VerdictOf(pc'[r], answer'[r].status) = "none"
      <4>1. Verdict' = [Verdict EXCEPT ![r] = "none"]
        BY <2>5, <3>1
      <4>2. Verdict' = Verdict
        BY <2>7, <4>1 DEF Verdict
      <4> QED
        BY <2>4, <2>5, <3>1, <4>2
    <3> QED
      BY <2>4, <2>5, <3>1
  <2>9. Store!Open(r)
    BY <2>2, <2>6, <2>7, <2>8
       DEF Stage, Took, Verdict, Store!Open, Store!Conclude, Store!store,
           tables
  <2> QED
    BY <2>9
<1>2. CASE SelectOwned(r)
  <2>1. /\ pc[r] = "select" /\ UNCHANGED <<tables, call>>
        /\ session'[r].durable = session[r].durable /\ ~session[r].durable
    BY <1>2 DEF SelectOwned, IInv, TypeOK, Bookkeeping
  <2>2. \/ pc'[r] = "write"
        \/ pc'[r] = "answered" /\ answer'[r].status \in {404, 422}
    BY <1>2 DEF SelectOwned, Respond, GoTo, IInv, TypeOK
  <2>3. CASE pc'[r] = "write"
    BY <2>1, <2>3, GoingOnStutters DEF InFlight
  <2>4. CASE pc'[r] = "answered" /\ answer'[r].status \in {404, 422}
    <3>1. VerdictOf(pc'[r], answer'[r].status) = "refused"
          /\ StageOf(pc'[r]) = "over"
      BY <2>4 DEF VerdictOf, StageOf, InFlight
    <3> QED
      BY <2>1, <3>1, AnswerFinishes DEF InFlight
  <2> QED
    BY <2>2, <2>3, <2>4
<1>3. CASE CommitCreate(r)
  <2>1. PICK i : Committed(r, i)
    BY <1>3 DEF CommitCreate
  <2> QED
    BY <1>3, <2>1, CreateTakesEffect, CommitIsTheEffect
       DEF CommitCreate, Progress, Write
<1>4. CASE CommitUpdate(r)
  BY <1>4, UpdateTakesEffect, CommitIsTheEffect
     DEF CommitUpdate, Progress, Write
<1>5. CASE CommitDelete(r)
  BY <1>5, DeleteTakesEffect, CommitIsTheEffect
     DEF CommitDelete, Progress, Write
<1>6. CASE CommitMode(r)
  BY <1>6, ModeTakesEffect, CommitIsTheEffect
     DEF CommitMode, Progress, Write
<1>7. CASE UpdateMatchesNothing(r) \/ AccountIsGone(r) \/ Fail(r)
  <2>1. /\ pc[r] \in InFlight /\ UNCHANGED <<tables, call, session>>
        /\ pc'[r] = "answered" /\ answer'[r].status = 500
    BY <1>7 DEF UpdateMatchesNothing, AccountIsGone, Fail, Respond, GoTo,
                InFlight, IInv, TypeOK
  <2>2. VerdictOf(pc'[r], answer'[r].status) = "failed"
        /\ StageOf(pc'[r]) = "over"
    BY <2>1 DEF VerdictOf, StageOf, InFlight
  <2> QED
    BY <2>1, <2>2, AnswerFinishes
<1>8. CASE Refresh(r)
  <2>1. /\ pc[r] \in InFlight /\ UNCHANGED <<tables, call, session>>
        /\ pc'[r] = "answered" /\ answer'[r].status \in {201, 500}
        /\ session[r].durable
    BY <1>8 DEF Refresh, Respond, GoTo, InFlight, IInv, TypeOK,
                RendersWhatIsDurable
  <2>2. VerdictOf(pc'[r], answer'[r].status) \in {"done", "failed"}
        /\ StageOf(pc'[r]) = "over"
    BY <2>1 DEF VerdictOf, StageOf, InFlight
  <2> QED
    BY <2>1, <2>2, AnswerFinishes
<1>9. CASE SelectLinks(r)
  <2>1. /\ pc[r] = "links" /\ UNCHANGED <<tables, call, session>>
        /\ session[r].durable \/ call[r].op = "list"
        /\ \/ pc'[r] = "mode"
           \/ call[r].surface = "json" /\ pc'[r] = "answered"
    BY <1>9 DEF SelectLinks, GoTo, IInv, TypeOK, RendersWhatIsDurable
  <2>2. CASE pc'[r] = "mode"
    BY <2>1, <2>2, GoingOnStutters DEF InFlight
  <2>3. CASE call[r].surface = "json" /\ pc'[r] = "answered"
    <3> DEFINE lines == {[row |-> d, shown |-> Shown(r, d)] :
                            d \in ListForUser(call[r].user)}
    <3>1. answer' = [answer EXCEPT ![r].entries = lines, ![r].status = 200]
      BY <1>9, <2>3 DEF SelectLinks
    <3> HIDE DEF lines
    <3>2. answer'[r].status = 200
      BY <3>1 DEF IInv, TypeOK
    <3>3. VerdictOf(pc'[r], answer'[r].status) = "done"
          /\ StageOf(pc'[r]) = "over"
      BY <2>3, <3>2 DEF VerdictOf, StageOf, InFlight
    <3> QED
      BY <2>1, <3>3, AnswerFinishes DEF InFlight
  <2> QED
    BY <2>1, <2>2, <2>3
<1>10. CASE SelectMode(r)
  <2>1. /\ pc[r] = "mode" /\ UNCHANGED <<tables, call, session>>
        /\ session[r].durable \/ call[r].op = "list"
        /\ pc'[r] = "answered" /\ answer'[r].status = 200
    BY <1>10 DEF SelectMode, GoTo, IInv, TypeOK, RendersWhatIsDurable
  <2>2. VerdictOf(pc'[r], answer'[r].status) = "done"
        /\ StageOf(pc'[r]) = "over"
    BY <2>1 DEF VerdictOf, StageOf, InFlight
  <2> QED
    BY <2>1, <2>2, AnswerFinishes DEF InFlight
<1>11. CASE Lose(r)
  <2>1. /\ pc[r] \in InFlight /\ UNCHANGED <<tables, call, session>>
        /\ pc'[r] = "lost"
    BY <1>11 DEF Lose, GoTo, IInv, TypeOK
  <2>2. VerdictOf(pc'[r], answer'[r].status) = "failed"
        /\ StageOf(pc'[r]) = "over"
    BY <2>1 DEF VerdictOf, StageOf, InFlight
  <2> QED
    BY <2>1, <2>2, AnswerFinishes
<1>12. CASE Close(r)
  <2>1. /\ pc[r] \in {"answered", "lost"} /\ pc'[r] = "idle"
        /\ call' = [call EXCEPT ![r] = NoCall]
        /\ session'[r].durable = FALSE /\ UNCHANGED tables
    BY <1>12 DEF Close, GoTo, NewSession, IInv, TypeOK
  <2>2. /\ StageOf(pc'[r]) = "idle"
        /\ VerdictOf(pc'[r], answer'[r].status) = "none"
    BY <2>1 DEF StageOf, VerdictOf
  <2>3. /\ Stage' = [Stage EXCEPT ![r] = "idle"]
        /\ Took' = [Took EXCEPT ![r] = FALSE]
        /\ Verdict' = [Verdict EXCEPT ![r] = "none"]
    BY <2>1, <2>2, OneRequestMoves DEF IInv
  <2>4. Stage[r] = "over"
    BY <2>1 DEF Stage, StageOf, InFlight
  <2>5. Store!Release(r)
    BY <2>1, <2>3, <2>4
       DEF Stage, Took, Verdict, Store!Release, Store!store, tables
  <2> QED
    BY <2>5
<1> QED
  BY <1>1, <1>2, <1>3, <1>4, <1>5, <1>6, <1>7, <1>8, <1>9, <1>10, <1>11,
     <1>12 DEF StepOf, Progress, Write

LEMMA InitMaps == Init => Store!Init
<1> SUFFICES ASSUME Init PROVE Store!Init
  OBVIOUS
<1>1. docLinks \subseteq [id : LinkId, user_id : User,
                          attrs : [Column -> Value]]
  BY InitType DEF TypeOK, Row, Attributes
<1>2. /\ Stage = [r \in Request |-> "idle"]
      /\ Took = [r \in Request |-> FALSE]
      /\ Verdict = [r \in Request |-> "none"]
  BY DEF Init, Stage, Took, Verdict, StageOf, VerdictOf, NewSession
<1> QED
  BY <1>1, <1>2 DEF Init, Stage, Took, Verdict, Store!Init

LEMMA NextMaps ==
    DurableInv /\ [Next]_vars => [Store!Next]_(Store!vars)
<1> SUFFICES ASSUME DurableInv, [Next]_vars
             PROVE  Store!Next \/ UNCHANGED Store!vars
  OBVIOUS
<1>1. TypeOK'
  BY NextType DEF DurableInv
<1>2. CASE \E r \in Request : StepOf(r)
  BY <1>1, <1>2, RequestStepMaps DEF Store!Next
<1>3. CASE \E u \in Leavers : DeleteAccount(u)
  <2>1. PICK u \in Leavers : DeleteAccount(u)
    BY <1>3
  <2>2. Stage' = Stage /\ Took' = Took /\ Verdict' = Verdict
    BY <2>1 DEF DeleteAccount, Stage, Took, Verdict
  <2>3. Store!RemoveAccount(u)
    BY <2>1, <2>2
       DEF DeleteAccount, Stage, Took, Verdict, Store!RemoveAccount
  <2> QED
    BY <2>3 DEF Store!Next
<1>4. CASE UNCHANGED vars
  <2>1. Stage' = Stage /\ Took' = Took /\ Verdict' = Verdict
    BY <1>4 DEF vars, Stage, Took, Verdict
  <2> QED
    BY <1>4, <2>1 DEF vars, Stage, Took, Verdict, Store!vars
<1> QED
  BY <1>2, <1>3, <1>4 DEF Next, StepOf

\* The handlers keep LinkStore's promise: every call takes effect at most
\* once, at its COMMIT, on its caller's rows only, a refused call never does,
\* and one that is told of success has.
THEOREM ServiceImplementsStore == Spec => ImplementsStore
<1>1. Init => Store!Init
  BY InitMaps
<1>2. DurableInv /\ [Next]_vars => [Store!Next]_(Store!vars)
  BY NextMaps
<1> QED
  BY <1>1, <1>2, DurableInvariance, PTL
     DEF Spec, ImplementsStore, Store!Spec

-----------------------------------------------------------------------------
(* No step changes more than its call asks for.                            *)

\* Rows that a COMMIT takes away are named by the call that commits.
LEMMA LostRowsAreNamed ==
    ASSUME IInv, NEW r \in Request, NEW d \in docLinks, d \notin docLinks',
           CommitUpdate(r) \/ CommitDelete(r)
    PROVE  /\ Commits(r)
           /\ call[r].id = d.id /\ call[r].user = d.user_id
           /\ \/ call[r].op = "delete"
              \/ /\ call[r].op = "update"
                 /\ \E e \in docLinks' : EditedWithin(d, e, call[r].changes)
<1>1. Commits(r)
  BY AfterTheCommit DEF CommitUpdate, CommitDelete, Commits, IInv
<1>2. /\ call[r] \in Calls /\ Loaded(r).id = call[r].id
      /\ \A e \in docLinks : e.id = call[r].id => e.user_id = call[r].user
  BY LoadedIsOwn DEF CommitUpdate, CommitDelete
<1>3. CASE CommitDelete(r)
  <2>1. call[r].op = "delete"
        /\ docLinks' = {e \in docLinks : e.id # Loaded(r).id}
    BY <1>3 DEF CommitDelete
  <2> QED
    BY <1>1, <1>2, <2>1
<1>4. CASE CommitUpdate(r)
  <2> DEFINE dirty == Dirty(Loaded(r).attrs, call[r].changes)
  <2>1. /\ call[r].op = "update"
        /\ dirty = {} \/ \E e \in docLinks : e.id = Loaded(r).id
        /\ docLinks' = UpdateDocLink(Loaded(r).id, dirty, call[r].changes)
    BY <1>4 DEF CommitUpdate
  <2>2. dirty \in SUBSET DOMAIN call[r].changes
    BY DEF Dirty
  <2> HIDE DEF dirty
  <2>3. dirty # {}
    BY <2>1, EmptyUpdate DEF IInv, TypeOK
  <2>4. PICK e \in docLinks : e.id = Loaded(r).id
    BY <2>1, <2>3
  <2>5. docLinks' = (docLinks \ {e}) \cup {Edited(e, dirty, call[r].changes)}
    <3>1. call[r] \in Calls
      BY <1>2
    <3>2. docLinks' = UpdateDocLink(e.id, dirty, call[r].changes)
      BY <2>1, <2>4
    <3> QED
      BY <2>2, <3>1, <3>2, UpdateIsOneRow
  <2>6. d = e /\ Edited(d, dirty, call[r].changes) \in docLinks'
    BY <2>5
  <2>7. EditedWithin(d, Edited(d, dirty, call[r].changes), call[r].changes)
    <3> DEFINE attrs == [k \in Column |->
                 IF k \in dirty THEN call[r].changes[k] ELSE d.attrs[k]]
               new == Edited(d, dirty, call[r].changes)
    <3>1. new.id = d.id /\ new.user_id = d.user_id /\ new.attrs = attrs
      BY DEF Edited
    <3>2. ASSUME NEW c \in Column
          PROVE  \/ attrs[c] = d.attrs[c]
                 \/ c \in DOMAIN call[r].changes
                    /\ attrs[c] = call[r].changes[c]
      BY <2>2
    <3> HIDE DEF attrs, new
    <3>3. EditedWithin(d, new, call[r].changes)
      BY <3>1, <3>2 DEF EditedWithin
    <3> QED
      BY <3>3 DEF new
  <2> QED
    BY <1>1, <1>2, <2>1, <2>4, <2>6, <2>7
<1> QED
  BY <1>3, <1>4

\* A row changes or goes only by a COMMIT of its owner's call on it, in the
\* columns submitted, or with its account; a view mode only as its user says.
THEOREM WritesAreConfined == Spec => WritesStayWithinCall
<1> DEFINE Confined ==
       /\ \A d \in docLinks \ docLinks' :
            \/ d.user_id \notin hostUsers'
            \/ \E r \in Request :
                /\ Commits(r)
                /\ call[r].id = d.id /\ call[r].user = d.user_id
                /\ \/ call[r].op = "delete"
                   \/ /\ call[r].op = "update"
                      /\ \E e \in docLinks' :
                            EditedWithin(d, e, call[r].changes)
       /\ \A p \in preferences' \ preferences :
            \E r \in Request :
                /\ Commits(r) /\ call[r].op = "setMode"
                /\ p = [user_id |-> call[r].user, view_mode |-> call[r].mode]
<1>1. ASSUME IInv, [Next]_vars PROVE Confined
  <2>1. CASE UNCHANGED tables
    BY <2>1 DEF tables
  <2>2. ASSUME NEW r \in Request, CommitCreate(r) PROVE Confined
    BY <2>2 DEF CommitCreate
  <2>3. ASSUME NEW r \in Request, CommitUpdate(r) \/ CommitDelete(r)
        PROVE  Confined
    <3>1. preferences' = preferences
      BY <2>3 DEF CommitUpdate, CommitDelete
    <3> QED
      BY <1>1, <2>3, <3>1, LostRowsAreNamed
  <2>4. ASSUME NEW r \in Request, CommitMode(r) PROVE Confined
    <3>1. /\ docLinks' = docLinks /\ call[r].op = "setMode"
          /\ preferences' = SetViewMode(call[r].user, call[r].mode)
      BY <2>4 DEF CommitMode
    <3>2. Commits(r)
      BY <1>1, <2>4, AfterTheCommit DEF CommitMode, Commits, IInv
    <3> QED
      BY <3>1, <3>2 DEF SetViewMode
  <2>5. ASSUME NEW u \in Leavers, DeleteAccount(u) PROVE Confined
    BY <2>5 DEF DeleteAccount
  <2> QED
    BY <1>1, <2>1, <2>2, <2>3, <2>4, <2>5, TableSteps
<1>2. IInv /\ [Next]_vars => [Confined]_vars
  BY <1>1
<1> QED
  BY <1>2, Invariance, PTL DEF Spec, WritesStayWithinCall

-----------------------------------------------------------------------------
(* A fragment shows its own effect.                                        *)

\* What OwnEffectShown asks of the entries of one rendered fragment.
ShowsItsEffect(r) ==
    LET shown(i) == {e \in answer[r].entries : e.row.id = i} IN
    /\ call[r].op = "create" =>
          shown(session[r].id) # {} \/ ~HasRow(session[r].id)
    /\ call[r].op = "update" =>
          \/ shown(call[r].id) = {} /\ ~HasRow(call[r].id)
          \/ /\ shown(call[r].id) # {}
             /\ \A e \in shown(call[r].id) : e.shown = call[r].changes
    /\ call[r].op = "delete" => shown(call[r].id) = {}

\* Nothing has a status before it is answered, and the effect shows from the
\* moment the links are selected.
Rendering(r) ==
    /\ pc[r] # "answered" => answer[r].status = 0
    /\ call[r].surface = "fragment"
          /\ (pc[r] = "mode" \/ answer[r].status = 200) => ShowsItsEffect(r)

EffectInv == DurableInv /\ \A r \in Request : Rendering(r)

\* An id a request holds does not come back to a row: what it has shown stays
\* right while others change the tables.
LEMMA ShownStays ==
    ASSUME IInv, TypeOK', IdsStay, NEW q \in Request, pc[q] # "idle",
           call'[q] = call[q], session'[q] = session[q],
           answer'[q].entries = answer[q].entries,
           ShowsItsEffect(q)
    PROVE  ShowsItsEffect(q)'
<1>1. ASSUME NEW i \in issued \cup {NoLink}, ~HasRow(i)
      PROVE  ~HasRow(i)'
  BY <1>1, ConstantsAssumption DEF HasRow, IdsStay, TypeOK, Row
<1>2. /\ session[q].id \in issued \cup {NoLink}
      /\ call[q].id \in issued \cup {NoLink}
  BY DEF IInv, Bookkeeping, Knowledge
<1>3. /\ ~HasRow(session[q].id) => ~HasRow(session[q].id)'
      /\ ~HasRow(call[q].id) => ~HasRow(call[q].id)'
  BY <1>1, <1>2
<1> QED
  BY <1>3 DEF ShowsItsEffect

\* The list selected after the COMMIT holds the created link, shows the edited
\* one as submitted, and does not hold the deleted one.
LEMMA SelectShows ==
    ASSUME DurableInv, TypeOK', NEW r \in Request, SelectLinks(r),
           call[r].surface = "fragment"
    PROVE  ShowsItsEffect(r)'
<1> USE DEF DurableInv
<1> DEFINE lines == {[row |-> d, shown |-> Shown(r, d)] :
                        d \in ListForUser(call[r].user)}
<1>1. /\ pc[r] = "links" /\ call[r] \in Calls
      /\ call' = call /\ session' = session /\ docLinks' = docLinks
  BY DEF SelectLinks, IInv, Bookkeeping, tables
<1>2. answer'[r].entries = lines
  BY DEF SelectLinks, IInv, TypeOK
<1>3. session[r].durable
  <2>1. call[r].op # "list"
    BY <1>1, CallsAssumption DEF WellFormedCall
  <2> QED
    BY <1>1, <2>1 DEF RendersWhatIsDurable
<1>4. ASSUME NEW d \in docLinks, d.user_id = call[r].user
      PROVE  [row |-> d, shown |-> Shown(r, d)] \in lines
  BY <1>4 DEF ListForUser
<1>5. \A e \in lines : /\ e.row \in docLinks
                       /\ e.shown = Shown(r, e.row)
  BY DEF ListForUser
<1> HIDE DEF lines
<1>6. ASSUME call[r].op = "create", HasRow(session[r].id)
      PROVE  \E e \in lines : e.row.id = session[r].id
  <2>1. PICK d \in docLinks : d.id = session[r].id
    BY <1>6 DEF HasRow
  <2>2. session[r].id # NoLink
    BY <2>1, ConstantsAssumption DEF IInv, TypeOK, Row
  <2>3. d.user_id = call[r].user
    BY <2>1, <2>2 DEF IInv, Knowledge
  <2> QED
    BY <1>4, <2>1, <2>3
<1>7. ASSUME call[r].op = "update"
      PROVE  /\ HasRow(call[r].id) => \E e \in lines : e.row.id = call[r].id
             /\ \A e \in lines : e.row.id = call[r].id =>
                   HasRow(call[r].id) /\ e.shown = call[r].changes
  <2>1. /\ session[r].found # {} /\ Loaded(r) \in session[r].found
    BY <1>3, <1>7, LoadedIsFound DEF IInv, Bookkeeping
  <2>2. /\ Loaded(r).id = call[r].id /\ Loaded(r) \in Row
        /\ \A d \in docLinks : d.id = call[r].id => d.user_id = call[r].user
    BY <2>1 DEF IInv, TypeOK, Bookkeeping, Knowledge
  <2>3. Merge(Loaded(r).attrs, call[r].changes) = call[r].changes
    <3>1. DOMAIN call[r].changes = Column
      BY <1>1, <1>7, CallsAssumption DEF WellFormedCall
    <3>2. call[r].changes \in Changes
      BY <1>1, CallsAssumption DEF WellFormedCall, Call
    <3>3. PICK S \in SUBSET Column : call[r].changes \in [S -> Value]
      BY <3>2 DEF Changes
    <3>4. call[r].changes = [c \in Column |-> call[r].changes[c]]
      BY <3>1, <3>3
    <3> QED
      BY <3>1, <3>4 DEF Merge
  <2>4. HasRow(call[r].id) => \E e \in lines : e.row.id = call[r].id
    <3> SUFFICES ASSUME NEW d \in docLinks, d.id = call[r].id
                 PROVE  \E e \in lines : e.row.id = call[r].id
      BY DEF HasRow
    <3> QED
      BY <1>4, <2>2
  <2>5. ASSUME NEW e \in lines, e.row.id = call[r].id
        PROVE  HasRow(call[r].id) /\ e.shown = call[r].changes
    <3>1. e.row \in docLinks /\ e.shown = Shown(r, e.row)
      BY <1>5
    <3>2. Shown(r, e.row) = Merge(Loaded(r).attrs, call[r].changes)
      BY <1>7, <2>1, <2>2, <2>5 DEF Shown
    <3> QED
      BY <2>3, <2>5, <3>1, <3>2 DEF HasRow
  <2> QED
    BY <2>4, <2>5
<1>8. ASSUME call[r].op = "delete"
      PROVE  \A e \in lines : e.row.id # call[r].id
  <2>1. ~HasRow(call[r].id)
    BY <1>3, <1>8 DEF IInv, Knowledge
  <2> QED
    BY <1>5, <2>1 DEF HasRow
<1>9. \A i : HasRow(i)' <=> HasRow(i)
  BY <1>1 DEF HasRow
<1> QED
  BY <1>1, <1>2, <1>6, <1>7, <1>8, <1>9 DEF ShowsItsEffect

LEMMA EffectStep ==
    ASSUME EffectInv, [Next]_vars, DurableInv'
    PROVE  \A q \in Request : Rendering(q)'
<1> USE DEF EffectInv, DurableInv
<1> TAKE q \in Request
<1>1. TypeOK' /\ IdsStay
  BY NextType, TablesStep
<1>2. CASE /\ pc'[q] = pc[q] /\ call'[q] = call[q]
           /\ session'[q] = session[q] /\ answer'[q] = answer[q]
  <2>1. CASE pc[q] = "idle"
    BY <1>2, <2>1 DEF Rendering, IInv, Bookkeeping, NoAnswer
  <2>2. CASE pc[q] # "idle"
    BY <1>1, <1>2, <2>2, ShownStays DEF Rendering
  <2> QED
    BY <2>1, <2>2
<1>3. ASSUME NEW r \in Request, StepOf(r), q # r
      PROVE  Rendering(q)'
  BY <1>2, <1>3, OthersUntouched DEF StepOf, IInv
<1>4. ASSUME pc'[q] # "mode", answer'[q].status # 200,
             pc'[q] # "answered" => answer'[q].status = answer[q].status,
             pc[q] # "answered"
      PROVE  Rendering(q)'
  BY <1>4 DEF Rendering
<1>5. pc[q] # "answered" => answer[q].status = 0
  BY DEF Rendering
<1>6. CASE \E c \in Calls : Receive(q, c)
  BY <1>4, <1>5, <1>6
     DEF Receive, Respond, GoTo, FirstStep, IInv, TypeOK
<1>7. CASE SelectOwned(q)
  BY <1>4, <1>5, <1>7 DEF SelectOwned, Respond, GoTo, IInv, TypeOK
<1>8. ASSUME NEW id, Committed(q, id), pc[q] = "write", call' = call
      PROVE  Rendering(q)'
  <2>1. /\ pc'[q] # "mode"
        /\ pc'[q] # "answered" => answer'[q] = answer[q]
        /\ call[q].surface = "fragment" => answer'[q].status # 200
    BY <1>5, <1>8 DEF Committed, Respond, GoTo, IInv, TypeOK
  <2> QED
    BY <1>5, <1>8, <2>1 DEF Rendering
<1>9. CASE CommitCreate(q) \/ CommitUpdate(q) \/ CommitDelete(q)
             \/ CommitMode(q)
  BY <1>8, <1>9 DEF CommitCreate, CommitUpdate, CommitDelete, CommitMode
<1>10. CASE UpdateMatchesNothing(q) \/ AccountIsGone(q) \/ Fail(q)
  BY <1>4, <1>5, <1>10
     DEF UpdateMatchesNothing, AccountIsGone, Fail, InFlight, Respond, GoTo,
         IInv, TypeOK
<1>11. CASE Refresh(q)
  BY <1>4, <1>5, <1>11 DEF Refresh, Respond, GoTo, IInv, TypeOK
<1>12. CASE SelectLinks(q)
  <2> DEFINE lines == {[row |-> d, shown |-> Shown(q, d)] :
                          d \in ListForUser(call[q].user)}
             status == IF call[q].surface = "json" THEN 200
                       ELSE answer[q].status
  <2>1. answer' = [answer EXCEPT ![q].entries = lines, ![q].status = status]
    BY <1>12 DEF SelectLinks, IInv, TypeOK
  <2>2. call[q].surface # "json" => status = answer[q].status
    OBVIOUS
  <2> HIDE DEF lines, status
  <2>3. answer'[q].status = status
    BY <2>1 DEF IInv, TypeOK
  <2>4. /\ pc[q] = "links" /\ call' = call
        /\ pc'[q] = IF call[q].surface = "json" THEN "answered" ELSE "mode"
    BY <1>12 DEF SelectLinks, GoTo, IInv, TypeOK
  <2>5. CASE call[q].surface = "fragment"
    <3>1. ShowsItsEffect(q)'
      BY <1>1, <1>12, <2>5, SelectShows
    <3> QED
      BY <1>5, <2>2, <2>3, <2>4, <2>5, <3>1 DEF Rendering
  <2>6. CASE call[q].surface # "fragment"
    BY <1>5, <2>2, <2>3, <2>4, <2>6 DEF Rendering
  <2> QED
    BY <2>5, <2>6
<1>13. CASE SelectMode(q)
  <2>1. /\ pc[q] = "mode" /\ pc'[q] = "answered"
        /\ call' = call /\ session' = session
        /\ answer'[q].entries = answer[q].entries
    BY <1>13 DEF SelectMode, GoTo, IInv, TypeOK
  <2> QED
    BY <1>1, <2>1, ShownStays DEF Rendering
<1>14. CASE Lose(q)
  BY <1>4, <1>5, <1>14 DEF Lose, InFlight, GoTo, IInv, TypeOK
<1>15. CASE Close(q)
  <2>1. pc'[q] = "idle" /\ answer'[q] = NoAnswer
    BY <1>15 DEF Close, GoTo, IInv, TypeOK
  <2> QED
    BY <2>1 DEF Rendering, NoAnswer
<1>16. CASE StepOf(q)
  BY <1>6, <1>7, <1>9, <1>10, <1>11, <1>12, <1>13, <1>14, <1>15, <1>16
     DEF StepOf, Progress, Write
<1>17. CASE UNCHANGED vars \/ \E u \in Leavers : DeleteAccount(u)
  BY <1>2, <1>17 DEF vars, DeleteAccount
<1> QED
  BY <1>3, <1>16, <1>17 DEF Next, StepOf

\* From the moment the links are selected an answer shows its effect.
THEOREM EffectInvariance == Spec => []EffectInv
<1>1. Init => \A r \in Request : Rendering(r)
  BY DEF Init, Rendering, NoAnswer
<1>2. DurableInv /\ (\A r \in Request : Rendering(r)) /\ [Next]_vars
        /\ DurableInv' => (\A r \in Request : Rendering(r))'
  BY EffectStep DEF EffectInv
<1> QED
  BY <1>1, <1>2, DurableInvariance, PTL DEF Spec, EffectInv

\* What a fragment renders includes its own effect, whatever other requests
\* and account deletions happen between its COMMIT and its two SELECTs.
THEOREM FragmentsShowTheirEffect == Spec => []OwnEffectShown
<1>1. EffectInv => OwnEffectShown
  BY DEF EffectInv, Rendering, ShowsItsEffect, OwnEffectShown
<1> QED
  BY <1>1, EffectInvariance, PTL
=============================================================================
