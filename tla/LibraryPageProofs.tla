------------------------- MODULE LibraryPageProofs --------------------------
(* Theorems about LibraryPage, for every value of the constants, in        *)
(* particular for any number of requests that overlap: what the list on    *)
(* the page shows never goes back, what the add form submits is stored     *)
(* once, and at rest the page shows what is stored.                        *)
EXTENDS LibraryPage, DocLinksProofs

-----------------------------------------------------------------------------
(* The inductive invariant.                                                *)

\* i has been the id of a link of the visitor and of nobody else.
OwnId(i) == i \in issued /\ \A d \in docLinks : d.id = i => d.user_id = Visitor

\* What waits in the browser was sent from there.
WaitsForItsOwn(r) ==
    waiting[r] # "no" =>
        /\ pc[r] # "idle"
        /\ call[r].user \in {Visitor, Nobody} /\ call[r].surface # "json"
        /\ waiting[r] # "browser" => call[r] \in PageCalls

\* The links have been selected.
Selected(r) == pc[r] = "mode" \/ answer[r].status = 200

\* A list that will be swapped in was selected after the one on the page: what
\* it lacks of that one is deleted, and nothing that left the page is in it.
IsNewer(r) ==
    /\ \A i \in Ids(page.entries) \ Ids(answer[r].entries) : ~HasRow(i)
    /\ departed \cap Ids(answer[r].entries) = {}

\* A list on its way has the visitor's links, and if it still has a target it
\* is newer than what it will replace.
OnItsWay(r) ==
    waiting[r] # "no" /\ Selected(r) =>
        /\ \A i \in Ids(answer[r].entries) : OwnId(i)
        /\ waiting[r] = "live" => IsNewer(r)

ShownAreOwn == \A i \in Ids(page.entries) : OwnId(i)
DepartedAreDeleted == \A i \in departed : i \in issued /\ ~HasRow(i)

PageInv ==
    /\ IInv
    /\ PageTypeOK
    /\ \A r \in Request : WaitsForItsOwn(r) /\ OnItsWay(r)
    /\ ShownAreOwn /\ DepartedAreDeleted /\ NoGhosts

-----------------------------------------------------------------------------
(* The page is one more client: a step of the composition is a step of the *)
(* service, or none of it.                                                 *)

\* A request is sent, and something in the browser waits for it.
Sent(r, c, kind) ==
    /\ Receive(r, c) /\ c \in Calls
    /\ c.user \in {Visitor, Nobody} /\ c.surface # "json"
    /\ kind \in {"live", "browser"} /\ (kind = "live" => c \in PageCalls)
    /\ waiting' = [waiting EXCEPT ![r] = kind]
    /\ UNCHANGED <<page, departed>>

\* An answer arrives and leaves the list as it is.
Dropped(r) == Close(r) /\ Ended(r) /\ UNCHANGED <<page, departed>>

\* Nothing is sent, and nothing arrives that the page waits for.
Unnoticed ==
    /\ UNCHANGED <<page, departed, waiting>>
    /\ \/ UNCHANGED vars
       \/ \E u \in Leavers : DeleteAccount(u)
       \/ \E r \in Request :
            \/ Progress(r) \/ Fail(r) \/ Lose(r)
            \/ waiting[r] = "no" /\ Close(r)
            \/ \E c \in Calls : c.surface = "json" /\ Receive(r, c)

LEMMA PageStepKinds ==
    ASSUME PageTypeOK, [PageNext]_allVars
    PROVE  \/ Unnoticed
           \/ \E r \in Request : \/ \E c \in Calls, k \in Waits : Sent(r, c, k)
                                 \/ Dropped(r) \/ Swap(r) \/ Load(r)
<1>1. CASE UNCHANGED allVars
  BY <1>1 DEF allVars, pageVars, Unnoticed
<1>2. ASSUME NEW r \in Request, NEW c \in PageCalls, Send(r, c),
             UNCHANGED <<page, departed>>
      PROVE  Sent(r, c, "live")
  BY <1>2 DEF Send, Sent, PageCalls
<1>3. ASSUME NEW r \in Request, NEW c \in PageCalls, Trigger(r, c)
      PROVE  Sent(r, c, "live")
  BY <1>2, <1>3 DEF Trigger
<1>4. ASSUME NEW r \in Request, NEW c \in Calls, Reload(r, c)
      PROVE  Sent(r, c, "browser")
  BY <1>4 DEF Reload, Sent
<1>5. ASSUME NEW r \in Request, SendQueued(r)
      PROVE  \E c \in PageCalls : Sent(r, c, "live")
  BY <1>2, <1>5 DEF SendQueued, PageTypeOK
<1>6. ASSUME NEW r \in Request, NEW c \in Calls, Elsewhere(r, c)
      PROVE  Unnoticed
  BY <1>6 DEF Elsewhere, Unnoticed, pageVars
<1>7. ASSUME NEW r \in Request, ServerStep(r) PROVE Unnoticed
  BY <1>7 DEF ServerStep, Unnoticed, pageVars
<1>8. ASSUME NEW u \in Leavers, HostDeletesAccount(u) PROVE Unnoticed
  BY <1>8 DEF HostDeletesAccount, Unnoticed, pageVars
<1>9. ASSUME NEW c \in PageCalls, TypeDraft(c) \/ TriggerAgain(c)
      PROVE  Unnoticed
  BY <1>9 DEF TypeDraft, TriggerAgain, Unnoticed
<1>10. ASSUME DropQueued PROVE Unnoticed
  BY <1>10 DEF DropQueued, Unnoticed
<1>11. ASSUME NEW r \in Request, Deliver(r)
       PROVE  Dropped(r) \/ Swap(r) \/ Load(r)
  BY <1>11 DEF Deliver, SwapThrows, ShowFormError, OtherFailure, Dropped
<1>12. PageCalls \subseteq Calls /\ {"live", "browser"} \subseteq Waits
  BY DEF PageCalls, Waits
<1> QED
  BY <1>1, <1>3, <1>4, <1>5, <1>6, <1>7, <1>8, <1>9, <1>10, <1>11, <1>12
     DEF PageNext

LEMMA PageStepIsStep ==
    ASSUME PageTypeOK, [PageNext]_allVars
    PROVE  [Next]_vars
<1>1. CASE Unnoticed
  BY <1>1 DEF Unnoticed, Next
<1>2. ASSUME NEW r \in Request, NEW c \in Calls, NEW k, Sent(r, c, k)
      PROVE  Next
  BY <1>2 DEF Sent, Next
<1>3. ASSUME NEW r \in Request, Dropped(r) \/ Swap(r) \/ Load(r)
      PROVE  Next
  BY <1>3 DEF Dropped, Swap, Load, Next
<1> QED
  BY <1>1, <1>2, <1>3, PageStepKinds

-----------------------------------------------------------------------------
(* What the service does meanwhile.                                        *)

\* Ids keep their owner, and what is deleted stays deleted.
LEMMA IdsKeep ==
    ASSUME IdsStay, NEW i \in issued
    PROVE  /\ i \in issued'
           /\ ~HasRow(i) => ~HasRow(i)'
           /\ OwnId(i) => OwnId(i)'
BY DEF IdsStay, HasRow, OwnId

\* A list that a request of the browser has selected stays as it is until the
\* request ends, and SelectLinks is the only way to it.
LEMMA SelectedBySelectLinks ==
    ASSUME IInv, TypeOK', NEW r \in Request,
           pc[r] # "idle", call[r].surface # "json",
           Progress(r) \/ Fail(r) \/ Lose(r), Selected(r)'
    PROVE  \/ SelectLinks(r)
           \/ Selected(r) /\ answer'[r].entries = answer[r].entries
<1> USE DEF GoTo, Respond, TypeOK, IInv, Selected
<1>1. ASSUME NEW id, Committed(r, id), pc[r] = "write"
      PROVE  Selected(r) /\ answer'[r].entries = answer[r].entries
  BY <1>1 DEF Committed
<1>2. CASE CommitCreate(r)
  BY <1>1, <1>2 DEF CommitCreate
<1>3. CASE CommitUpdate(r)
  BY <1>1, <1>3 DEF CommitUpdate
<1>4. CASE CommitDelete(r)
  BY <1>1, <1>4 DEF CommitDelete
<1>5. CASE CommitMode(r)
  BY <1>1, <1>5 DEF CommitMode
<1>6. CASE UpdateMatchesNothing(r) \/ AccountIsGone(r)
  BY <1>6 DEF UpdateMatchesNothing, AccountIsGone
<1>7. CASE SelectOwned(r)
  BY <1>7 DEF SelectOwned
<1>8. CASE Refresh(r)
  BY <1>8 DEF Refresh
<1>9. CASE SelectMode(r)
  BY <1>9 DEF SelectMode
<1>10. CASE Fail(r) \/ Lose(r)
  BY <1>10 DEF Fail, Lose
<1> QED
  BY <1>2, <1>3, <1>4, <1>5, <1>6, <1>7, <1>8, <1>9, <1>10
     DEF Progress, Write

LEMMA RequestGoesOn ==
    ASSUME IInv, TypeOK', NEW r \in Request, pc[r] # "idle",
           Progress(r) \/ Fail(r) \/ Lose(r)
    PROVE  pc'[r] # "idle" /\ call'[r] = call[r]
<1> USE DEF GoTo, Respond, TypeOK, IInv
<1>1. ASSUME NEW id, Committed(r, id)
      PROVE  pc'[r] # "idle"
  BY <1>1 DEF Committed
<1>2. CASE CommitCreate(r)
  BY <1>1, <1>2 DEF CommitCreate
<1>3. CASE CommitUpdate(r)
  BY <1>1, <1>3 DEF CommitUpdate
<1>4. CASE CommitDelete(r)
  BY <1>1, <1>4 DEF CommitDelete
<1>5. CASE CommitMode(r)
  BY <1>1, <1>5 DEF CommitMode
<1>6. CASE UpdateMatchesNothing(r) \/ AccountIsGone(r)
  BY <1>6 DEF UpdateMatchesNothing, AccountIsGone
<1>7. CASE SelectOwned(r) \/ Refresh(r)
  BY <1>7 DEF SelectOwned, Refresh
<1>8. CASE SelectLinks(r) \/ SelectMode(r)
  BY <1>8 DEF SelectLinks, SelectMode
<1>9. CASE Fail(r) \/ Lose(r)
  BY <1>9 DEF Fail, Lose
<1> QED
  BY <1>2, <1>3, <1>4, <1>5, <1>6, <1>7, <1>8, <1>9 DEF Progress, Write

\* What happens to a request of the browser unnoticed by the page.
LEMMA WhileItWaits ==
    ASSUME IInv, TypeOK', Unnoticed, NEW q \in Request, WaitsForItsOwn(q),
           waiting[q] # "no"
    PROVE  /\ pc'[q] # "idle" /\ call'[q] = call[q]
           /\ Selected(q)' =>
                 \/ SelectLinks(q)
                 \/ Selected(q) /\ answer'[q].entries = answer[q].entries
<1>1. pc[q] # "idle" /\ call[q].surface # "json"
  BY DEF WaitsForItsOwn
<1>2. CASE pc'[q] = pc[q] /\ call'[q] = call[q] /\ answer'[q] = answer[q]
  BY <1>1, <1>2 DEF Selected
<1>3. CASE UNCHANGED vars \/ \E u \in Leavers : DeleteAccount(u)
  BY <1>2, <1>3 DEF vars, DeleteAccount
<1>4. ASSUME NEW r \in Request, r # q,
             \/ Progress(r) \/ Fail(r) \/ Lose(r) \/ Close(r)
             \/ \E c \in Calls : Receive(r, c)
      PROVE  pc'[q] = pc[q] /\ call'[q] = call[q] /\ answer'[q] = answer[q]
  BY <1>4, OthersUntouched DEF IInv
<1>5. CASE Progress(q) \/ Fail(q) \/ Lose(q)
  BY <1>1, <1>5, RequestGoesOn, SelectedBySelectLinks
<1>6. ASSUME NEW c \in Calls, Receive(q, c) PROVE FALSE
  BY <1>1, <1>6 DEF Receive
<1> QED
  BY <1>2, <1>3, <1>4, <1>5, <1>6 DEF Unnoticed

\* A sent request has selected nothing yet.
LEMMA JustSent ==
    ASSUME IInv, TypeOK', NEW r \in Request, NEW c \in Calls, Receive(r, c),
           c.surface # "json"
    PROVE  pc'[r] # "idle" /\ call'[r] = c /\ ~Selected(r)'
<1>1. answer[r].status = 0
  BY DEF Receive, IInv, Bookkeeping, NoAnswer
<1> QED
  BY <1>1 DEF Receive, Respond, GoTo, FirstStep, Selected, IInv, TypeOK

-----------------------------------------------------------------------------
(* Types.                                                                  *)

LEMMA PageTypesStep ==
    ASSUME TypeOK, PageTypeOK, \A r \in Request : WaitsForItsOwn(r),
           [PageNext]_allVars
    PROVE  PageTypeOK'
<1>1. CASE UNCHANGED allVars
  BY <1>1 DEF allVars, pageVars, PageTypeOK
<1>2. ASSUME NEW r \in Request, NEW c \in PageCalls, Send(r, c)
      PROVE  waiting' \in [Request -> Waits]
  BY <1>2 DEF Send, PageTypeOK, Waits
<1>3. ASSUME NEW r \in Request, Ended(r)
      PROVE  waiting' \in [Request -> Waits]
  BY <1>3 DEF Ended, PageTypeOK, Waits
<1>4. ASSUME NEW r \in Request
      PROVE  Shows(r) \in [open : BOOLEAN, entries : SUBSET Entry,
                           mode : ViewMode]
  BY DEF Shows, TypeOK
<1>5. ASSUME NEW r \in Request, waiting[r] \in {"live", "orphan"}
      PROVE  ElementOf(call[r]) \in {ElementOf(c) : c \in PageCalls}
  BY <1>5 DEF WaitsForItsOwn
<1>6. ASSUME NEW r \in Request, NEW c \in PageCalls, Trigger(r, c)
      PROVE  PageTypeOK'
  BY <1>2, <1>6 DEF Trigger, PageTypeOK
<1>7. ASSUME NEW c \in PageCalls, TypeDraft(c) PROVE PageTypeOK'
  BY <1>7 DEF TypeDraft, PageTypeOK
<1>8. ASSUME NEW c \in PageCalls, TriggerAgain(c) PROVE PageTypeOK'
  BY <1>8 DEF TriggerAgain, PageTypeOK
<1>9. ASSUME NEW r \in Request, NEW c \in Calls, Reload(r, c)
      PROVE  PageTypeOK'
  BY <1>9 DEF Reload, PageTypeOK, Waits
<1>10. ASSUME NEW r \in Request, NEW c \in Calls, Elsewhere(r, c)
       PROVE  PageTypeOK'
  BY <1>10 DEF Elsewhere, pageVars, PageTypeOK
<1>11. ASSUME NEW r \in Request, SendQueued(r) PROVE PageTypeOK'
  BY <1>2, <1>11 DEF SendQueued, PageTypeOK
<1>12. CASE DropQueued
  BY <1>12 DEF DropQueued, PageTypeOK
<1>13. ASSUME NEW r \in Request, Swap(r) PROVE PageTypeOK'
  <2>1. draft' \in {draft, NoCall} /\ errors' \subseteq errors
    BY <1>13 DEF Swap, AfterRequest
  <2>2. departed' \subseteq LinkId
    BY <1>13 DEF Swap, PageTypeOK, Ids, Entry, Row
  <2>3. waiting' \in [Request -> Waits]
    BY <1>13 DEF Swap, PageTypeOK, Waits
  <2> QED
    BY <1>4, <1>13, <2>1, <2>2, <2>3 DEF Swap, PageTypeOK
<1>14. ASSUME NEW r \in Request, SwapThrows(r) \/ OtherFailure(r)
       PROVE  PageTypeOK'
  <2>1. stuck' \in BOOLEAN
    <3>1. stuck' = stuck \/ stuck' = (stuck \/ call[r].op = "create")
      BY <1>14 DEF SwapThrows, OtherFailure
    <3> QED
      BY <3>1, Zenon DEF PageTypeOK
  <2>2. UNCHANGED <<page, draft, typed, queued, errors, departed>> /\ Ended(r)
    BY <1>14 DEF SwapThrows, OtherFailure
  <2> QED
    BY <1>3, <2>1, <2>2 DEF PageTypeOK
<1>15. ASSUME NEW r \in Request, ShowFormError(r) PROVE PageTypeOK'
  <2>1. errors' \subseteq {ElementOf(c) : c \in PageCalls}
    BY <1>5, <1>15 DEF ShowFormError, Banner, PageTypeOK
  <2> QED
    BY <1>3, <1>15, <2>1 DEF ShowFormError, PageTypeOK
<1>16. ASSUME NEW r \in Request, Load(r) PROVE PageTypeOK'
  BY <1>4, <1>16
     DEF Load, NewDocument, PageTypeOK, Waits, ViewMode, DefaultViewMode
<1>17. CASE \/ \E r \in Request : ServerStep(r)
            \/ \E u \in Leavers : HostDeletesAccount(u)
  BY <1>17 DEF ServerStep, HostDeletesAccount, pageVars, PageTypeOK
<1> QED
  BY <1>1, <1>6, <1>7, <1>8, <1>9, <1>10, <1>11, <1>12, <1>13, <1>14, <1>15,
     <1>16, <1>17 DEF PageNext, Deliver

\* Whatever waits in the browser waits for a request of its own.
LEMMA WaitsStep ==
    ASSUME PageInv, TypeOK', [PageNext]_allVars, NEW q \in Request
    PROVE  WaitsForItsOwn(q)'
<1> SUFFICES ASSUME waiting'[q] # "no"
             PROVE  /\ pc'[q] # "idle"
                    /\ call'[q].user \in {Visitor, Nobody}
                    /\ call'[q].surface # "json"
                    /\ waiting'[q] # "browser" => call'[q] \in PageCalls
  BY DEF WaitsForItsOwn
<1>1. /\ IInv /\ TypeOK /\ WaitsForItsOwn(q) /\ PageTypeOK
      /\ waiting \in [Request -> Waits]
  BY DEF PageInv, IInv, PageTypeOK
<1>2. ASSUME pc'[q] = pc[q] \/ pc'[q] # "idle", call'[q] = call[q],
             waiting[q] # "no",
             waiting[q] = "browser" => waiting'[q] = "browser"
      PROVE  /\ pc'[q] # "idle"
             /\ call'[q].user \in {Visitor, Nobody}
             /\ call'[q].surface # "json"
             /\ waiting'[q] # "browser" => call'[q] \in PageCalls
  BY <1>1, <1>2 DEF WaitsForItsOwn
<1>3. CASE Unnoticed
  BY <1>1, <1>2, <1>3, WhileItWaits DEF Unnoticed
<1>4. ASSUME NEW r \in Request, NEW c \in Calls, NEW k \in Waits, Sent(r, c, k),
             r = q
      PROVE  /\ pc'[q] # "idle" /\ call'[q] = c
             /\ waiting'[q] = k
  BY <1>1, <1>4, JustSent DEF Sent
<1>5. ASSUME NEW r \in Request, r # q,
             \/ Dropped(r) \/ Swap(r) \/ Load(r)
             \/ \E c \in Calls, k \in Waits : Sent(r, c, k)
      PROVE  pc'[q] = pc[q] /\ call'[q] = call[q]
  BY <1>1, <1>5, OthersUntouched DEF Dropped, Swap, Load, Sent
<1>6. ASSUME NEW r \in Request, NEW c \in Calls, NEW k \in Waits, Sent(r, c, k)
      PROVE  /\ pc'[q] # "idle"
             /\ call'[q].user \in {Visitor, Nobody}
             /\ call'[q].surface # "json"
             /\ waiting'[q] # "browser" => call'[q] \in PageCalls
  <2>1. CASE r = q
    BY <1>4, <1>6, <2>1 DEF Sent
  <2>2. CASE r # q
    BY <1>1, <1>2, <1>5, <1>6, <2>2 DEF Sent
  <2> QED
    BY <2>1, <2>2
<1>7. ASSUME NEW r \in Request, Dropped(r) \/ Swap(r) \/ Load(r)
      PROVE  /\ r # q /\ waiting[q] # "no"
             /\ waiting[q] = "browser" => waiting'[q] = "browser"
  BY <1>1, <1>7 DEF Dropped, Ended, Swap, Load, NewDocument
<1> QED
  BY <1>1, <1>2, <1>3, <1>5, <1>6, <1>7, PageStepKinds

-----------------------------------------------------------------------------
(* The list.                                                               *)

\* What SelectLinks finds is the visitor's, has nothing that left the page,
\* and lacks nothing that is on it and stored.
LEMMA ListIsFresh ==
    ASSUME PageInv, TypeOK', NEW q \in Request, waiting[q] # "no",
           SelectLinks(q)
    PROVE  /\ \A i \in Ids(answer'[q].entries) : OwnId(i)
           /\ \A i \in Ids(page.entries) \ Ids(answer'[q].entries) : ~HasRow(i)
           /\ departed \cap Ids(answer'[q].entries) = {}
<1>1. /\ IInv /\ TypeOK /\ PrimaryKeys /\ Bookkeeping(q)
      /\ WaitsForItsOwn(q) /\ ShownAreOwn /\ DepartedAreDeleted
  BY DEF PageInv, IInv
<1>2. call[q].user = Visitor
  BY <1>1, ConstantsAssumption, PageAssumption
     DEF SelectLinks, Bookkeeping, InFlight, WaitsForItsOwn
<1>3. answer'[q].entries = {[row |-> d, shown |-> Shown(q, d)] :
                               d \in ListForUser(Visitor)}
  BY <1>1, <1>2 DEF SelectLinks, TypeOK
<1>4. \A i : i \in Ids(answer'[q].entries)
               <=> \E d \in ListForUser(Visitor) : d.id = i
  <2> DEFINE Line(d) == [row |-> d, shown |-> Shown(q, d)]
  <2>1. \A d : Line(d).row = d
    OBVIOUS
  <2> HIDE DEF Line
  <2>2. answer'[q].entries = {Line(d) : d \in ListForUser(Visitor)}
    BY <1>3 DEF Line
  <2> QED
    BY <2>1, <2>2 DEF Ids
<1>5. \A i : i \in Ids(answer'[q].entries)
               <=> \E d \in docLinks : d.id = i /\ d.user_id = Visitor
  BY <1>4 DEF ListForUser
<1>6. \A i \in Ids(answer'[q].entries) : OwnId(i)
  BY <1>1, <1>5 DEF OwnId, PrimaryKeys, UniqueIds
<1>7. \A i \in Ids(page.entries) \ Ids(answer'[q].entries) : ~HasRow(i)
  BY <1>1, <1>5 DEF ShownAreOwn, OwnId, HasRow
<1>8. departed \cap Ids(answer'[q].entries) = {}
  BY <1>1, <1>5 DEF DepartedAreDeleted, HasRow
<1> QED
  BY <1>6, <1>7, <1>8

\* While the page stays as it is, a list that was newer remains so.
LEMMA StaysOnItsWay ==
    ASSUME PageInv, IdsStay, UNCHANGED <<page, departed>>, NEW q \in Request,
           waiting[q] # "no", waiting'[q] = "live" => waiting[q] = "live",
           Selected(q), answer'[q].entries = answer[q].entries
    PROVE  OnItsWay(q)'
<1>1. OnItsWay(q) /\ ShownAreOwn
  BY DEF PageInv
<1>2. \A i \in Ids(answer[q].entries) : OwnId(i)'
  BY <1>1, IdsKeep DEF OnItsWay, OwnId
<1>3. ASSUME waiting[q] = "live",
             NEW i \in Ids(page.entries) \ Ids(answer[q].entries)
      PROVE  ~HasRow(i)'
  BY <1>1, <1>3, IdsKeep DEF OnItsWay, IsNewer, ShownAreOwn, OwnId
<1>4. waiting[q] = "live" => departed \cap Ids(answer[q].entries) = {}
  BY <1>1 DEF OnItsWay, IsNewer
<1> QED
  BY <1>2, <1>3, <1>4 DEF OnItsWay, IsNewer

LEMMA ArrivesFresh ==
    ASSUME PageInv, TypeOK', IdsStay, UNCHANGED <<page, departed>>,
           NEW q \in Request, waiting[q] # "no", SelectLinks(q)
    PROVE  OnItsWay(q)'
<1>1. UNCHANGED tables
  BY DEF SelectLinks
<1>2. /\ \A i \in Ids(answer'[q].entries) : OwnId(i)
      /\ \A i \in Ids(page.entries) \ Ids(answer'[q].entries) : ~HasRow(i)
      /\ departed \cap Ids(answer'[q].entries) = {}
  BY ListIsFresh
<1> QED
  BY <1>1, <1>2 DEF OnItsWay, IsNewer, OwnId, HasRow, tables

\* What is on its way is the visitor's and, with a target, newer.
LEMMA WayStep ==
    ASSUME PageInv, TypeOK', IdsStay, [PageNext]_allVars, NEW q \in Request
    PROVE  OnItsWay(q)'
<1> SUFFICES ASSUME waiting'[q] # "no", Selected(q)' PROVE OnItsWay(q)'
  BY DEF OnItsWay
<1>1. IInv /\ TypeOK /\ WaitsForItsOwn(q) /\ PageTypeOK
      /\ waiting \in [Request -> Waits]
  BY DEF PageInv, IInv, PageTypeOK
<1>2. CASE Unnoticed
  <2>1. \/ SelectLinks(q)
        \/ Selected(q) /\ answer'[q].entries = answer[q].entries
    BY <1>1, <1>2, WhileItWaits DEF Unnoticed
  <2> QED
    BY <1>2, <2>1, StaysOnItsWay, ArrivesFresh DEF Unnoticed
<1>3. ASSUME NEW r \in Request, r # q,
             \/ Dropped(r) \/ Swap(r) \/ Load(r)
             \/ \E c \in Calls, k \in Waits : Sent(r, c, k)
      PROVE  Selected(q) /\ answer'[q] = answer[q]
  BY <1>1, <1>3, OthersUntouched DEF Dropped, Swap, Load, Sent, Selected
<1>4. ASSUME NEW r \in Request, NEW c \in Calls, NEW k \in Waits, Sent(r, c, k)
      PROVE  OnItsWay(q)'
  <2>1. r # q
    BY <1>1, <1>4, JustSent DEF Sent
  <2>2. waiting'[q] = waiting[q]
    BY <1>1, <1>4, <2>1 DEF Sent
  <2> QED
    BY <1>3, <1>4, <2>1, <2>2, StaysOnItsWay DEF Sent
<1>5. ASSUME NEW r \in Request, Dropped(r) PROVE OnItsWay(q)'
  <2>1. r # q /\ waiting'[q] = waiting[q]
    BY <1>1, <1>5 DEF Dropped, Ended
  <2> QED
    BY <1>3, <1>5, <2>1, StaysOnItsWay DEF Dropped
<1>6. ASSUME NEW r \in Request, Swap(r) PROVE OnItsWay(q)'
  <2>1. r # q /\ waiting[q] # "no" /\ waiting'[q] # "live"
    BY <1>1, <1>6 DEF Swap
  <2>2. \A i \in Ids(answer[q].entries) : OwnId(i)
    BY <1>3, <1>6, <2>1 DEF PageInv, OnItsWay
  <2>3. \A i \in Ids(answer[q].entries) : OwnId(i)'
    BY <2>2, IdsKeep DEF OwnId
  <2> QED
    BY <1>3, <1>6, <2>1, <2>3 DEF OnItsWay
<1>7. ASSUME NEW r \in Request, Load(r) PROVE FALSE
  BY <1>1, <1>7 DEF Load, NewDocument
<1> QED
  BY <1>1, <1>2, <1>4, <1>5, <1>6, <1>7, PageStepKinds

\* The list on the page, and what has left it.
LEMMA ListStep ==
    ASSUME PageInv, IdsStay, [PageNext]_allVars
    PROVE  ShownAreOwn' /\ DepartedAreDeleted' /\ NoGhosts'
<1>1. PageTypeOK /\ ShownAreOwn /\ DepartedAreDeleted /\ NoGhosts
  BY DEF PageInv
<1>2. CASE UNCHANGED <<page, departed>>
  BY <1>1, <1>2, IdsKeep
     DEF ShownAreOwn, OwnId, DepartedAreDeleted, NoGhosts
<1>3. ASSUME NEW r \in Request, Swap(r)
      PROVE  ShownAreOwn' /\ DepartedAreDeleted' /\ NoGhosts'
  <2>1. /\ \A i \in Ids(answer[r].entries) : OwnId(i)
        /\ \A i \in Ids(page.entries) \ Ids(answer[r].entries) : ~HasRow(i)
        /\ departed \cap Ids(answer[r].entries) = {}
    BY <1>3 DEF PageInv, OnItsWay, Selected, IsNewer, Swap
  <2>2. /\ Ids(page'.entries) = Ids(answer[r].entries)
        /\ departed' = departed \cup
                         (Ids(page.entries) \ Ids(answer[r].entries))
    BY <1>3 DEF Swap, Shows
  <2>3. ShownAreOwn'
    BY <2>1, <2>2, IdsKeep DEF ShownAreOwn, OwnId
  <2>4. \A i \in departed' : i \in issued /\ ~HasRow(i)
    BY <1>1, <2>1, <2>2 DEF DepartedAreDeleted, ShownAreOwn, OwnId
  <2>5. DepartedAreDeleted'
    BY <2>4, IdsKeep DEF DepartedAreDeleted
  <2>6. NoGhosts'
    BY <2>1, <2>2 DEF NoGhosts
  <2> QED
    BY <2>3, <2>5, <2>6
<1>4. ASSUME NEW r \in Request, Load(r)
      PROVE  ShownAreOwn' /\ DepartedAreDeleted' /\ NoGhosts'
  <2>1. departed' = {}
    BY <1>4 DEF Load, NewDocument
  <2>2. \/ Ids(page'.entries) = {}
        \/ /\ answer[r].status = 200 /\ waiting[r] # "no"
           /\ Ids(page'.entries) = Ids(answer[r].entries)
    BY <1>4 DEF Load, NewDocument, Shows, Ids
  <2>3. \A i \in Ids(page'.entries) : OwnId(i)
    BY <2>2 DEF PageInv, OnItsWay, Selected
  <2>4. ShownAreOwn'
    BY <2>3, IdsKeep DEF ShownAreOwn, OwnId
  <2> QED
    BY <2>1, <2>4 DEF DepartedAreDeleted, NoGhosts
<1> QED
  BY <1>1, <1>2, <1>3, <1>4, PageStepKinds DEF Unnoticed, Sent, Dropped

LEMMA InitPageInv == PageInit => PageInv
<1> SUFFICES ASSUME PageInit PROVE PageInv
  OBVIOUS
<1>1. IInv
  BY InitIInv DEF PageInit
<1>2. TypeOK /\ PrimaryKeys
  BY <1>1 DEF IInv
<1>3. page.entries \subseteq Entry
  BY <1>2 DEF PageInit, ListForUser, TypeOK, Entry, Row
<1>4. PageTypeOK
  BY <1>3 DEF PageInit, PageTypeOK, Waits, ViewMode, DefaultViewMode
<1>5. ShownAreOwn
  BY <1>2 DEF PageInit, Ids, ListForUser, ShownAreOwn, OwnId, PrimaryKeys,
              UniqueIds
<1>6. \A r \in Request : WaitsForItsOwn(r) /\ OnItsWay(r)
  BY DEF PageInit, WaitsForItsOwn, OnItsWay
<1>7. DepartedAreDeleted /\ NoGhosts
  BY DEF PageInit, DepartedAreDeleted, NoGhosts
<1> QED
  BY <1>1, <1>4, <1>5, <1>6, <1>7 DEF PageInv

LEMMA NextPageInv == PageInv /\ [PageNext]_allVars => PageInv'
<1> SUFFICES ASSUME PageInv, [PageNext]_allVars PROVE PageInv'
  OBVIOUS
<1>1. [Next]_vars
  BY PageStepIsStep DEF PageInv
<1>2. IInv' /\ TypeOK'
  BY <1>1, NextIInv DEF PageInv, IInv
<1>3. IdsStay
  BY <1>1, TablesStep DEF PageInv
<1>4. PageTypeOK'
  BY PageTypesStep DEF PageInv, IInv
<1>5. \A q \in Request : WaitsForItsOwn(q)'
  BY <1>2, WaitsStep
<1>6. \A q \in Request : OnItsWay(q)'
  BY <1>2, <1>3, WayStep
<1>7. ShownAreOwn' /\ DepartedAreDeleted' /\ NoGhosts'
  BY <1>3, ListStep
<1> QED
  BY <1>2, <1>4, <1>5, <1>6, <1>7 DEF PageInv

-----------------------------------------------------------------------------
(* The results.                                                            *)

\* The inductive invariant, whoever else uses the service.
THEOREM PageInvariance == PageSpec => []PageInv
<1> QED
  BY InitPageInv, NextPageInv, PTL DEF PageSpec

\* The page is one more client: whatever holds of the handlers with any
\* clients holds of them with the page.
THEOREM PageIsAClient == PageSpec => Spec
<1>1. PageInit => Init
  BY DEF PageInit
<1>2. PageInv /\ [PageNext]_allVars => [Next]_vars
  BY PageStepIsStep DEF PageInv
<1> QED
  BY <1>1, <1>2, PageInvariance, PTL DEF PageSpec, Spec

\* Every variable of the page keeps its type.
THEOREM PageTypes == PageSpec => []PageTypeOK
<1>1. PageInv => PageTypeOK
  BY DEF PageInv
<1> QED
  BY <1>1, PageInvariance, PTL

\* A link that left the list does not come back, however many answers overlap
\* and in whatever order they arrive.
THEOREM NothingComesBack == PageSpec => []NoGhosts
<1>1. PageInv => NoGhosts
  BY DEF PageInv
<1> QED
  BY <1>1, PageInvariance, PTL

\* A swap takes a link out of the list only if it was deleted.
THEOREM OnlyDeletedLinksLeave == PageSpec => OnlyDeletedLeave
<1> DEFINE Leave ==
       \A i \in Ids(page.entries) \ Ids(page'.entries) :
          HasRow(i) => \E r \in Request : Load(r)
<1>1. ASSUME PageInv, [PageNext]_allVars PROVE Leave
  <2>1. CASE page' = page
    BY <2>1
  <2>2. ASSUME NEW r \in Request, Swap(r) PROVE Leave
    <3>1. IsNewer(r) /\ Ids(page'.entries) = Ids(answer[r].entries)
      BY <1>1, <2>2 DEF PageInv, OnItsWay, Selected, Swap, Shows
    <3> QED
      BY <3>1 DEF IsNewer
  <2>3. ASSUME NEW r \in Request, Load(r) PROVE Leave
    BY <2>3
  <2> QED
    BY <1>1, <2>1, <2>2, <2>3, PageStepKinds
       DEF PageInv, Unnoticed, Sent, Dropped
<1>2. PageInv /\ [PageNext]_allVars => [Leave]_allVars
  BY <1>1
<1> QED
  BY <1>2, PageInvariance, PTL DEF PageSpec, OnlyDeletedLeave

-----------------------------------------------------------------------------
(* The add form.                                                           *)

\* The add form is busy with r.
CreateWaits(r) == waiting[r] \in {"live", "orphan"} /\ call[r].op = "create"

\* One submission at a time, which empties the form only when it succeeds.
FormInv ==
    /\ \A q, r \in Request : CreateWaits(q) /\ CreateWaits(r) => q = r
    /\ (\E r \in Request : CreateWaits(r)) => draft # NoCall
    /\ draft # NoCall => draft \in typed
    /\ \A c \in typed : c.op = "create"
    /\ RefusedDraftIsKept

\* The add form's call always is a create.
LEMMA TheAddForm ==
    ASSUME PageInv, NEW r \in Request, CreateWaits(r)
    PROVE  /\ call[r] \in PageCalls
           /\ ElementOf(call[r]) = AddForm /\ Busy(AddForm)
<1>1. call[r] \in PageCalls /\ call[r].op = "create"
  BY DEF CreateWaits, PageInv, WaitsForItsOwn
<1>2. ElementOf(call[r]) = AddForm
  BY <1>1, PageAssumption
<1> QED
  BY <1>1, <1>2 DEF CreateWaits, Busy

\* What each kind of step does to the requests of the add form.
LEMMA CreateWaitsStep ==
    ASSUME PageInv, TypeOK', NEW q \in Request
    PROVE  /\ Unnoticed => (CreateWaits(q)' <=> CreateWaits(q))
           /\ \A r \in Request, c \in Calls, k \in Waits :
                 Sent(r, c, k) =>
                   (CreateWaits(q)' <=>
                      \/ q = r /\ k = "live" /\ c.op = "create"
                      \/ CreateWaits(q))
           /\ \A r \in Request :
                 Dropped(r) \/ Swap(r) =>
                   (CreateWaits(q)' <=> q # r /\ CreateWaits(q))
           /\ \A r \in Request : Load(r) => ~CreateWaits(q)'
<1>1. /\ IInv /\ TypeOK /\ WaitsForItsOwn(q)
      /\ waiting \in [Request -> Waits]
  BY DEF PageInv, IInv, PageTypeOK
<1>2. ASSUME Unnoticed PROVE CreateWaits(q)' <=> CreateWaits(q)
  <2>1. waiting'[q] = waiting[q]
    BY <1>2 DEF Unnoticed
  <2>2. CASE waiting[q] = "no"
    BY <2>1, <2>2 DEF CreateWaits
  <2>3. CASE waiting[q] # "no"
    BY <1>1, <1>2, <2>1, <2>3, WhileItWaits DEF CreateWaits
  <2> QED
    BY <2>2, <2>3
<1>3. ASSUME NEW r \in Request, r # q,
             \/ Dropped(r) \/ Swap(r) \/ Load(r)
             \/ \E c \in Calls, k \in Waits : Sent(r, c, k)
      PROVE  call'[q] = call[q]
  BY <1>1, <1>3, OthersUntouched DEF Dropped, Swap, Load, Sent
<1>4. ASSUME NEW r \in Request, NEW c \in Calls, NEW k \in Waits, Sent(r, c, k)
      PROVE  CreateWaits(q)' <=> \/ q = r /\ k = "live" /\ c.op = "create"
                                 \/ CreateWaits(q)
  <2>1. CASE q = r
    <3>1. call'[q] = c /\ waiting'[q] = k /\ waiting[q] = "no"
      BY <1>1, <1>4, <2>1 DEF Sent, Receive, TypeOK, WaitsForItsOwn
    <3>2. k \in {"live", "browser"}
      BY <1>4 DEF Sent
    <3> QED
      BY <2>1, <3>1, <3>2 DEF CreateWaits
  <2>2. CASE q # r
    BY <1>1, <1>3, <1>4, <2>2 DEF Sent, CreateWaits
  <2> QED
    BY <2>1, <2>2
<1>5. ASSUME NEW r \in Request, Dropped(r) \/ Swap(r)
      PROVE  CreateWaits(q)' <=> q # r /\ CreateWaits(q)
  <2>1. CASE q = r
    BY <1>1, <1>5, <2>1 DEF Dropped, Ended, Swap, CreateWaits
  <2>2. CASE q # r
    <3>1. waiting'[q] \in {"live", "orphan"}
             <=> waiting[q] \in {"live", "orphan"}
      BY <1>1, <1>5, <2>2 DEF Dropped, Ended, Swap
    <3> QED
      BY <1>3, <1>5, <2>2, <3>1 DEF CreateWaits
  <2> QED
    BY <2>1, <2>2
<1>6. ASSUME NEW r \in Request, Load(r) PROVE ~CreateWaits(q)'
  BY <1>6 DEF Load, NewDocument, CreateWaits
<1> QED
  BY <1>2, <1>4, <1>5, <1>6

\* Fewer banners and fewer requests of the form leave it sound.
LEMMA FormStays ==
    ASSUME FormInv, UNCHANGED <<draft, typed>>, errors' \subseteq errors,
           \A q \in Request : CreateWaits(q)' => CreateWaits(q)
    PROVE  FormInv'
BY DEF FormInv, RefusedDraftIsKept

\* The draft is sent when the form is not busy.
LEMMA FormSends ==
    ASSUME PageInv, FormInv, TypeOK', NEW r \in Request, NEW c \in PageCalls,
           Sent(r, c, "live"), UNCHANGED <<draft, typed, errors>>,
           c.op = "create" => draft # NoCall /\ ~Busy(AddForm)
    PROVE  FormInv'
<1>1. c \in Calls /\ "live" \in Waits
  BY DEF PageCalls, Waits
<1>2. \A q \in Request : CreateWaits(q)' <=> \/ q = r /\ c.op = "create"
                                             \/ CreateWaits(q)
  BY <1>1, CreateWaitsStep
<1>3. CASE c.op # "create"
  BY <1>2, <1>3, FormStays
<1>4. CASE c.op = "create"
  <2>1. \A q \in Request : ~CreateWaits(q)
    BY <1>4, TheAddForm
  <2> QED
    BY <1>2, <1>4, <2>1 DEF FormInv, RefusedDraftIsKept
<1> QED
  BY <1>3, <1>4

\* Every step of the page does.
LEMMA FormStep ==
    ASSUME PageInv, FormInv, TypeOK', [PageNext]_allVars
    PROVE  FormInv'
<1>1. /\ PageTypeOK /\ "live" \in Waits /\ "browser" \in Waits
      /\ PageCalls \subseteq Calls /\ NoCall \notin Calls
  BY ConstantsAssumption DEF PageInv, Waits, PageCalls
<1>2. ASSUME UNCHANGED <<draft, typed, errors>>, Unnoticed PROVE FormInv'
  BY <1>2, CreateWaitsStep, FormStays
<1>3. CASE UNCHANGED allVars
  BY <1>2, <1>3 DEF allVars, pageVars, Unnoticed
<1>4. CASE \/ \E r \in Request : ServerStep(r)
           \/ \E r \in Request, c \in Calls : Elsewhere(r, c)
           \/ \E u \in Leavers : HostDeletesAccount(u)
           \/ DropQueued \/ \E c \in PageCalls : TriggerAgain(c)
  BY <1>2, <1>4 DEF ServerStep, Elsewhere, HostDeletesAccount, DropQueued,
                    TriggerAgain, pageVars, Unnoticed
<1>5. ASSUME NEW c \in PageCalls, TypeDraft(c) PROVE FormInv'
  <2>1. \A q \in Request : CreateWaits(q)' <=> CreateWaits(q)
    BY <1>5, CreateWaitsStep DEF TypeDraft, Unnoticed
  <2> QED
    BY <1>1, <1>5, <2>1 DEF TypeDraft, FormInv, RefusedDraftIsKept
<1>6. ASSUME NEW r \in Request, NEW c \in PageCalls, Trigger(r, c)
      PROVE  FormInv'
  <2>1. Sent(r, c, "live") /\ UNCHANGED <<draft, typed, errors>>
    BY <1>6 DEF Trigger, Send, Sent, PageCalls
  <2>2. c.op = "create" => draft # NoCall /\ ~Busy(AddForm)
    BY <1>1, <1>6, PageAssumption DEF Trigger, Triggers
  <2> QED
    BY <2>1, <2>2, FormSends
<1>7. ASSUME NEW r \in Request, SendQueued(r) PROVE FormInv'
  <2>1. PICK q \in queued :
          /\ Unlocked(q)
          /\ IF q.op = "create" THEN draft # NoCall /\ Send(r, draft)
                                ELSE Send(r, q)
    BY <1>7 DEF SendQueued
  <2>2. UNCHANGED <<draft, typed, errors, page, departed>> /\ q \in PageCalls
    BY <1>1, <1>7 DEF SendQueued, PageTypeOK
  <2>3. CASE q.op = "create"
    <3>1. draft \in PageCalls /\ draft # NoCall /\ ~Busy(AddForm)
      BY <1>1, <2>1, <2>2, <2>3, PageAssumption DEF Unlocked, PageTypeOK
    <3>2. Sent(r, draft, "live")
      BY <2>1, <2>2, <2>3, <3>1 DEF Send, Sent, PageCalls
    <3> QED
      BY <2>2, <3>1, <3>2, FormSends
  <2>4. CASE q.op # "create"
    <3>1. Sent(r, q, "live")
      BY <2>1, <2>2, <2>4 DEF Send, Sent, PageCalls
    <3> QED
      BY <2>2, <2>4, <3>1, FormSends
  <2> QED
    BY <2>3, <2>4
<1>8. ASSUME NEW r \in Request, NEW c \in Calls, Reload(r, c) PROVE FormInv'
  <2>1. Sent(r, c, "browser") /\ UNCHANGED <<draft, typed, errors>>
    BY <1>8 DEF Reload, Sent
  <2>2. \A q \in Request : CreateWaits(q)' <=> CreateWaits(q)
    BY <1>1, <2>1, CreateWaitsStep
  <2> QED
    BY <2>1, <2>2, FormStays
<1>9. ASSUME NEW r \in Request, Swap(r) PROVE FormInv'
  <2>1. \A q \in Request : CreateWaits(q)' <=> q # r /\ CreateWaits(q)
    BY <1>9, CreateWaitsStep
  <2>2. CASE call[r].op = "create"
    <3>1. CreateWaits(r)
      BY <1>9, <2>2 DEF Swap, CreateWaits
    <3>2. draft' = NoCall /\ errors' = {} /\ typed' = typed
      BY <1>9, <2>2 DEF Swap, AfterRequest
    <3> QED
      BY <2>1, <3>1, <3>2 DEF FormInv, RefusedDraftIsKept
  <2>3. CASE call[r].op # "create"
    <3>1. draft' = draft /\ errors' \subseteq errors /\ typed' = typed
      BY <1>9, <2>3 DEF Swap, AfterRequest
    <3> QED
      BY <2>1, <3>1, FormStays
  <2> QED
    BY <2>2, <2>3
<1>10. ASSUME NEW r \in Request, SwapThrows(r) \/ OtherFailure(r)
       PROVE  FormInv'
  <2>1. Dropped(r) /\ UNCHANGED <<draft, typed, errors>>
    BY <1>10 DEF SwapThrows, OtherFailure, Dropped
  <2> QED
    BY <2>1, CreateWaitsStep, FormStays
<1>11. ASSUME NEW r \in Request, ShowFormError(r) PROVE FormInv'
  <2>1. Dropped(r) /\ UNCHANGED <<draft, typed>>
        /\ errors' = errors \cup Banner(r)
    BY <1>11 DEF ShowFormError, Dropped
  <2>2. AddForm \in Banner(r) => CreateWaits(r)
    BY <1>11 DEF ShowFormError, Banner, ElementOf, AddForm, CreateWaits
  <2>3. \A q \in Request : CreateWaits(q)' => CreateWaits(q)
    BY <2>1, CreateWaitsStep
  <2> QED
    BY <2>1, <2>2, <2>3 DEF FormInv, RefusedDraftIsKept
<1>12. ASSUME NEW r \in Request, Load(r) PROVE FormInv'
  <2>1. \A q \in Request : ~CreateWaits(q)'
    BY <1>12, CreateWaitsStep
  <2> QED
    BY <1>12, <2>1 DEF Load, NewDocument, FormInv, RefusedDraftIsKept
<1> QED
  BY <1>3, <1>4, <1>5, <1>6, <1>7, <1>8, <1>9, <1>10, <1>11, <1>12
     DEF PageNext, Deliver

-----------------------------------------------------------------------------
(* What the add form submits is stored once.                               *)

\* Without faults, a change that took effect is answered to the page as a
\* success.
EndsWell(r) ==
    session[r].durable /\ call[r].surface # "json" =>
        \/ pc[r] \in {"links", "mode"}
        \/ pc[r] = "answered" /\ answer[r].status = 200

\* Nothing is written for an invalid payload.
WritesValid(r) == pc[r] = "write" => call[r].body = "ok"

CalmInv == \A r \in Request : EndsWell(r) /\ WritesValid(r)

Copies(k, c) == {d \in docLinks : d.attrs[k] = c.changes[k]}
Adds(r, c) == call[r] = c /\ pc[r] = "write"

\* A draft is stored or about to be stored once, and as long as it is in the
\* form then, the form is busy.
OnceFor(k, c) ==
    /\ \A d, e \in Copies(k, c) : d = e
    /\ \A q, r \in Request : Adds(q, c) /\ Adds(r, c) => q = r
    /\ \A r \in Request : Adds(r, c) => Copies(k, c) = {}
    /\ Copies(k, c) # {} \/ (\E r \in Request : Adds(r, c)) => c \in typed
    /\ draft = c =>
          /\ \A r \in Request : Adds(r, c) => CreateWaits(r)
          /\ Copies(k, c) # {} =>
                \/ stuck
                \/ \E r \in Request : CreateWaits(r) /\ call[r] = c
                                        /\ session[r].durable

\* Who has the value of a draft was stored for one.
OnlyDrafts(k) ==
    \A d \in docLinks, c \in PageCalls :
        c.op = "create" /\ d.attrs[k] = c.changes[k] =>
            \E e \in Drafts : e.changes[k] = c.changes[k]

AddInv(k) == OnlyDrafts(k) /\ \A c \in Drafts : OnceFor(k, c)

\* Only a handler that is past its validation, or its lookup, gets to a write.
LEMMA WhereWritesStart ==
    ASSUME IInv, TypeOK', NEW r \in Request,
           Progress(r) \/ Fail(r) \/ Lose(r), pc'[r] = "write"
    PROVE  pc[r] = "select" /\ call[r].body = "ok"
<1> USE DEF GoTo, Respond, TypeOK, IInv
<1>1. ASSUME NEW id, Committed(r, id)
      PROVE  FALSE
  BY <1>1, AfterTheCommit
<1>2. ASSUME CommitCreate(r) \/ CommitUpdate(r) \/ CommitDelete(r)
               \/ CommitMode(r)
      PROVE  FALSE
  BY <1>1, <1>2 DEF CommitCreate, CommitUpdate, CommitDelete, CommitMode
<1>3. CASE UpdateMatchesNothing(r) \/ AccountIsGone(r)
  BY <1>3 DEF UpdateMatchesNothing, AccountIsGone
<1>4. CASE SelectOwned(r)
  BY <1>4 DEF SelectOwned
<1>5. CASE Refresh(r)
  BY <1>5 DEF Refresh
<1>6. CASE SelectLinks(r) \/ SelectMode(r)
  BY <1>6 DEF SelectLinks, SelectMode
<1>7. CASE Fail(r) \/ Lose(r)
  BY <1>7 DEF Fail, Lose
<1> QED
  BY <1>2, <1>3, <1>4, <1>5, <1>6, <1>7 DEF Progress, Write

\* What has taken effect stays so as long as the request lasts, and only the
\* end of a request takes its call away.
LEMMA RequestStays ==
    ASSUME IInv, TypeOK', [Next]_vars, NEW q \in Request,
           pc[q] # "idle", pc'[q] # "idle"
    PROVE  /\ call'[q] = call[q]
           /\ session[q].durable => session'[q].durable
<1>1. CASE call'[q] = call[q] /\ session'[q] = session[q]
  BY <1>1
<1>2. ASSUME NEW r \in Request, StepOf(r), r # q
      PROVE  call'[q] = call[q] /\ session'[q] = session[q]
  BY <1>2, OthersUntouched DEF StepOf, IInv
<1>3. CASE UNCHANGED vars \/ \E u \in Leavers : DeleteAccount(u)
  BY <1>1, <1>3 DEF vars, DeleteAccount
<1>4. CASE Progress(q) \/ Fail(q) \/ Lose(q)
  <2>1. call'[q] = call[q]
    BY <1>4, RequestGoesOn
  <2>2. ASSUME NEW id, Committed(q, id) PROVE session'[q].durable
    BY <2>2, AfterTheCommit DEF IInv
  <2>3. CASE CommitCreate(q) \/ CommitUpdate(q) \/ CommitDelete(q)
               \/ CommitMode(q)
    BY <2>1, <2>2, <2>3
       DEF CommitCreate, CommitUpdate, CommitDelete, CommitMode
  <2>4. CASE SelectOwned(q)
    BY <2>1, <2>4 DEF SelectOwned, IInv, TypeOK
  <2>5. CASE session' = session
    BY <2>1, <2>5
  <2> QED
    BY <1>4, <2>3, <2>4, <2>5
       DEF Progress, Write, Refresh, SelectLinks, SelectMode, Fail, Lose,
           UpdateMatchesNothing, AccountIsGone
<1>5. ASSUME NEW c \in Calls, Receive(q, c) PROVE FALSE
  BY <1>5 DEF Receive
<1>6. ASSUME Close(q) PROVE FALSE
  BY <1>6 DEF Close, GoTo, IInv, TypeOK
<1> QED
  BY <1>1, <1>2, <1>3, <1>4, <1>5, <1>6 DEF Next, StepOf

-----------------------------------------------------------------------------
(* Without faults.                                                         *)

\* The requests end well when their statements do not break.
LEMMA CalmStep ==
    ASSUME ~Faults, DurableInv, CalmInv, TypeOK', [Next]_vars
    PROVE  CalmInv'
<1> SUFFICES ASSUME NEW q \in Request PROVE EndsWell(q)' /\ WritesValid(q)'
  BY DEF CalmInv
<1>1. IInv /\ TypeOK /\ Bookkeeping(q) /\ EndsWell(q) /\ WritesValid(q)
  BY DEF DurableInv, IInv, CalmInv
<1>2. CASE /\ pc'[q] = pc[q] /\ call'[q] = call[q]
           /\ session'[q] = session[q] /\ answer'[q] = answer[q]
  BY <1>1, <1>2 DEF EndsWell, WritesValid
<1>3. ASSUME NEW r \in Request, StepOf(r), r # q
      PROVE  EndsWell(q)' /\ WritesValid(q)'
  BY <1>1, <1>2, <1>3, OthersUntouched DEF StepOf
<1>4. CASE UNCHANGED vars \/ \E u \in Leavers : DeleteAccount(u)
  BY <1>2, <1>4 DEF vars, DeleteAccount
<1>5. ASSUME NEW c \in Calls, Receive(q, c)
      PROVE  EndsWell(q)' /\ WritesValid(q)'
  <2>1. ~session'[q].durable
    BY <1>1, <1>5 DEF Receive, Bookkeeping, NewSession
  <2>2. pc'[q] = "write" => call'[q].body = "ok"
    <3>1. c.body \in Body
      BY CallsAssumption DEF WellFormedCall, Call
    <3> QED
      BY <1>1, <1>5, <3>1
         DEF Receive, Respond, GoTo, FirstStep, Unread, Body, TypeOK
  <2> QED
    BY <2>1, <2>2 DEF EndsWell, WritesValid
<1>6. CASE Close(q)
  BY <1>1, <1>6
     DEF Close, GoTo, NewSession, TypeOK, EndsWell, WritesValid
<1>7. CASE Progress(q)
  <2>1. call'[q] = call[q] /\ pc[q] # "idle"
    <3>1. pc[q] # "idle"
      BY <1>7 DEF Progress, Write, SelectOwned, Refresh, SelectLinks,
                  SelectMode, CommitCreate, CommitUpdate, CommitDelete,
                  CommitMode, UpdateMatchesNothing, AccountIsGone
    <3> QED
      BY <1>1, <1>7, <3>1, RequestGoesOn
  <2>2. WritesValid(q)'
    BY <1>1, <1>7, <2>1, WhereWritesStart DEF WritesValid
  <2>3. ASSUME NEW id, Committed(q, id), call[q].surface # "json"
        PROVE  pc'[q] = "links"
    BY <1>1, <2>3 DEF Committed, GoTo, TypeOK
  <2>4. CASE CommitCreate(q) \/ CommitUpdate(q) \/ CommitDelete(q)
               \/ CommitMode(q)
    <3>1. \E id : Committed(q, id)
      BY <2>4 DEF CommitCreate, CommitUpdate, CommitDelete, CommitMode
    <3> QED
      BY <2>1, <2>2, <2>3, <3>1 DEF EndsWell
  <2>5. CASE UpdateMatchesNothing(q) \/ AccountIsGone(q)
    BY <1>1, <2>2, <2>5
       DEF UpdateMatchesNothing, AccountIsGone, Bookkeeping, EndsWell
  <2>6. CASE SelectOwned(q)
    BY <1>1, <2>2, <2>6 DEF SelectOwned, Bookkeeping, TypeOK, EndsWell
  <2>7. CASE Refresh(q)
    BY <1>1, <2>2, <2>7
       DEF Refresh, DurableInv, RendersWhatIsDurable, EndsWell
  <2>8. CASE SelectLinks(q)
    BY <1>1, <2>1, <2>2, <2>8 DEF SelectLinks, GoTo, TypeOK, EndsWell
  <2>9. CASE SelectMode(q)
    BY <1>1, <2>2, <2>9 DEF SelectMode, GoTo, TypeOK, EndsWell
  <2> QED
    BY <1>7, <2>4, <2>5, <2>6, <2>7, <2>8, <2>9 DEF Progress, Write
<1> QED
  BY <1>2, <1>3, <1>4, <1>5, <1>6, <1>7 DEF Next, StepOf, Fail, Lose

\* Without faults a page is never told of a failure after its COMMIT, and no
\* handler writes what its schema refuses.
THEOREM CalmInvariance ==
    ASSUME ~Faults PROVE Spec => []CalmInv
<1>1. Init => CalmInv
  BY DEF Init, NewSession, CalmInv, EndsWell, WritesValid
<1>2. DurableInv /\ DurableInv' /\ CalmInv /\ [Next]_vars => CalmInv'
  BY CalmStep DEF DurableInv, IInv
<1> QED
  BY <1>1, <1>2, DurableInvariance, PTL DEF Spec

-----------------------------------------------------------------------------
(* Where the rows with a draft's value come from.                          *)

\* A value is in a row because it was there or because a write puts it there.
LEMMA ValuesComeFrom ==
    ASSUME IInv, [Next]_vars, NEW k \in Column, NEW e \in docLinks'
    PROVE  \/ \E d \in docLinks : d.id = e.id /\ d.attrs[k] = e.attrs[k]
           \/ \E r \in Request :
                /\ CommitCreate(r) \/ CommitUpdate(r)
                /\ k \in DOMAIN call[r].changes
                /\ call[r].changes[k] = e.attrs[k]
<1>1. CASE docLinks' \subseteq docLinks
  BY <1>1
<1>2. ASSUME NEW r \in Request, CommitCreate(r)
      PROVE  \/ e \in docLinks
             \/ /\ k \in DOMAIN call[r].changes
                /\ call[r].changes[k] = e.attrs[k]
  <2>1. DOMAIN call[r].changes = Column
    BY <1>2, CallsAssumption DEF CommitCreate, IInv, Bookkeeping, WellFormedCall
  <2>2. PICK i \in LinkId \ issued :
          docLinks' = docLinks \cup {[id |-> i, user_id |-> call[r].user,
                                      attrs |-> call[r].changes]}
    BY <1>2 DEF CommitCreate
  <2> QED
    BY <2>1, <2>2
<1>3. ASSUME NEW r \in Request, CommitUpdate(r)
      PROVE  \/ \E d \in docLinks : d.id = e.id /\ d.attrs[k] = e.attrs[k]
             \/ /\ k \in DOMAIN call[r].changes
                /\ call[r].changes[k] = e.attrs[k]
  <2> DEFINE dirty == Dirty(Loaded(r).attrs, call[r].changes)
  <2>1. call[r] \in Calls /\ dirty \in SUBSET DOMAIN call[r].changes
    BY <1>3 DEF CommitUpdate, IInv, Bookkeeping, Dirty
  <2>2. docLinks' = UpdateDocLink(Loaded(r).id, dirty, call[r].changes)
    BY <1>3 DEF CommitUpdate
  <2> HIDE DEF dirty
  <2>3. PICK d \in docLinks :
               Updated(d, e, Loaded(r).id, dirty, call[r].changes)
    BY <2>1, <2>2, UpdateKeepsKeys DEF IInv, TypeOK
  <2> QED
    BY <2>1, <2>3 DEF Updated
<1> QED
  BY <1>1, <1>2, <1>3, TableSteps
     DEF tables, CommitDelete, CommitMode, DeleteAccount

\* Only the add form stores a draft's value.
LEMMA CopiesComeFrom ==
    ASSUME IInv, CalmInv, [Next]_vars, NEW k \in Column, TellsDrafts(k),
           NEW c \in PageCalls, c.op = "create",
           NEW e \in docLinks', e.attrs[k] = c.changes[k]
    PROVE  \/ \E d \in docLinks : d.id = e.id /\ d.attrs[k] = c.changes[k]
           \/ \E r \in Request :
                /\ CommitCreate(r) /\ call[r] \in Drafts
                /\ call[r].changes[k] = c.changes[k]
                /\ c \in Drafts => call[r] = c
<1> SUFFICES ASSUME NEW r \in Request, CommitCreate(r) \/ CommitUpdate(r),
                    k \in DOMAIN call[r].changes,
                    call[r].changes[k] = c.changes[k]
             PROVE  /\ CommitCreate(r) /\ call[r] \in Drafts
                    /\ c \in Drafts => call[r] = c
  BY ValuesComeFrom
<1>1. pc[r] = "write" /\ call[r].op \in {"create", "update"}
  BY DEF CommitCreate, CommitUpdate
<1>2. call[r] \in Calls /\ call[r].user # Nobody /\ call[r].body = "ok"
  BY <1>1, ConstantsAssumption
     DEF IInv, Bookkeeping, InFlight, CalmInv, WritesValid
<1>3. call[r] \in Drafts /\ (c \in Drafts => call[r] = c)
  BY <1>1, <1>2 DEF TellsDrafts
<1> QED
  BY <1>3 DEF Drafts, CommitUpdate

\* A draft is submitted by the add form.
LEMMA DraftFields ==
    ASSUME NEW c \in Drafts
    PROVE  /\ c \in PageCalls /\ c \in Calls
           /\ c.op = "create" /\ c.surface = "fragment"
BY DEF Drafts, PageCalls

\* In a step that stores no draft's value, every draft's row was one before.
LEMMA CopiesStay ==
    ASSUME IInv, CalmInv, [Next]_vars, NEW k \in Column, TellsDrafts(k),
           NEW c \in Drafts,
           \A r \in Request : ~(CommitCreate(r) /\ call[r] = c)
    PROVE  \A e \in Copies(k, c)' : \E d \in Copies(k, c) : d.id = e.id
BY CopiesComeFrom, DraftFields DEF Copies

\* No other row takes a draft's value.
LEMMA OnlyDraftsStep ==
    ASSUME IInv, CalmInv, [Next]_vars, NEW k \in Column, TellsDrafts(k),
           OnlyDrafts(k)
    PROVE  OnlyDrafts(k)'
BY CopiesComeFrom DEF OnlyDrafts

-----------------------------------------------------------------------------
(* A draft through its life.                                               *)

\* Nothing new is written and the form is as busy as it was, unless it is
\* emptied.
LEMMA OnceStays ==
    ASSUME PageInv', NEW k \in Column, NEW c \in Drafts, OnceFor(k, c),
           \A e \in Copies(k, c)' : \E d \in Copies(k, c) : d.id = e.id,
           \A r \in Request : Adds(r, c)' => Adds(r, c),
           typed \subseteq typed',
           draft' = c =>
              /\ draft = c /\ (stuck => stuck')
              /\ \A r \in Request : CreateWaits(r) =>
                    /\ Adds(r, c)' => CreateWaits(r)'
                    /\ call[r] = c /\ session[r].durable =>
                          \/ stuck'
                          \/ /\ CreateWaits(r)' /\ call'[r] = c
                             /\ session'[r].durable
    PROVE  OnceFor(k, c)'
<1>1. \A d, e \in Copies(k, c)' : d = e
  BY DEF OnceFor, Copies, PageInv, IInv, PrimaryKeys, UniqueIds
<1>2. Copies(k, c)' # {} => Copies(k, c) # {}
  OBVIOUS
<1>3. /\ \A q, r \in Request : Adds(q, c)' /\ Adds(r, c)' => q = r
      /\ \A r \in Request : Adds(r, c)' => Copies(k, c)' = {}
      /\ Copies(k, c)' # {} \/ (\E r \in Request : Adds(r, c)') => c \in typed'
  BY <1>2 DEF OnceFor
<1>4. ASSUME draft' = c
      PROVE  /\ \A r \in Request : Adds(r, c)' => CreateWaits(r)'
             /\ Copies(k, c)' # {} =>
                   \/ stuck'
                   \/ \E r \in Request : CreateWaits(r)' /\ call'[r] = c
                                           /\ session'[r].durable
  BY <1>2, <1>4 DEF OnceFor
<1> QED
  BY <1>1, <1>3, <1>4 DEF OnceFor

\* It is sent when the form is not busy: then it is not stored yet.
LEMMA OnceSent ==
    ASSUME PageInv, PageInv', NEW k \in Column, NEW c \in Drafts,
           OnceFor(k, c), NEW q \in Request, Sent(q, c, "live"),
           draft = c, c \in typed, ~Busy(AddForm),
           UNCHANGED <<draft, typed, stuck>>
    PROVE  OnceFor(k, c)'
<1>1. ~stuck /\ \A r \in Request : ~CreateWaits(r)
  BY TheAddForm DEF Busy
<1>2. Copies(k, c) = {} /\ \A r \in Request : ~Adds(r, c)
  BY <1>1 DEF OnceFor
<1>3. Copies(k, c)' = {}
  BY <1>2 DEF Sent, Receive, tables, Copies
<1>4. \A r \in Request : Adds(r, c)' => r = q
  BY <1>2, OthersUntouched DEF Sent, PageInv, IInv, Adds
<1>5. CreateWaits(q)'
  BY CreateWaitsStep, DraftFields DEF PageInv, IInv, Waits, Sent
<1> QED
  BY <1>3, <1>4, <1>5 DEF OnceFor

\* The request that stores it is the one that would.
LEMMA OnceStored ==
    ASSUME PageInv, PageInv', NEW k \in Column, NEW c \in Drafts,
           OnceFor(k, c), NEW q \in Request, CommitCreate(q), call[q] = c,
           UNCHANGED pageVars
    PROVE  OnceFor(k, c)'
<1>1. Adds(q, c) /\ TypeOK /\ TypeOK'
  BY DEF CommitCreate, Adds, PageInv, IInv
<1>2. Copies(k, c) = {} /\ c \in typed /\ \A r \in Request : Adds(r, c) => r = q
  BY <1>1 DEF OnceFor
<1>3. PICK i \in LinkId \ issued :
        /\ docLinks' = docLinks \cup {[id |-> i, user_id |-> call[q].user,
                                       attrs |-> call[q].changes]}
        /\ Committed(q, i)
  BY DEF CommitCreate
<1>4. \A d, e \in Copies(k, c)' : d = e
  BY <1>2, <1>3 DEF Copies
<1>5. pc'[q] # "write" /\ session'[q].durable
  BY <1>1, <1>3, AfterTheCommit
<1>6. \A r \in Request : ~Adds(r, c)'
  <2>1. ASSUME NEW r \in Request, r # q
        PROVE  pc'[r] = pc[r] /\ call'[r] = call[r]
    BY <1>1, <2>1, OthersUntouched DEF Progress, Write
  <2> QED
    BY <1>2, <1>5, <2>1 DEF Adds
<1>7. draft' = c => CreateWaits(q)' /\ call'[q] = c
  BY <1>1 DEF OnceFor, CreateWaits, CommitCreate, pageVars
<1>8. typed' = typed
  BY DEF pageVars
<1> QED
  BY <1>2, <1>4, <1>5, <1>6, <1>7, <1>8 DEF OnceFor

\* A draft gets to its write only by being sent.
LEMMA AddsStep ==
    ASSUME PageInv, PageInv', NEW c \in Drafts, NEW q \in Request, Adds(q, c)',
           \/ Unnoticed
           \/ \E r \in Request :
                 \/ Dropped(r) \/ Swap(r) \/ Load(r)
                 \/ \E d \in Calls, j \in Waits : Sent(r, d, j) /\ d # c
    PROVE  Adds(q, c)
<1>1. IInv /\ TypeOK /\ TypeOK' /\ Bookkeeping(q)
  BY DEF PageInv, IInv
<1>2. call'[q] = c /\ pc'[q] = "write" /\ c.op = "create"
      /\ c.surface = "fragment"
  BY DraftFields DEF Adds
<1>3. CASE pc'[q] = pc[q] /\ call'[q] = call[q]
  BY <1>2, <1>3 DEF Adds
<1>4. ASSUME NEW r \in Request, r # q, StepOf(r)
      PROVE  pc'[q] = pc[q] /\ call'[q] = call[q]
  BY <1>1, <1>4, OthersUntouched DEF StepOf
<1>5. CASE Progress(q) \/ Fail(q) \/ Lose(q)
  <2>1. pc[q] = "select"
    BY <1>1, <1>2, <1>5, WhereWritesStart
  <2>2. call'[q] = call[q]
    BY <1>1, <1>5, <2>1, RequestGoesOn
  <2> QED
    BY <1>1, <1>2, <2>1, <2>2 DEF Bookkeeping
<1>6. ASSUME Close(q) PROVE FALSE
  BY <1>1, <1>2, <1>6 DEF Close, GoTo, TypeOK
<1>7. ASSUME NEW d \in Calls, Receive(q, d) PROVE d = c
  BY <1>1, <1>2, <1>7 DEF Receive, TypeOK
<1>8. CASE UNCHANGED vars \/ \E u \in Leavers : DeleteAccount(u)
  BY <1>3, <1>8 DEF vars, DeleteAccount
<1>9. CASE Unnoticed
  <2>1. ASSUME NEW r \in Request,
               \/ Progress(r) \/ Fail(r) \/ Lose(r)
               \/ waiting[r] = "no" /\ Close(r)
               \/ \E d \in Calls : d.surface = "json" /\ Receive(r, d)
        PROVE  Adds(q, c)
    <3>1. CASE r = q
      BY <1>2, <1>5, <1>6, <1>7, <2>1, <3>1
    <3>2. CASE r # q
      BY <1>3, <1>4, <2>1, <3>2 DEF StepOf
    <3> QED
      BY <3>1, <3>2
  <2> QED
    BY <1>8, <1>9, <2>1 DEF Unnoticed
<1>10. ASSUME NEW r \in Request, Dropped(r) \/ Swap(r) \/ Load(r)
       PROVE  Adds(q, c)
  BY <1>3, <1>4, <1>6, <1>10 DEF Dropped, Swap, Load, StepOf
<1>11. ASSUME NEW r \in Request, NEW d \in Calls, NEW j \in Waits,
              Sent(r, d, j), d # c
       PROVE  Adds(q, c)
  BY <1>3, <1>4, <1>7, <1>11 DEF Sent, StepOf
<1> QED
  BY <1>9, <1>10, <1>11

\* What waits for the page goes on waiting, or ends.
LEMMA DurableWaits ==
    ASSUME PageInv, PageInv', [PageNext]_allVars, NEW r \in Request,
           CreateWaits(r), CreateWaits(r)'
    PROVE  /\ call'[r] = call[r]
           /\ session[r].durable => session'[r].durable
<1>1. pc[r] # "idle" /\ pc'[r] # "idle"
  BY DEF CreateWaits, PageInv, WaitsForItsOwn
<1>2. [Next]_vars
  BY PageStepIsStep DEF PageInv
<1> QED
  BY <1>1, <1>2, RequestStays DEF PageInv, IInv

\* The step of anything but the form itself.
LEMMA OnceAside ==
    ASSUME PageInv, PageInv', CalmInv, [PageNext]_allVars,
           NEW k \in Column, TellsDrafts(k), NEW c \in Drafts, OnceFor(k, c),
           \A q \in Request : Adds(q, c)' => Adds(q, c),
           \A r \in Request : ~(CommitCreate(r) /\ call[r] = c),
           typed \subseteq typed',
           draft' = c =>
              /\ draft = c /\ (stuck => stuck')
              /\ \A r \in Request : CreateWaits(r) =>
                    \/ CreateWaits(r)'
                    \/ /\ ~Adds(r, c)'
                       /\ call[r] = c /\ session[r].durable => stuck'
    PROVE  OnceFor(k, c)'
<1>1. IInv /\ [Next]_vars
  BY PageStepIsStep DEF PageInv
<1>2. \A e \in Copies(k, c)' : \E d \in Copies(k, c) : d.id = e.id
  BY <1>1, CopiesStay
<1>3. ASSUME draft' = c, NEW r \in Request, CreateWaits(r)
      PROVE  /\ Adds(r, c)' => CreateWaits(r)'
             /\ call[r] = c /\ session[r].durable =>
                   \/ stuck'
                   \/ /\ CreateWaits(r)' /\ call'[r] = c
                      /\ session'[r].durable
  <2>1. CASE CreateWaits(r)'
    BY <1>3, <2>1, DurableWaits
  <2>2. CASE ~CreateWaits(r)'
    BY <1>3, <2>2
  <2> QED
    BY <2>1, <2>2
<1> QED
  BY <1>2, <1>3, OnceStays

\* Every step keeps the draft to one row.
LEMMA OnceStep ==
    ASSUME PageInv, PageInv', FormInv, CalmInv, [PageNext]_allVars,
           NEW k \in Column, TellsDrafts(k), NEW c \in Drafts, OnceFor(k, c)
    PROVE  OnceFor(k, c)'
<1>1. /\ IInv /\ TypeOK /\ TypeOK' /\ PageTypeOK
      /\ "live" \in Waits /\ "browser" \in Waits
      /\ PageCalls \subseteq Calls /\ NoCall \notin Calls
      /\ c \in PageCalls /\ c.op = "create" /\ c.surface = "fragment"
      /\ c # NoCall /\ ElementOf(c) = AddForm
  BY ConstantsAssumption, DraftFields, PageAssumption
     DEF PageInv, IInv, Waits, PageCalls
<1>2. ASSUME Unnoticed, UNCHANGED pageVars PROVE OnceFor(k, c)'
  <2>1. CASE \E r \in Request : CommitCreate(r) /\ call[r] = c
    BY <1>2, <2>1, OnceStored
  <2>2. CASE \A r \in Request : ~(CommitCreate(r) /\ call[r] = c)
    <3>1. \A q \in Request : CreateWaits(q)' <=> CreateWaits(q)
      BY <1>1, <1>2, CreateWaitsStep
    <3>2. \A q \in Request : Adds(q, c)' => Adds(q, c)
      BY <1>2, AddsStep
    <3>3. UNCHANGED <<draft, typed, stuck>>
      BY <1>2 DEF pageVars
    <3> QED
      BY <2>2, <3>1, <3>2, <3>3, OnceAside
  <2> QED
    BY <2>1, <2>2
<1>3. ASSUME UNCHANGED tables
      PROVE  \A r \in Request : ~(CommitCreate(r) /\ call[r] = c)
  <2> SUFFICES ASSUME NEW r \in Request, CommitCreate(r) PROVE FALSE
    OBVIOUS
  <2>1. PICK i \in LinkId \ issued : issued' = issued \cup {i}
    BY DEF CommitCreate
  <2> QED
    BY <1>3, <2>1 DEF tables
<1>4. CASE UNCHANGED allVars
  BY <1>2, <1>4 DEF allVars, pageVars, Unnoticed
<1>5. CASE \/ \E r \in Request : ServerStep(r)
           \/ \E r \in Request, d \in Calls : Elsewhere(r, d)
           \/ \E u \in Leavers : HostDeletesAccount(u)
  BY <1>2, <1>5 DEF ServerStep, Elsewhere, HostDeletesAccount, pageVars,
                    Unnoticed
<1>6. CASE DropQueued \/ \E d \in PageCalls : TriggerAgain(d)
  <2>1. Unnoticed /\ UNCHANGED tables /\ UNCHANGED <<draft, typed, stuck>>
    BY <1>6 DEF DropQueued, TriggerAgain, Unnoticed, vars, tables
  <2> QED
    BY <1>1, <1>3, <2>1, AddsStep, CreateWaitsStep, OnceAside
<1>7. ASSUME NEW d \in PageCalls, TypeDraft(d) PROVE OnceFor(k, c)'
  <2>1. /\ Unnoticed /\ UNCHANGED tables /\ draft' = d
        /\ typed' = typed \cup {d} /\ stuck' = stuck /\ d \notin typed
    BY <1>7 DEF TypeDraft, Unnoticed, vars, tables
  <2>2. \A q \in Request : Adds(q, c)' => Adds(q, c)
    BY <2>1, AddsStep
  <2>3. CASE d # c
    BY <1>3, <2>1, <2>2, <2>3, OnceAside
  <2>4. CASE d = c
    <3>1. Copies(k, c) = {} /\ \A r \in Request : ~Adds(r, c)
      BY <2>1, <2>4 DEF OnceFor
    <3>2. Copies(k, c)' = {}
      BY <2>1, <3>1 DEF tables, Copies
    <3> QED
      BY <2>2, <3>1, <3>2 DEF OnceFor
  <2> QED
    BY <2>3, <2>4
<1>8. ASSUME NEW r \in Request, NEW d \in Calls, NEW j \in Waits, Sent(r, d, j),
             d # c, UNCHANGED <<draft, typed, stuck>>
      PROVE  OnceFor(k, c)'
  <2>1. UNCHANGED tables
    BY <1>8 DEF Sent, Receive
  <2>2. \A q \in Request : Adds(q, c)' => Adds(q, c)
    BY <1>8, AddsStep
  <2>3. \A q \in Request : CreateWaits(q) => CreateWaits(q)'
    BY <1>1, <1>8, CreateWaitsStep
  <2> QED
    BY <1>3, <1>8, <2>1, <2>2, <2>3, OnceAside
<1>9. ASSUME NEW r \in Request, NEW d \in PageCalls, Sent(r, d, "live"),
             UNCHANGED <<draft, typed, stuck>>,
             d.op = "create" => d = draft /\ ~Busy(AddForm)
      PROVE  OnceFor(k, c)'
  <2>1. CASE d = c
    BY <1>1, <1>9, <2>1, OnceSent DEF FormInv
  <2>2. CASE d # c
    BY <1>1, <1>8, <1>9, <2>2
  <2> QED
    BY <2>1, <2>2
<1>10. ASSUME NEW r \in Request, NEW d \in PageCalls, Trigger(r, d)
       PROVE  OnceFor(k, c)'
  <2>1. Sent(r, d, "live") /\ UNCHANGED <<draft, typed, stuck>>
    BY <1>10 DEF Trigger, Send, Sent, PageCalls
  <2>2. d.op = "create" => d = draft /\ ~Busy(AddForm)
    BY <1>1, <1>10, PageAssumption DEF Trigger, Triggers
  <2> QED
    BY <1>9, <2>1, <2>2
<1>11. ASSUME NEW r \in Request, SendQueued(r) PROVE OnceFor(k, c)'
  <2>1. PICK q \in queued :
          /\ Unlocked(q)
          /\ IF q.op = "create" THEN draft # NoCall /\ Send(r, draft)
                                ELSE Send(r, q)
    BY <1>11 DEF SendQueued
  <2>2. UNCHANGED <<draft, typed, stuck, page, departed>> /\ q \in PageCalls
    BY <1>1, <1>11 DEF SendQueued, PageTypeOK
  <2>3. CASE q.op = "create"
    <3>1. draft \in PageCalls /\ ~Busy(AddForm)
      BY <1>1, <2>1, <2>2, <2>3, PageAssumption DEF Unlocked, PageTypeOK
    <3>2. Sent(r, draft, "live")
      BY <2>1, <2>2, <2>3, <3>1 DEF Send, Sent, PageCalls
    <3> QED
      BY <1>9, <2>2, <3>1, <3>2
  <2>4. CASE q.op # "create"
    <3>1. Sent(r, q, "live")
      BY <2>1, <2>2, <2>4 DEF Send, Sent, PageCalls
    <3> QED
      BY <1>9, <2>2, <2>4, <3>1
  <2> QED
    BY <2>3, <2>4
<1>12. ASSUME NEW r \in Request, NEW d \in Calls, Reload(r, d)
       PROVE  OnceFor(k, c)'
  <2>1. Sent(r, d, "browser") /\ UNCHANGED <<draft, typed, stuck>> /\ d # c
    BY <1>1, <1>12 DEF Reload, Sent
  <2> QED
    BY <1>1, <1>8, <2>1
<1>13. ASSUME NEW r \in Request, Dropped(r) \/ Swap(r),
              typed' = typed, stuck => stuck', draft' = c => draft = c,
              draft' = c /\ CreateWaits(r) /\ session[r].durable => stuck'
       PROVE  OnceFor(k, c)'
  <2>1. UNCHANGED tables /\ pc[r] # "write"
    BY <1>13 DEF Dropped, Swap, Close
  <2>2. \A q \in Request : Adds(q, c)' => Adds(q, c)
    BY <1>13, AddsStep
  <2>3. \A q \in Request : CreateWaits(q)' <=> q # r /\ CreateWaits(q)
    BY <1>1, <1>13, CreateWaitsStep
  <2>4. ~Adds(r, c)'
    BY <2>1, <2>2 DEF Adds
  <2> QED
    BY <1>3, <1>13, <2>1, <2>2, <2>3, <2>4, OnceAside
<1>14. ASSUME NEW r \in Request, Swap(r) PROVE OnceFor(k, c)'
  <2>1. typed' = typed /\ stuck' = stuck /\ draft' \in {draft, NoCall}
    BY <1>14 DEF Swap, AfterRequest
  <2>2. CreateWaits(r) => draft' = NoCall
    BY <1>14 DEF Swap, AfterRequest, CreateWaits
  <2> QED
    BY <1>1, <1>13, <1>14, <2>1, <2>2
<1>15. ASSUME NEW r \in Request, CreateWaits(r), session[r].durable,
              pc[r] \in {"answered", "lost"}
       PROVE  pc[r] = "answered" /\ answer[r].status = 200
  <2>1. call[r].surface # "json"
    BY <1>15 DEF CreateWaits, PageInv, WaitsForItsOwn
  <2> QED
    BY <1>15, <2>1 DEF CalmInv, EndsWell
<1>16. ASSUME NEW r \in Request, SwapThrows(r) PROVE OnceFor(k, c)'
  <2>1. Dropped(r) /\ UNCHANGED <<draft, typed>>
        /\ stuck' = (stuck \/ call[r].op = "create")
    BY <1>16 DEF SwapThrows, Dropped
  <2>2. (stuck => stuck') /\ (CreateWaits(r) => stuck')
    <3>1. CreateWaits(r) => call[r].op = "create"
      BY DEF CreateWaits
    <3> QED
      BY <2>1, <3>1, Zenon
  <2> QED
    BY <1>13, <2>1, <2>2
<1>17. ASSUME NEW r \in Request, ShowFormError(r) \/ OtherFailure(r)
       PROVE  OnceFor(k, c)'
  <2>1. Dropped(r) /\ UNCHANGED <<draft, typed, stuck>>
    BY <1>17 DEF ShowFormError, OtherFailure, Dropped
  <2>2. /\ pc[r] \in {"answered", "lost"}
        /\ pc[r] = "lost" \/ answer[r].status # 200
    BY <1>17 DEF ShowFormError, OtherFailure, Close
  <2>3. ~(CreateWaits(r) /\ session[r].durable)
    BY <1>15, <2>2
  <2> QED
    BY <1>13, <2>1, <2>3
<1>18. ASSUME NEW r \in Request, Load(r) PROVE OnceFor(k, c)'
  <2>1. UNCHANGED tables /\ draft' = NoCall /\ typed' = typed
    BY <1>18 DEF Load, NewDocument, Close
  <2>2. \A q \in Request : Adds(q, c)' => Adds(q, c)
    BY <1>18, AddsStep
  <2> QED
    BY <1>1, <1>3, <2>1, <2>2, OnceAside
<1> QED
  BY <1>4, <1>5, <1>6, <1>7, <1>10, <1>11, <1>12, <1>14, <1>16, <1>17, <1>18
     DEF PageNext, Deliver

-----------------------------------------------------------------------------
(* The results about the add form.                                         *)

\* The add form has one submission under way, of a draft that is still in it.
THEOREM FormInvariance == PageSpec => []FormInv
<1>1. PageInit => FormInv
  BY DEF PageInit, FormInv, CreateWaits, RefusedDraftIsKept
<1>2. PageInv /\ PageInv' /\ FormInv /\ [PageNext]_allVars => FormInv'
  BY FormStep DEF PageInv, IInv
<1> QED
  BY <1>1, <1>2, PageInvariance, PTL DEF PageSpec

\* What a refusal says and what it is about stay together.
THEOREM RefusedDraftsStay == PageSpec => []RefusedDraftIsKept
<1>1. FormInv => RefusedDraftIsKept
  BY DEF FormInv
<1> QED
  BY <1>1, FormInvariance, PTL

\* Where no connection breaks and no instance is killed, what a visitor types
\* into the add form is stored once: a second click, a remembered trigger, an
\* answer that finds its target gone or an edit of a link in between do not
\* store it again.
THEOREM DraftsAreAddedOnce ==
    ASSUME ~Faults, NEW k \in Column, TellsDrafts(k)
    PROVE  PageSpec => []AddedOnce
<1>1. PageInit => AddInv(k)
  <2> SUFFICES ASSUME PageInit PROVE AddInv(k)
    OBVIOUS
  <2>1. ASSUME NEW c \in PageCalls, c.op = "create", NEW d \in docLinks
        PROVE  d.attrs[k] # c.changes[k]
    BY <2>1 DEF TellsDrafts, PageInit, Init
  <2>2. \A r \in Request : pc[r] # "write"
    BY DEF PageInit, Init
  <2> QED
    BY <2>1, <2>2, DraftFields
       DEF AddInv, OnlyDrafts, OnceFor, Copies, Adds
<1>2. PageInv /\ PageInv' /\ FormInv /\ CalmInv /\ AddInv(k)
        /\ [PageNext]_allVars => AddInv(k)'
  BY OnceStep, OnlyDraftsStep, PageStepIsStep DEF AddInv, PageInv
<1>3. PageInv /\ FormInv /\ AddInv(k) => AddedOnce
  <2> SUFFICES ASSUME PageInv, FormInv, AddInv(k),
                      NEW d \in docLinks, NEW e \in docLinks,
                      d.attrs = e.attrs,
                      NEW c \in typed, c.changes = d.attrs
               PROVE  d = e
    BY DEF AddedOnce
  <2>1. c \in PageCalls /\ c.op = "create"
    BY DEF FormInv, PageInv, PageTypeOK
  <2>2. PICK b \in Drafts : b.changes[k] = c.changes[k]
    BY <2>1 DEF AddInv, OnlyDrafts
  <2>3. d \in Copies(k, b) /\ e \in Copies(k, b)
    BY <2>2 DEF Copies
  <2> QED
    BY <2>3 DEF AddInv, OnceFor
<1> QED
  BY <1>1, <1>2, <1>3, PageInvariance, FormInvariance, PageIsAClient,
     CalmInvariance, PTL DEF PageSpec

-----------------------------------------------------------------------------
(* A patient visitor's page.                                               *)

Current == {[row |-> d, shown |-> d.attrs] : d \in ListForUser(Visitor)}

\* One element of the page is used at a time, and whatever the visitor
\* changes the page waits for.
OneAtATime ==
    /\ \A q, r \in Request : waiting[q] # "no" /\ waiting[r] # "no" => q = r
    /\ \A r \in Request : waiting[r] # "orphan"
    /\ \A r \in Request, q \in queued :
          waiting[r] # "no" =>
              waiting[r] = "live" /\ ElementOf(q) = ElementOf(call[r])
    /\ \A p, q \in queued : ElementOf(p) = ElementOf(q)
    /\ ~stuck
    /\ \A r \in Request : waiting[r] = "browser" => call[r].surface = "page"
    /\ \A r \in Request :
          pc[r] # "idle" /\ waiting[r] = "no" /\ call[r].user = Visitor =>
              call[r].op = "list"

\* The row an edit has loaded stays as it is until the edit commits.
HoldsTheRow(r) ==
    waiting[r] # "no" /\ call[r].op = "update" /\ session[r].found # {} =>
        IF session[r].durable
        THEN \A d \in docLinks : d.id = Loaded(r).id =>
                d.attrs = Merge(Loaded(r).attrs, call[r].changes)
        ELSE Loaded(r) \in docLinks

\* What is on its way is what is stored.
BringsTheTruth(r) ==
    waiting[r] # "no" /\ Selected(r) =>
        /\ answer[r].entries = Current
        /\ answer[r].status = 200 => answer[r].mode = GetViewMode(Visitor)

ShowsTheTruth ==
    page.open /\ (\A r \in Request : waiting[r] # "no" => ~session[r].durable)
    =>  /\ page.entries = Current
        /\ page.mode = GetViewMode(Visitor)

\* What is on the page and on its way to it.
AllTrue ==
    ShowsTheTruth /\ \A r \in Request : HoldsTheRow(r) /\ BringsTheTruth(r)

TruthInv == OneAtATime /\ (Visitor \in hostUsers => AllTrue)

Alone == \A r \in Request : waiting[r] = "no"

\* A patient visitor uses an element that is not busy only when nothing else
\* is under way, and then no trigger is left over.
LEMMA TouchedAlone ==
    ASSUME PageInv, OneAtATime, NEW c \in PageCalls, ~Busy(ElementOf(c)),
           \A r \in Request :
              waiting[r] # "no" => ElementOf(call[r]) = ElementOf(c)
    PROVE  Alone
<1> SUFFICES ASSUME NEW r \in Request, waiting[r] # "no" PROVE FALSE
  BY DEF Alone
<1>1. waiting[r] \in {"live", "browser"}
  BY DEF PageInv, PageTypeOK, Waits, OneAtATime
<1>2. CASE waiting[r] = "live"
  BY <1>2 DEF Busy
<1>3. CASE waiting[r] = "browser"
  <2>1. call[r].surface = "page" /\ call[r] \in Calls
    BY <1>3 DEF OneAtATime, PageInv, IInv, Bookkeeping, WaitsForItsOwn
  <2>2. call[r].op = "list" /\ c.op # "list"
    BY <2>1, CallsAssumption DEF PageCalls, WellFormedCall
  <2>3. ElementOf(call[r]).op = ElementOf(c).op
    OBVIOUS
  <2> QED
    BY <2>2, <2>3 DEF ElementOf
<1> QED
  BY <1>1, <1>2, <1>3

\* A trigger is remembered only as long as its element is busy.
LEMMA NothingQueued ==
    ASSUME OneAtATime, Alone, Settled
    PROVE  queued = {}
BY DEF OneAtATime, Alone, Settled, Busy

\* What the browser does not notice.
LEMMA OneUnnoticed ==
    ASSUME PageInv, PageInv', QuietElsewhere, OneAtATime, Unnoticed,
           stuck' = stuck,
           \A p \in queued' :
              \/ p \in queued
              \/ \E r \in Request : waiting[r] = "live"
                                      /\ ElementOf(p) = ElementOf(call[r])
    PROVE  OneAtATime'
<1>1. IInv /\ TypeOK /\ TypeOK' /\ waiting' = waiting
  BY DEF PageInv, IInv, Unnoticed
<1>2. ASSUME NEW r \in Request, waiting[r] # "no" PROVE call'[r] = call[r]
  BY <1>1, <1>2, WhileItWaits DEF PageInv
<1>3. ASSUME NEW r \in Request, waiting[r] # "no", NEW p \in queued'
      PROVE  waiting[r] = "live" /\ ElementOf(p) = ElementOf(call[r])
  <2>1. CASE p \in queued
    BY <1>3, <2>1 DEF OneAtATime
  <2>2. CASE p \notin queued
    BY <1>3, <2>2 DEF OneAtATime
  <2> QED
    BY <2>1, <2>2
<1>4. \A p, q \in queued' : ElementOf(p) = ElementOf(q)
  BY <1>3 DEF OneAtATime
<1>5. ASSUME NEW q \in Request, pc'[q] # "idle", waiting[q] = "no",
             call'[q].user = Visitor
      PROVE  call'[q].op = "list"
  <2>1. CASE pc'[q] = pc[q] /\ call'[q] = call[q]
    BY <1>5, <2>1 DEF OneAtATime
  <2>2. ASSUME NEW r \in Request, r # q, StepOf(r)
        PROVE  pc'[q] = pc[q] /\ call'[q] = call[q]
    BY <1>1, <2>2, OthersUntouched DEF StepOf
  <2>3. ASSUME NEW c \in Calls, c.surface = "json", Receive(q, c)
        PROVE  call'[q].op = "list"
    BY <1>1, <1>5, <2>3 DEF Receive, TypeOK, QuietElsewhere
  <2>4. ASSUME Close(q) PROVE FALSE
    BY <1>1, <1>5, <2>4 DEF Close, GoTo, TypeOK
  <2>5. CASE Progress(q) \/ Fail(q) \/ Lose(q)
    <3>1. pc[q] # "idle"
      BY <1>1, <2>5
         DEF Progress, Write, SelectOwned, Refresh, SelectLinks, SelectMode,
             CommitCreate, CommitUpdate, CommitDelete, CommitMode,
             UpdateMatchesNothing, AccountIsGone, Fail, Lose, InFlight
    <3> QED
      BY <1>1, <1>5, <2>5, <3>1, RequestGoesOn DEF OneAtATime
  <2>6. CASE UNCHANGED vars \/ \E u \in Leavers : DeleteAccount(u)
    BY <2>1, <2>6 DEF vars, DeleteAccount
  <2> QED
    BY <2>1, <2>2, <2>3, <2>4, <2>5, <2>6 DEF Unnoticed, StepOf
<1> QED
  BY <1>1, <1>2, <1>3, <1>4, <1>5 DEF OneAtATime

\* A request goes out alone.
LEMMA OneSent ==
    ASSUME PageInv, PageInv', OneAtATime, Alone,
           NEW r \in Request, NEW c \in Calls, NEW j \in Waits, Sent(r, c, j),
           j = "browser" => c.surface = "page", stuck' = stuck,
           \A p \in queued' : j = "live" /\ ElementOf(p) = ElementOf(c)
    PROVE  OneAtATime'
<1>1. TypeOK /\ TypeOK' /\ waiting \in [Request -> Waits]
  BY DEF PageInv, IInv, PageTypeOK
<1>2. waiting'[r] = j /\ j \in {"live", "browser"} /\ call'[r] = c
  BY <1>1 DEF Sent, Receive, TypeOK
<1>3. ASSUME NEW q \in Request, q # r
      PROVE  /\ waiting'[q] = "no" /\ pc'[q] = pc[q] /\ call'[q] = call[q]
             /\ waiting[q] = "no"
  BY <1>1, <1>3, OthersUntouched DEF Sent, Alone
<1> QED
  BY <1>2, <1>3 DEF OneAtATime

\* When its answer arrives nothing is under way any more.
LEMMA OneEnds ==
    ASSUME PageInv, PageInv', OneAtATime, NEW r \in Request,
           Dropped(r) \/ Swap(r) \/ Load(r), waiting[r] # "no",
           ~stuck', queued' \subseteq queued
    PROVE  OneAtATime' /\ Alone'
<1>1. TypeOK /\ TypeOK' /\ waiting \in [Request -> Waits]
  BY DEF PageInv, IInv, PageTypeOK
<1>2. \A q \in Request : q # r => waiting[q] = "no"
  BY DEF OneAtATime
<1>3. \A q \in Request : waiting'[q] = "no"
  BY <1>1, <1>2 DEF Dropped, Ended, Swap, Load, NewDocument
<1>4. pc'[r] = "idle"
  BY <1>1 DEF Dropped, Swap, Load, Close, GoTo, TypeOK
<1>5. ASSUME NEW q \in Request, q # r
      PROVE  pc'[q] = pc[q] /\ call'[q] = call[q]
  BY <1>1, <1>5, OthersUntouched DEF Dropped, Swap, Load
<1> QED
  BY <1>2, <1>3, <1>4, <1>5 DEF OneAtATime, Alone

\* Whatever a patient visitor sends, nothing was waited for.
LEMMA SentAlone ==
    ASSUME Patient, PageInv, PageInv', FormInv, OneAtATime,
           NEW r \in Request,
           \/ \E c \in PageCalls : Trigger(r, c)
           \/ \E c \in Calls : Reload(r, c)
           \/ SendQueued(r)
    PROVE  /\ Alone /\ OneAtATime'
           /\ \E c \in Calls, j \in Waits : Sent(r, c, j)
<1>1. /\ "live" \in Waits /\ "browser" \in Waits /\ PageTypeOK
      /\ PageCalls \subseteq Calls
  BY DEF Waits, PageInv, PageCalls
<1>2. ASSUME NEW c \in PageCalls, Trigger(r, c)
      PROVE  /\ Alone /\ OneAtATime'
             /\ \E d \in Calls, j \in Waits : Sent(r, d, j)
  <2>1. Sent(r, c, "live") /\ stuck' = stuck /\ queued' = queued
    BY <1>2 DEF Trigger, Send, Sent, PageCalls
  <2>2. Alone
    BY <1>2, TouchedAlone DEF Trigger, MayTouch
  <2>3. queued = {}
    BY <1>2, <2>2, NothingQueued DEF Trigger
  <2> QED
    BY <1>1, <2>1, <2>2, <2>3, OneSent
<1>3. ASSUME NEW c \in Calls, Reload(r, c)
      PROVE  /\ Alone /\ OneAtATime'
             /\ \E d \in Calls, j \in Waits : Sent(r, d, j)
  <2>1. Sent(r, c, "browser") /\ stuck' = stuck /\ queued' = queued
    BY <1>3 DEF Reload, Sent
  <2>2. Alone /\ queued = {} /\ c.surface = "page"
    BY <1>3 DEF Reload, Alone
  <2> QED
    BY <1>1, <2>1, <2>2, OneSent
<1>4. ASSUME SendQueued(r)
      PROVE  /\ Alone /\ OneAtATime'
             /\ \E d \in Calls, j \in Waits : Sent(r, d, j)
  <2>1. PICK q \in queued :
          /\ Unlocked(q)
          /\ IF q.op = "create" THEN draft # NoCall /\ Send(r, draft)
                                ELSE Send(r, q)
          /\ queued' = queued \ {q}
          /\ UNCHANGED <<page, draft, typed, stuck, errors, departed>>
    BY <1>4 DEF SendQueued
  <2>2. q \in PageCalls
    BY <1>1 DEF PageTypeOK
  <2>3. Alone
    BY <2>1, <2>2, TouchedAlone DEF Unlocked, OneAtATime
  <2>4. PICK c \in PageCalls : /\ Send(r, c) /\ ElementOf(c) = ElementOf(q)
    <3>1. CASE q.op = "create"
      <4>1. draft \in PageCalls /\ draft.op = "create"
        BY <1>1, <2>1, <3>1 DEF PageTypeOK, FormInv
      <4> QED
        BY <2>1, <2>2, <3>1, <4>1, PageAssumption
    <3>2. CASE q.op # "create"
      BY <2>1, <2>2, <3>2
    <3> QED
      BY <3>1, <3>2
  <2>5. Sent(r, c, "live")
    BY <2>1, <2>4 DEF Send, Sent, PageCalls
  <2>6. \A p \in queued' : ElementOf(p) = ElementOf(c)
    BY <2>1, <2>4 DEF OneAtATime
  <2> QED
    BY <1>1, <2>1, <2>3, <2>5, <2>6, OneSent
<1> QED
  BY <1>2, <1>3, <1>4

\* So these are a patient page's steps.
LEMMA PatientStepKinds ==
    ASSUME Patient, QuietElsewhere, PageInv, PageInv', FormInv, OneAtATime,
           [PageNext]_allVars
    PROVE  /\ OneAtATime'
           /\ \/ Unnoticed
              \/ Alone /\ \E r \in Request, c \in Calls, j \in Waits :
                             Sent(r, c, j)
              \/ Alone' /\ \E r \in Request :
                    /\ waiting[r] # "no"
                    /\ \/ Swap(r) \/ Load(r)
                       \/ /\ Dropped(r)
                          /\ pc[r] = "lost" \/ answer[r].status # 200
<1> DEFINE Kinds ==
       \/ Unnoticed
       \/ Alone /\ \E r \in Request, c \in Calls, j \in Waits : Sent(r, c, j)
       \/ Alone' /\ \E r \in Request :
             /\ waiting[r] # "no"
             /\ \/ Swap(r) \/ Load(r)
                \/ /\ Dropped(r)
                   /\ pc[r] = "lost" \/ answer[r].status # 200
<1>1. ASSUME Unnoticed, stuck' = stuck, queued' \subseteq queued
      PROVE  OneAtATime' /\ Kinds
  BY <1>1, OneUnnoticed
<1>2. CASE UNCHANGED allVars
  BY <1>1, <1>2 DEF allVars, pageVars, Unnoticed
<1>3. CASE \/ \E r \in Request : ServerStep(r)
           \/ \E r \in Request, d \in Calls : Elsewhere(r, d)
           \/ \E u \in Leavers : HostDeletesAccount(u)
           \/ DropQueued \/ \E c \in PageCalls : TypeDraft(c)
  BY <1>1, <1>3 DEF ServerStep, Elsewhere, HostDeletesAccount, DropQueued,
                    TypeDraft, pageVars, Unnoticed
<1>4. ASSUME NEW c \in PageCalls, TriggerAgain(c) PROVE OneAtATime' /\ Kinds
  <2>1. Unnoticed /\ stuck' = stuck /\ Busy(ElementOf(c))
        /\ \A p \in queued' : p \in queued \/ p = c
    BY <1>4 DEF TriggerAgain, Unnoticed
  <2>2. \E r \in Request :
           waiting[r] = "live" /\ ElementOf(c) = ElementOf(call[r])
    BY <2>1 DEF OneAtATime, Busy
  <2> QED
    BY <2>1, <2>2, OneUnnoticed
<1>5. ASSUME NEW r \in Request,
             \/ \E c \in PageCalls : Trigger(r, c)
             \/ \E c \in Calls : Reload(r, c)
             \/ SendQueued(r)
      PROVE  OneAtATime' /\ Kinds
  BY <1>5, SentAlone
<1>6. ASSUME NEW r \in Request, Swap(r) \/ Load(r) PROVE OneAtATime' /\ Kinds
  <2>1. waiting[r] # "no" /\ ~stuck' /\ queued' \subseteq queued
    BY <1>6 DEF Swap, Load, NewDocument, OneAtATime
  <2> QED
    BY <1>6, <2>1, OneEnds
<1>7. ASSUME NEW r \in Request, ShowFormError(r) \/ OtherFailure(r)
      PROVE  OneAtATime' /\ Kinds
  <2>1. /\ Dropped(r)
        /\ pc[r] = "lost" \/ answer[r].status # 200
        /\ waiting[r] # "no" /\ ~stuck' /\ queued' \subseteq queued
    BY <1>7 DEF ShowFormError, OtherFailure, Dropped, OneAtATime
  <2>2. OneAtATime' /\ Alone'
    BY <2>1, OneEnds
  <2> QED
    BY <2>1, <2>2
<1>8. ASSUME NEW r \in Request, SwapThrows(r) PROVE FALSE
  BY <1>8 DEF SwapThrows, OneAtATime
<1> QED
  BY <1>2, <1>3, <1>4, <1>5, <1>6, <1>7, <1>8 DEF PageNext, Deliver

-----------------------------------------------------------------------------
(* What nobody but the visitor changes.                                    *)

\* A user's view mode is read off the user's row.
LEMMA ViewModeStays ==
    ASSUME PrimaryKeys, PrimaryKeys', NEW u,
           \A p : p.user_id = u => (p \in preferences' <=> p \in preferences)
    PROVE  GetViewMode(u)' = GetViewMode(u)
<1>1. CASE \E p \in preferences : p.user_id = u
  <2>1. PICK p \in preferences : p.user_id = u
    BY <1>1
  <2>2. p \in preferences'
    BY <2>1
  <2>3. (CHOOSE q \in preferences : q.user_id = u) = p
    BY <2>1 DEF PrimaryKeys
  <2>4. (CHOOSE q \in preferences' : q.user_id = u) = p
    BY <2>1, <2>2 DEF PrimaryKeys
  <2> QED
    BY <2>1, <2>2, <2>3, <2>4 DEF GetViewMode
<1>2. CASE ~ \E p \in preferences : p.user_id = u
  BY <1>2 DEF GetViewMode
<1> QED
  BY <1>1, <1>2

\* Commits of others leave a user's rows alone.
LEMMA OthersCommit ==
    ASSUME IInv, NEW r \in Request, NEW u, call[r].user # u,
           \/ CommitCreate(r) \/ CommitUpdate(r) \/ CommitDelete(r)
           \/ CommitMode(r)
    PROVE  /\ \A d : d.user_id = u => (d \in docLinks' <=> d \in docLinks)
           /\ \A p : p.user_id = u => (p \in preferences' <=> p \in preferences)
<1>1. CASE CommitCreate(r)
  <2>1. PICK i \in LinkId \ issued :
          docLinks' = docLinks \cup {[id |-> i, user_id |-> call[r].user,
                                      attrs |-> call[r].changes]}
    BY <1>1 DEF CommitCreate
  <2>2. preferences' = preferences
    BY <1>1 DEF CommitCreate
  <2> QED
    BY <2>1, <2>2
<1>2. CASE CommitUpdate(r)
  <2> DEFINE dirty == Dirty(Loaded(r).attrs, call[r].changes)
             i == Loaded(r).id
  <2>1. /\ docLinks' = UpdateDocLink(i, dirty, call[r].changes)
        /\ preferences' = preferences /\ dirty \in SUBSET DOMAIN call[r].changes
    BY <1>2 DEF CommitUpdate, Dirty
  <2>2. /\ call[r] \in Calls
        /\ \A d \in docLinks : d.id = i => d.user_id = call[r].user
    BY <1>2, LoadedIsOwn DEF CommitUpdate
  <2> HIDE DEF dirty, i
  <2>3. \A e \in docLinks' :
          \E d \in docLinks : Updated(d, e, i, dirty, call[r].changes)
    BY <2>1, <2>2, UpdateKeepsKeys DEF IInv, TypeOK
  <2>4. ASSUME NEW e \in docLinks', e.user_id = u PROVE e \in docLinks
    BY <2>2, <2>3, <2>4 DEF Updated
  <2>5. ASSUME NEW d \in docLinks, d.user_id = u PROVE d \in docLinks'
    BY <2>1, <2>2, <2>5 DEF UpdateDocLink
  <2> QED
    BY <2>1, <2>4, <2>5
<1>3. CASE CommitDelete(r)
  <2>1. \A d \in docLinks : d.id = Loaded(r).id => d.user_id = call[r].user
    BY <1>3, LoadedIsOwn DEF CommitDelete
  <2> QED
    BY <1>3, <2>1 DEF CommitDelete
<1>4. CASE CommitMode(r)
  BY <1>4 DEF CommitMode, SetViewMode
<1> QED
  BY <1>1, <1>2, <1>3, <1>4

\* The page waits for a COMMIT of the visitor's.
AwaitedCommit(r) ==
    /\ waiting[r] # "no"
    /\ \/ CommitCreate(r) \/ CommitUpdate(r) \/ CommitDelete(r)
       \/ CommitMode(r)

\* Nothing else changes what the page has to show, as long as there is an
\* account.
LEMMA TruthStays ==
    ASSUME IInv, IInv', OneAtATime, [Next]_vars, Visitor \in hostUsers',
           \A r \in Request : ~AwaitedCommit(r)
    PROVE  /\ Visitor \in hostUsers
           /\ \A d : d.user_id = Visitor =>
                        (d \in docLinks' <=> d \in docLinks)
           /\ Current' = Current
           /\ GetViewMode(Visitor)' = GetViewMode(Visitor)
<1> DEFINE Same ==
       /\ Visitor \in hostUsers
       /\ \A d : d.user_id = Visitor => (d \in docLinks' <=> d \in docLinks)
       /\ \A p : p.user_id = Visitor =>
                    (p \in preferences' <=> p \in preferences)
<1>1. ASSUME UNCHANGED tables PROVE Same
  BY <1>1 DEF tables
<1>2. ASSUME NEW r \in Request,
             \/ CommitCreate(r) \/ CommitUpdate(r) \/ CommitDelete(r)
             \/ CommitMode(r)
      PROVE  Same
  <2>1. waiting[r] = "no"
    BY <1>2 DEF AwaitedCommit
  <2>2. pc[r] # "idle" /\ call[r].op # "list" /\ hostUsers' = hostUsers
    BY <1>2 DEF CommitCreate, CommitUpdate, CommitDelete, CommitMode
  <2>3. call[r].user # Visitor
    BY <2>1, <2>2 DEF OneAtATime
  <2> QED
    BY <1>2, <2>2, <2>3, OthersCommit
<1>3. ASSUME NEW u \in Leavers, DeleteAccount(u) PROVE Same
  BY <1>3 DEF DeleteAccount
<1>4. Same
  BY <1>1, <1>2, <1>3, TableSteps
<1>5. ListForUser(Visitor)' = ListForUser(Visitor)
  BY <1>4 DEF ListForUser
<1>6. GetViewMode(Visitor)' = GetViewMode(Visitor)
  BY <1>4, ViewModeStays DEF IInv
<1> QED
  BY <1>4, <1>5, <1>6 DEF Current

-----------------------------------------------------------------------------
(* What the page waits for, statement by statement.                        *)

\* Of the statements for the page only the last gives an answer its success.
LEMMA AnsweredBySelectMode ==
    ASSUME IInv, TypeOK', NEW r \in Request,
           pc[r] # "idle", call[r].surface # "json",
           Progress(r) \/ Fail(r) \/ Lose(r), answer'[r].status = 200
    PROVE  \/ SelectMode(r)
           \/ answer[r].status = 200 /\ answer'[r].mode = answer[r].mode
<1> USE DEF GoTo, Respond, TypeOK, IInv
<1> DEFINE Goal == \/ SelectMode(r)
                   \/ answer[r].status = 200 /\ answer'[r].mode = answer[r].mode
<1>1. ASSUME NEW id, Committed(r, id), pc[r] = "write" PROVE Goal
  BY <1>1 DEF Committed
<1>2. CASE CommitCreate(r)
  BY <1>1, <1>2 DEF CommitCreate
<1>3. CASE CommitUpdate(r)
  BY <1>1, <1>3 DEF CommitUpdate
<1>4. CASE CommitDelete(r)
  BY <1>1, <1>4 DEF CommitDelete
<1>5. CASE CommitMode(r)
  BY <1>1, <1>5 DEF CommitMode
<1>6. CASE UpdateMatchesNothing(r) \/ AccountIsGone(r)
  BY <1>6 DEF UpdateMatchesNothing, AccountIsGone
<1>7. CASE SelectOwned(r)
  BY <1>7 DEF SelectOwned
<1>8. CASE Refresh(r)
  BY <1>8 DEF Refresh
<1>9. CASE SelectLinks(r)
  <2> DEFINE lines == {[row |-> d, shown |-> Shown(r, d)] :
                          d \in ListForUser(call[r].user)}
  <2>1. answer' = [answer EXCEPT ![r].entries = lines,
                                 ![r].status = answer[r].status]
    BY <1>9 DEF SelectLinks
  <2> HIDE DEF lines
  <2> QED
    BY <2>1
<1>10. CASE Fail(r) \/ Lose(r)
  BY <1>10 DEF Fail, Lose
<1> QED
  BY <1>2, <1>3, <1>4, <1>5, <1>6, <1>7, <1>8, <1>9, <1>10
     DEF Progress, Write

\* What a step that the browser does not notice makes of what it waits for.
LEMMA AwaitedStep ==
    ASSUME PageInv, PageInv', Unnoticed, NEW q \in Request, waiting[q] # "no"
    PROVE  /\ call'[q] = call[q]
           /\ session[q].durable => session'[q].durable
           /\ \/ session'[q] = session[q] \/ SelectOwned(q)
              \/ AwaitedCommit(q)
           /\ Selected(q)' =>
                 \/ SelectLinks(q)
                 \/ Selected(q) /\ answer'[q].entries = answer[q].entries
           /\ answer'[q].status = 200 =>
                 \/ SelectMode(q)
                 \/ answer[q].status = 200 /\ answer'[q].mode = answer[q].mode
<1>1. /\ IInv /\ TypeOK /\ TypeOK' /\ WaitsForItsOwn(q)
      /\ pc[q] # "idle" /\ call[q].surface # "json"
  BY DEF PageInv, IInv, WaitsForItsOwn
<1>2. CASE /\ call'[q] = call[q] /\ session'[q] = session[q]
           /\ pc'[q] = pc[q] /\ answer'[q] = answer[q]
  BY <1>2 DEF Selected
<1>3. ASSUME NEW r \in Request, r # q, StepOf(r)
      PROVE  /\ call'[q] = call[q] /\ session'[q] = session[q]
             /\ pc'[q] = pc[q] /\ answer'[q] = answer[q]
  BY <1>1, <1>3, OthersUntouched DEF StepOf
<1>4. CASE UNCHANGED vars \/ \E u \in Leavers : DeleteAccount(u)
  BY <1>2, <1>4 DEF vars, DeleteAccount
<1>5. CASE Progress(q) \/ Fail(q) \/ Lose(q)
  <2>1. /\ pc'[q] # "idle" /\ call'[q] = call[q]
        /\ Selected(q)' =>
              \/ SelectLinks(q)
              \/ Selected(q) /\ answer'[q].entries = answer[q].entries
    BY <1>1, <1>5, RequestGoesOn, SelectedBySelectLinks
  <2>2. answer'[q].status = 200 =>
           \/ SelectMode(q)
           \/ answer[q].status = 200 /\ answer'[q].mode = answer[q].mode
    BY <1>1, <1>5, AnsweredBySelectMode
  <2>3. session[q].durable => session'[q].durable
    <3>1. [Next]_vars
      BY <1>5 DEF Next
    <3> QED
      BY <1>1, <2>1, <3>1, RequestStays
  <2>4. \/ session' = session \/ SelectOwned(q) \/ AwaitedCommit(q)
    BY <1>5 DEF Progress, Write, Refresh, SelectLinks, SelectMode, Fail, Lose,
                UpdateMatchesNothing, AccountIsGone, AwaitedCommit
  <2> QED
    BY <2>1, <2>2, <2>3, <2>4
<1>6. ASSUME NEW c \in Calls, Receive(q, c) PROVE FALSE
  BY <1>1, <1>6 DEF Receive
<1> QED
  BY <1>2, <1>3, <1>4, <1>5, <1>6 DEF Unnoticed, StepOf

\* An edit that commits writes what its page will show.
LEMMA EditHoldsItsRow ==
    ASSUME IInv, TypeOK', NEW r \in Request, CommitUpdate(r),
           Loaded(r) \in docLinks
    PROVE  /\ session'[r].found = session[r].found
           /\ \A e \in docLinks' : e.id = Loaded(r).id =>
                 e.attrs = Merge(Loaded(r).attrs, call[r].changes)
<1> DEFINE dirty == Dirty(Loaded(r).attrs, call[r].changes)
           new == [k \in Column |-> IF k \in dirty THEN call[r].changes[k]
                                                   ELSE Loaded(r).attrs[k]]
<1>1. session'[r].found = session[r].found
  BY DEF CommitUpdate, Committed, IInv, TypeOK
<1>2. new = Merge(Loaded(r).attrs, call[r].changes)
  BY DEF Dirty, Merge
<1>3. /\ docLinks' = UpdateDocLink(Loaded(r).id, dirty, call[r].changes)
      /\ call[r] \in Calls /\ dirty \in SUBSET DOMAIN call[r].changes
  BY DEF CommitUpdate, IInv, Bookkeeping, Dirty
<1> HIDE DEF dirty
<1>4. ASSUME NEW e \in docLinks', e.id = Loaded(r).id PROVE e.attrs = new
  <2>1. PICK d \in docLinks :
               Updated(d, e, Loaded(r).id, dirty, call[r].changes)
    BY <1>3, UpdateKeepsKeys DEF IInv, TypeOK
  <2>2. d = Loaded(r)
    BY <1>4, <2>1 DEF Updated, IInv, PrimaryKeys, UniqueIds
  <2> QED
    BY <2>1, <2>2 DEF Updated
<1> QED
  BY <1>1, <1>2, <1>4

-----------------------------------------------------------------------------
(* The truth on its way to the page.                                       *)

\* Until its answer is there the page knows nothing of a change it waits for.
LEMMA TruthCommitted ==
    ASSUME PageInv, PageInv', EffectInv, OneAtATime, AllTrue, Unnoticed,
           NEW r \in Request, AwaitedCommit(r)
    PROVE  AllTrue'
<1>1. /\ IInv /\ TypeOK /\ TypeOK' /\ waiting' = waiting /\ waiting[r] # "no"
      /\ pc[r] = "write" /\ call'[r] = call[r]
  BY AwaitedStep
     DEF PageInv, IInv, Unnoticed, AwaitedCommit, CommitCreate, CommitUpdate,
         CommitDelete, CommitMode
<1>2. \A q \in Request : waiting'[q] # "no" => q = r
  BY <1>1 DEF OneAtATime
<1>3. session'[r].durable
  <2>1. \E id : Committed(r, id)
    BY DEF AwaitedCommit, CommitCreate, CommitUpdate, CommitDelete, CommitMode
  <2> QED
    BY <1>1, <2>1, AfterTheCommit
<1>4. ShowsTheTruth'
  BY <1>1, <1>3 DEF ShowsTheTruth
<1>5. ~Selected(r)'
  <2>1. answer[r].status = 0
    BY <1>1 DEF EffectInv, Rendering
  <2>2. ~Selected(r)
    BY <1>1, <2>1 DEF Selected
  <2> QED
    BY <1>1, <2>2, AwaitedStep DEF SelectLinks
<1>6. HoldsTheRow(r)'
  <2> SUFFICES ASSUME call[r].op = "update", session'[r].found # {}
               PROVE  \A d \in docLinks' : d.id = Loaded(r)'.id =>
                         d.attrs = Merge(Loaded(r)'.attrs, call[r].changes)
    BY <1>1, <1>3 DEF HoldsTheRow
  <2>1. CommitUpdate(r)
    BY DEF AwaitedCommit, CommitCreate, CommitDelete, CommitMode
  <2>2. Loaded(r) \in docLinks
    <3>1. session[r].found # {} /\ ~session[r].durable
      BY <1>1 DEF IInv, Bookkeeping
    <3> QED
      BY <1>1, <3>1 DEF AllTrue, HoldsTheRow
  <2>3. /\ session'[r].found = session[r].found
        /\ \A e \in docLinks' : e.id = Loaded(r).id =>
              e.attrs = Merge(Loaded(r).attrs, call[r].changes)
    BY <1>1, <2>1, <2>2, EditHoldsItsRow
  <2>4. Loaded(r)' = Loaded(r)
    BY <2>3 DEF Loaded
  <2> QED
    BY <2>3, <2>4
<1>7. \A q \in Request : HoldsTheRow(q)' /\ BringsTheTruth(q)'
  BY <1>2, <1>5, <1>6 DEF HoldsTheRow, BringsTheTruth
<1> QED
  BY <1>4, <1>7 DEF AllTrue

\* What a request of the page has found is the visitor's.
LEMMA FoundIsTheVisitors ==
    ASSUME PageInv, NEW q \in Request, waiting[q] # "no", session[q].found # {}
    PROVE  /\ Loaded(q) \in Row /\ Loaded(q).user_id = Visitor
           /\ Loaded(q).id = call[q].id /\ call[q].user = Visitor
<1>1. /\ Loaded(q) \in session[q].found /\ TypeOK /\ Bookkeeping(q)
      /\ WaitsForItsOwn(q)
  BY LoadedIsFound DEF PageInv, IInv
<1>2. /\ Loaded(q) \in Row /\ Loaded(q).id = call[q].id
      /\ Loaded(q).user_id = call[q].user
  BY <1>1 DEF TypeOK, Bookkeeping
<1> QED
  BY <1>1, <1>2, ConstantsAssumption DEF WaitsForItsOwn, Row

\* An edited row and its object do not come apart meanwhile.
LEMMA RowIsHeld ==
    ASSUME PageInv, PageInv', Unnoticed, NEW q \in Request, HoldsTheRow(q),
           \A d : d.user_id = Visitor => (d \in docLinks' <=> d \in docLinks),
           ~AwaitedCommit(q)
    PROVE  HoldsTheRow(q)'
<1> SUFFICES ASSUME waiting[q] # "no", call[q].op = "update",
                    session'[q].found # {}
             PROVE  HoldsTheRow(q)'
  BY AwaitedStep DEF HoldsTheRow, Unnoticed
<1>1. /\ IInv /\ TypeOK /\ TypeOK' /\ call'[q] = call[q] /\ waiting'[q] # "no"
      /\ session'[q] = session[q] \/ SelectOwned(q)
  BY AwaitedStep DEF PageInv, IInv, Unnoticed
<1>2. CASE SelectOwned(q)
  <2>1. /\ session'[q].found \subseteq docLinks' /\ ~session'[q].durable
    BY <1>1, <1>2
       DEF SelectOwned, GetOwnedDocLink, IInv, TypeOK, Bookkeeping, tables
  <2>2. Loaded(q)' \in session'[q].found
    BY DEF Loaded
  <2> QED
    BY <2>1, <2>2 DEF HoldsTheRow
<1>3. CASE session'[q] = session[q]
  <2>1. Loaded(q)' = Loaded(q) /\ session[q].found # {}
    BY <1>3 DEF Loaded
  <2>2. Loaded(q).user_id = Visitor /\ Loaded(q).id = call[q].id
        /\ call[q].user = Visitor
    BY <2>1, FoundIsTheVisitors
  <2>3. \A d \in docLinks' : d.id = Loaded(q).id => d.user_id = Visitor
    <3>1. Knowledge(q)'
      BY DEF PageInv, IInv
    <3> QED
      BY <1>1, <1>3, <2>1, <2>2, <3>1 DEF Knowledge
  <2>4. CASE session[q].durable
    <3>1. \A d \in docLinks : d.id = Loaded(q).id =>
             d.attrs = Merge(Loaded(q).attrs, call[q].changes)
      BY <2>1, <2>4 DEF HoldsTheRow
    <3>2. \A d \in docLinks' : d.id = Loaded(q).id =>
             d.attrs = Merge(Loaded(q).attrs, call[q].changes)
      BY <2>3, <3>1
    <3> QED
      BY <1>1, <1>3, <2>1, <2>4, <3>2 DEF HoldsTheRow
  <2>5. CASE ~session[q].durable
    <3>1. Loaded(q) \in docLinks'
      BY <2>1, <2>2, <2>5 DEF HoldsTheRow
    <3> QED
      BY <1>3, <2>1, <2>5, <3>1 DEF HoldsTheRow
  <2> QED
    BY <2>4, <2>5
<1> QED
  BY <1>1, <1>2, <1>3

\* The list that is selected for the page is what is stored, also for an edit,
\* whose object is shown in its row's place.
LEMMA ListIsTrue ==
    ASSUME PageInv, PageInv', EffectInv, NEW q \in Request, waiting[q] # "no",
           HoldsTheRow(q), SelectLinks(q)
    PROVE  answer'[q].entries = Current /\ answer'[q].status # 200
<1>1. /\ IInv /\ TypeOK /\ WaitsForItsOwn(q) /\ pc[q] = "links"
      /\ call[q].surface # "json"
  BY DEF PageInv, IInv, SelectLinks, WaitsForItsOwn
<1>2. call[q].user = Visitor
  BY <1>1, ConstantsAssumption DEF IInv, Bookkeeping, InFlight, WaitsForItsOwn
<1>3. \A d \in ListForUser(Visitor) : Shown(q, d) = d.attrs
  <2> SUFFICES ASSUME NEW d \in docLinks, call[q].op = "update",
                      session[q].found # {}, d.id = Loaded(q).id
               PROVE  Merge(Loaded(q).attrs, call[q].changes) = d.attrs
    BY DEF Shown, ListForUser
  <2>1. session[q].durable
    BY <1>1 DEF EffectInv, DurableInv, RendersWhatIsDurable
  <2> QED
    BY <2>1 DEF HoldsTheRow
<1> DEFINE lines == {[row |-> d, shown |-> Shown(q, d)] :
                        d \in ListForUser(call[q].user)}
<1>4. lines = Current
  BY <1>2, <1>3 DEF Current
<1>5. answer' = [answer EXCEPT ![q].entries = lines,
                               ![q].status = answer[q].status]
  BY <1>1 DEF SelectLinks
<1>6. answer[q].status = 0
  BY <1>1 DEF EffectInv, Rendering
<1> HIDE DEF lines
<1> QED
  BY <1>1, <1>4, <1>5, <1>6 DEF TypeOK

\* What others do to their rows, and the page's requests until their COMMIT
\* and after it, leaves the truth where it is.
LEMMA TruthUnnoticed ==
    ASSUME PageInv, PageInv', EffectInv, OneAtATime, AllTrue, Unnoticed,
           Visitor \in hostUsers', [Next]_vars,
           \A r \in Request : ~AwaitedCommit(r)
    PROVE  AllTrue'
<1>1. /\ \A d : d.user_id = Visitor => (d \in docLinks' <=> d \in docLinks)
      /\ Current' = Current
      /\ GetViewMode(Visitor)' = GetViewMode(Visitor)
  BY TruthStays DEF PageInv
<1>2. page' = page /\ waiting' = waiting
  BY DEF Unnoticed
<1>3. ShowsTheTruth'
  <2> SUFFICES ASSUME page.open,
                      \A r \in Request :
                         waiting[r] # "no" => ~session'[r].durable
               PROVE  page.entries = Current /\ page.mode = GetViewMode(Visitor)
    BY <1>1, <1>2 DEF ShowsTheTruth
  <2>1. \A r \in Request : waiting[r] # "no" => ~session[r].durable
    BY AwaitedStep
  <2> QED
    BY <2>1 DEF AllTrue, ShowsTheTruth
<1>4. ASSUME NEW q \in Request PROVE HoldsTheRow(q)'
  BY <1>1, RowIsHeld DEF AllTrue
<1>5. ASSUME NEW q \in Request PROVE BringsTheTruth(q)'
  <2> SUFFICES ASSUME waiting[q] # "no", Selected(q)'
               PROVE  /\ answer'[q].entries = Current
                      /\ answer'[q].status = 200 =>
                            answer'[q].mode = GetViewMode(Visitor)
    BY <1>1, <1>2 DEF BringsTheTruth
  <2>1. CASE SelectLinks(q)
    BY <2>1, ListIsTrue DEF AllTrue
  <2>2. CASE Selected(q) /\ answer'[q].entries = answer[q].entries
    <3>1. /\ answer[q].entries = Current
          /\ answer[q].status = 200 => answer[q].mode = GetViewMode(Visitor)
      BY <2>2 DEF AllTrue, BringsTheTruth
    <3>2. ASSUME SelectMode(q) PROVE answer'[q].mode = GetViewMode(Visitor)
      <4>1. call[q].user = Visitor
        BY <3>2, ConstantsAssumption
           DEF SelectMode, PageInv, IInv, Bookkeeping, InFlight, WaitsForItsOwn
      <4> QED
        BY <3>2, <4>1 DEF SelectMode, PageInv, IInv, TypeOK
    <3> QED
      BY <2>2, <3>1, <3>2, AwaitedStep
  <2> QED
    BY <2>1, <2>2, AwaitedStep
<1> QED
  BY <1>3, <1>4, <1>5 DEF AllTrue

\* A request that was just sent brings nothing yet.
LEMMA TruthSent ==
    ASSUME PageInv, PageInv', AllTrue, Alone,
           NEW r \in Request, NEW c \in Calls, NEW j \in Waits, Sent(r, c, j)
    PROVE  AllTrue'
<1>1. IInv /\ TypeOK /\ TypeOK' /\ waiting \in [Request -> Waits]
  BY DEF PageInv, IInv, PageTypeOK
<1>2. /\ UNCHANGED tables /\ session' = session /\ page' = page
      /\ \A q \in Request : q # r => waiting'[q] = "no"
  BY <1>1 DEF Sent, Receive, Alone
<1>3. session'[r] = NewSession /\ ~Selected(r)'
  BY <1>1, <1>2, JustSent DEF Sent, Receive, IInv, Bookkeeping
<1>4. UNCHANGED <<Current, GetViewMode(Visitor)>>
  BY <1>2 DEF tables, Current, ListForUser, GetViewMode
<1>5. ShowsTheTruth'
  BY <1>2, <1>4 DEF AllTrue, ShowsTheTruth, Alone
<1>6. \A q \in Request : HoldsTheRow(q)' /\ BringsTheTruth(q)'
  BY <1>2, <1>3 DEF HoldsTheRow, BringsTheTruth, NewSession
<1> QED
  BY <1>5, <1>6 DEF AllTrue

\* A success shows what was selected last; a refusal has changed nothing.
LEMMA TruthArrives ==
    ASSUME PageInv, CalmInv, OneAtATime, AllTrue, Alone',
           NEW r \in Request, waiting[r] # "no",
           \/ Swap(r) \/ Load(r)
           \/ Dropped(r) /\ (pc[r] = "lost" \/ answer[r].status # 200)
    PROVE  AllTrue'
<1>1. \A q \in Request : HoldsTheRow(q)' /\ BringsTheTruth(q)'
  BY DEF Alone, HoldsTheRow, BringsTheTruth
<1>2. UNCHANGED tables /\ pc[r] \in {"answered", "lost"}
  BY DEF Swap, Load, Dropped, Close
<1>3. UNCHANGED <<Current, GetViewMode(Visitor)>>
  BY <1>2 DEF tables, Current, ListForUser, GetViewMode
<1>4. CASE page' = Shows(r) /\ answer[r].status = 200
  <2>1. answer[r].entries = Current /\ answer[r].mode = GetViewMode(Visitor)
    BY <1>4 DEF AllTrue, BringsTheTruth, Selected
  <2>2. ShowsTheTruth'
    BY <1>3, <1>4, <2>1 DEF ShowsTheTruth, Shows
  <2> QED
    BY <1>1, <2>2 DEF AllTrue
<1>5. CASE ~page'.open
  BY <1>1, <1>5 DEF AllTrue, ShowsTheTruth
<1>6. CASE Dropped(r) /\ (pc[r] = "lost" \/ answer[r].status # 200)
  <2>1. ~session[r].durable
    BY <1>2, <1>6 DEF CalmInv, EndsWell, PageInv, WaitsForItsOwn
  <2>2. \A q \in Request : waiting[q] # "no" => ~session[q].durable
    BY <2>1 DEF OneAtATime
  <2>3. page' = page
    BY <1>6 DEF Dropped
  <2>4. ShowsTheTruth'
    BY <1>3, <2>2, <2>3 DEF AllTrue, ShowsTheTruth
  <2> QED
    BY <1>1, <2>4 DEF AllTrue
<1> QED
  BY <1>4, <1>5, <1>6 DEF Swap, Load, NewDocument

\* Every step of a patient page.
LEMMA TruthStep ==
    ASSUME Patient, QuietElsewhere, PageInv, PageInv', FormInv, CalmInv,
           EffectInv, TruthInv, [PageNext]_allVars
    PROVE  TruthInv'
<1>1. OneAtATime /\ IInv /\ [Next]_vars
  BY PageStepIsStep DEF TruthInv, PageInv
<1>2. OneAtATime'
  BY <1>1, PatientStepKinds
<1>3. ASSUME Visitor \in hostUsers' PROVE AllTrue'
  <2>1. AllTrue
    <3>1. hostUsers' \subseteq hostUsers
      BY <1>1, TableSteps
         DEF tables, CommitCreate, CommitUpdate, CommitDelete, CommitMode,
             DeleteAccount
    <3> QED
      BY <1>3, <3>1 DEF TruthInv, AllTrue
  <2>2. CASE Unnoticed
    BY <1>1, <1>3, <2>1, <2>2, TruthCommitted, TruthUnnoticed
  <2>3. CASE ~Unnoticed
    BY <1>1, <2>1, <2>3, PatientStepKinds, TruthSent, TruthArrives
  <2> QED
    BY <2>2, <2>3
<1> QED
  BY <1>2, <1>3 DEF TruthInv, AllTrue

\* The inductive invariant: a patient visitor's page has one request at a time,
\* and it brings what is stored.
THEOREM TruthInvariance ==
    ASSUME ~Faults, Patient, QuietElsewhere
    PROVE  PageSpec => []TruthInv
<1>1. PageInit => TruthInv
  <2> SUFFICES ASSUME PageInit PROVE TruthInv
    OBVIOUS
  <2>1. Init /\ \A r \in Request : waiting[r] = "no" /\ pc[r] = "idle"
    BY DEF PageInit, Init
  <2>2. OneAtATime
    BY <2>1 DEF PageInit, OneAtATime
  <2>3. page.entries = Current /\ page.mode = GetViewMode(Visitor)
    BY <2>1 DEF PageInit, Init, Current, GetViewMode
  <2> QED
    BY <2>1, <2>2, <2>3
       DEF TruthInv, AllTrue, ShowsTheTruth, HoldsTheRow, BringsTheTruth
<1>2. PageInv /\ PageInv' /\ FormInv /\ CalmInv /\ EffectInv /\ TruthInv
        /\ [PageNext]_allVars => TruthInv'
  BY TruthStep
<1> QED
  BY <1>1, <1>2, PageInvariance, FormInvariance, PageIsAClient,
     CalmInvariance, EffectInvariance, PTL DEF PageSpec

\* Where no connection breaks and no instance is killed, a visitor who waits
\* for one answer before using another element, and changes nothing elsewhere,
\* finds on the page what is stored whenever nothing is under way - whatever
\* other users and the Host do meanwhile, and however often a button is clicked.
THEOREM PageTellsTheTruth ==
    ASSUME ~Faults, Patient, QuietElsewhere
    PROVE  PageSpec => []PageIsTrue
<1>1. TruthInv => PageIsTrue
  BY DEF TruthInv, AllTrue, ShowsTheTruth, PageIsTrue, AtRest, Current
<1> QED
  BY <1>1, TruthInvariance, PTL

\* The add form of such a visitor does not get stuck: every answer finds the
\* target it was requested for.
THEOREM FormIsNeverDead ==
    ASSUME ~Faults, Patient, QuietElsewhere
    PROVE  PageSpec => []~stuck
<1>1. TruthInv => ~stuck
  BY DEF TruthInv, OneAtATime
<1> QED
  BY <1>1, TruthInvariance, PTL
=============================================================================
