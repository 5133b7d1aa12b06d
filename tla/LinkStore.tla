----------------------------- MODULE LinkStore ------------------------------
(***************************************************************************)
(* What the doc-library service promises of its writes, with no sessions,  *)
(* statements or ORM: every call takes effect at most once and at a single *)
(* moment, on its caller's own link or preference only, and the answer     *)
(* says whether it did.                                                    *)
(***************************************************************************)
CONSTANTS User, LinkId, Request, Column, Value, ViewMode, Calls, Leavers,
          Nobody, NoLink, NoCall

VARIABLES
    accounts,  \* users that exist
    links,     \* every user's links
    modes,     \* the view modes users have chosen
    issued,    \* link ids used so far
    stage,     \* how far a call has come
    call,      \* what was asked
    took,      \* whether it has taken effect
    verdict    \* what the client is told

store == <<accounts, links, modes, issued>>
vars == <<accounts, links, modes, issued, stage, call, took, verdict>>

Verdict == {"none", "done", "refused", "failed"}

Init ==
    /\ accounts = User
    /\ links \in SUBSET [id : LinkId, user_id : User,
                         attrs : [Column -> Value]]
    /\ modes = {}
    /\ issued = {d.id : d \in links}
    /\ stage = [r \in Request |-> "idle"]
    /\ call = [r \in Request |-> NoCall]
    /\ took = [r \in Request |-> FALSE]
    /\ verdict = [r \in Request |-> "none"]

Conclude(r, v) ==
    /\ stage' = [stage EXCEPT ![r] = "over"]
    /\ verdict' = [verdict EXCEPT ![r] = v]

\* A call is let in, or refused at once.
Open(r) ==
    /\ stage[r] = "idle"
    /\ \E c \in Calls :
        /\ call' = [call EXCEPT ![r] = c]
        /\ \/ stage' = [stage EXCEPT ![r] = "open"] /\ UNCHANGED verdict
           \/ Conclude(r, "refused")
    /\ UNCHANGED <<store, took>>

Create(c) ==
    /\ c.op = "create" /\ c.user \in accounts
    /\ \E i \in LinkId \ issued :
        /\ links' = links \cup {[id |-> i, user_id |-> c.user,
                                 attrs |-> c.changes]}
        /\ issued' = issued \cup {i}
    /\ UNCHANGED <<accounts, modes>>

\* Submitted columns, and no others, take the submitted values.  Those that
\* the caller found to hold them already may be left alone.
Update(c) ==
    /\ c.op = "update"
    /\ \/ UNCHANGED links
       \/ \E d \in links, dirty \in SUBSET DOMAIN c.changes :
            /\ d.id = c.id /\ d.user_id = c.user
            /\ links' = (links \ {d}) \cup
                  {[id |-> d.id, user_id |-> d.user_id,
                    attrs |-> [k \in Column |->
                        IF k \in dirty THEN c.changes[k] ELSE d.attrs[k]]]}
    /\ UNCHANGED <<accounts, modes, issued>>

Delete(c) ==
    /\ c.op = "delete"
    /\ links' = {d \in links : ~(d.id = c.id /\ d.user_id = c.user)}
    /\ UNCHANGED <<accounts, modes, issued>>

SetMode(c) ==
    /\ c.op = "setMode" /\ c.user \in accounts
    /\ modes' = {p \in modes : p.user_id # c.user}
                  \cup {[user_id |-> c.user, view_mode |-> c.mode]}
    /\ UNCHANGED <<accounts, links, issued>>

\* The single moment at which a call changes the store.
TakeEffect(r) ==
    /\ stage[r] = "open" /\ ~took[r]
    /\ \/ Create(call[r]) \/ Update(call[r])
       \/ Delete(call[r]) \/ SetMode(call[r])
    /\ took' = [took EXCEPT ![r] = TRUE]
    /\ \/ UNCHANGED <<stage, verdict>>
       \/ \E v \in {"done", "failed"} : Conclude(r, v)
    /\ UNCHANGED call

\* A refusal means no effect, success means the effect took place; only a
\* failed call leaves its client in doubt.
Finish(r) ==
    /\ stage[r] = "open"
    /\ \/ Conclude(r, "refused") /\ ~took[r]
       \/ Conclude(r, "done") /\ (took[r] \/ call[r].op = "list")
       \/ Conclude(r, "failed")
    /\ UNCHANGED <<store, call, took>>

Release(r) ==
    /\ stage[r] = "over"
    /\ stage' = [stage EXCEPT ![r] = "idle"]
    /\ call' = [call EXCEPT ![r] = NoCall]
    /\ took' = [took EXCEPT ![r] = FALSE]
    /\ verdict' = [verdict EXCEPT ![r] = "none"]
    /\ UNCHANGED store

RemoveAccount(u) ==
    /\ u \in accounts
    /\ accounts' = accounts \ {u}
    /\ links' = {d \in links : d.user_id # u}
    /\ modes' = {p \in modes : p.user_id # u}
    /\ UNCHANGED <<issued, stage, call, took, verdict>>

Next ==
    \/ \E r \in Request : Open(r) \/ TakeEffect(r) \/ Finish(r) \/ Release(r)
    \/ \E u \in Leavers : RemoveAccount(u)

Spec == Init /\ [][Next]_vars
=============================================================================
