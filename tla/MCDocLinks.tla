----------------------------- MODULE MCDocLinks -----------------------------
(* Constants for model-checking DocLinks.                                  *)
EXTENDS DocLinks, TLC

CONSTANTS u1, u2, r1, r2

MCUser == {u1, u2}
MCRequest == {r1, r2}
MCLeavers == {u1}

RequestSymmetry == Permutations(MCRequest)

Attrs(t, u, k) == [title |-> t, url |-> u, category |-> k]
Link(i, u, attrs) == [id |-> i, user_id |-> u, attrs |-> attrs]

MakeCall(surface, op, user, id, changes, mode, body) ==
    [surface |-> surface, op |-> op, user |-> user, id |-> id,
     changes |-> changes, mode |-> mode, body |-> body]

NoChanges == [c \in {} |-> 0]
Plain(surface, op, user, id) ==
    MakeCall(surface, op, user, id, NoChanges, "list", "ok")
Edit(surface, user, id, changes) ==
    MakeCall(surface, "update", user, id, changes, "list", "ok")
Create(surface, user, attrs) ==
    MakeCall(surface, "create", user, NoLink, attrs, "list", "ok")
Mode(surface, user, mode) ==
    MakeCall(surface, "setMode", user, NoLink, NoChanges, mode, "ok")

\* u1 owns the links 1 and 2.
SeedTwoLinks ==
    {{Link(1, u1, Attrs(1, 1, 1)), Link(2, u1, Attrs(1, 1, 2))}}

\* u1 owns link 1.
SeedOneLink == {{Link(1, u1, Attrs(1, 1, 1))}}
SeedSomeLinks == SeedOneLink \cup {{}}

\* Edits of one link through both surfaces, with overlapping columns, against
\* its deletion and a call of another user on it.
EditCalls ==
    {Edit("json", u1, 1, "title" :> 2),
     Edit("json", u1, 1, "title" :> 1 @@ "category" :> 2),
     Edit("fragment", u1, 1, Attrs(2, 1, 2)),
     Edit("json", u2, 1, "title" :> 2),
     Plain("json", "delete", u1, 1),
     Plain("fragment", "delete", u1, 1)}

\* Those, and creates and view-mode writes of an account that may be deleted,
\* the reads, and the calls that are turned away.
RequestCalls == EditCalls \cup
    {Create("json", u1, Attrs(1, 1, 1)),
     Create("fragment", u1, Attrs(2, 1, 2)),
     Mode("json", u1, "list"),
     Mode("fragment", u1, "tiles"),
     Plain("json", "list", u1, NoLink),
     Plain("page", "list", u1, NoLink),
     Plain("page", "list", Nobody, NoLink),
     Plain("json", "delete", Nobody, 1),
     MakeCall("json", "update", Nobody, 1, NoChanges, "list", "malformed"),
     MakeCall("json", "update", u1, 1, NoChanges, "list", "invalid"),
     MakeCall("fragment", "update", u1, 1, Attrs(1, 1, 1), "list", "invalid")}

\* u1 owns three links of three categories; the middle one is edited twice.
SeedThreeCategories ==
    {{Link(1, u1, Attrs(1, 1, 1)), Link(2, u1, Attrs(1, 1, 2)),
      Link(3, u1, Attrs(1, 1, 3))}}

RegroupCalls ==
    {Edit("fragment", u1, 3, Attrs(1, 1, 1)),
     Edit("json", u1, 3, "category" :> 3),
     Edit("json", u1, 2, "title" :> 2)}
=============================================================================
