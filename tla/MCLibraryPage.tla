--------------------------- MODULE MCLibraryPage ----------------------------
(* Constants for model-checking LibraryPage.                               *)
EXTENDS LibraryPage, MCDocLinks

\* The page adds and deletes links while they are edited elsewhere, and is
\* reloaded.
BusyPageCalls ==
    {Create("fragment", u1, Attrs(2, 1, 2)),
     Plain("fragment", "delete", u1, 1),
     Plain("fragment", "delete", Nobody, 1),
     Plain("page", "list", u1, NoLink),
     Edit("json", u1, 1, "title" :> 2)}

\* Everything a visitor can do, each in one way, with a draft and an edit that
\* the schema refuses.
OnePageCalls ==
    {Create("fragment", u1, Attrs(2, 1, 2)),
     MakeCall("fragment", "create", u1, NoLink, Attrs(2, 2, 2), "list",
              "invalid"),
     Create("fragment", Nobody, Attrs(2, 2, 1)),
     Edit("fragment", u1, 1, Attrs(1, 1, 2)),
     MakeCall("fragment", "update", u1, 1, Attrs(1, 2, 2), "list", "invalid"),
     Plain("fragment", "delete", u1, 1),
     Mode("fragment", u1, "list"),
     Mode("fragment", u1, "tiles"),
     Plain("page", "list", u1, NoLink)}

\* They are as the theorems about AddedOnce and PageIsTrue have them.
ASSUME OnePageAssumption ==
    Calls = OnePageCalls => TellsDrafts("title") /\ QuietElsewhere

\* The add form and a view button.
OverlappingCalls ==
    {Create("fragment", u1, Attrs(2, 1, 2)),
     Mode("fragment", u1, "tiles")}
=============================================================================
