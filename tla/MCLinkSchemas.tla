---------------------------- MODULE MCLinkSchemas ---------------------------
(* Constants for model-checking LinkSchemas.                               *)
EXTENDS LinkSchemas, SequencesExt

SmallLimits == [title |-> 2, url |-> 5, category |-> 1]

\* Every text around the limits: empty, blank, padded, too long only because
\* of its padding, too long, and with a NUL.
Titles == BoundedSeq({"a", " "}, 3) \cup {<<"0">>, <<"a", "0">>, Null}
Categories == BoundedSeq({"a", " "}, 2) \cup {Null}

Urls ==
    {<<>>, Null,
     <<"http:", "//", "h">>,
     <<" ", "http:", "\t", "//", "h">>,
     <<"0", "http:", "//", "h">>,
     <<"http:", "//", ":80">>,
     <<"http:", "//", "/p">>,
     <<"http:", "//", " ">>,
     <<"http:", "h">>,
     <<"ftp:", "//", "h">>,
     <<"http:", "//", "h", "/p", " ">>,
     <<"http:", "//", "h", "/p", "h", "h">>}

\* Complete payloads, and those that submit one column or none.
MCPayloads ==
    {[title |-> t, url |-> u, category |-> c] :
        t \in Titles, u \in Urls, c \in Categories}
    \cup {[title |-> t] : t \in Titles}
    \cup {[url |-> u] : u \in Urls}
    \cup {[category |-> c] : c \in Categories}
    \cup {<<>>}
=============================================================================
