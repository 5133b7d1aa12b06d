---------------------------- MODULE LinkSchemas -----------------------------
(***************************************************************************)
(* What a payload goes through between a client and a row of doc_links,    *)
(* and back: FastAPI's form parsing, the schemas of                        *)
(* app/schemas/doc_link.py, the text columns, and DocLinkResponse, which   *)
(* validates every row again that the JSON API sends.                      *)
(*                                                                         *)
(* A title or category is a sequence of classes of characters: "a" for     *)
(* visible ones, " " for what strip() removes, "0" for NUL.  A URL is a    *)
(* sequence of tokens: a scheme, "//", "h" for characters of a host name,  *)
(* ":80", "/p" for where the path begins, " " and "\t".                    *)
(***************************************************************************)
EXTENDS Naturals, Sequences, FiniteSetsExt

CONSTANTS
    MaxLength,  \* the longest text each column accepts
    Payloads,   \* what clients submit: a value, or Null, for some columns
    Null,
    NoLink,
    NoCall

Column == {"title", "url", "category"}

\* A value that is submitted is null or a text.
ASSUME SchemasAssumption ==
    /\ MaxLength \in [Column -> Nat \ {0}]
    /\ \A p \in Payloads :
          /\ DOMAIN p \subseteq Column
          /\ \A c \in DOMAIN p : p[c] = Null \/ p[c] \in Seq(STRING)
    /\ Null \notin Seq(STRING)

VARIABLES
    link,   \* the attributes of the one link, or NoLink
    asked,  \* the call under way, or NoCall
    reply   \* its status once it is known, and the attributes a JSON answer shows

vars == <<link, asked, reply>>

-----------------------------------------------------------------------------
(* The validators.                                                         *)

Visible(s) == {i \in DOMAIN s : s[i] # " "}

Strip(s) ==
    IF Visible(s) = {} THEN <<>>
    ELSE SubSeq(s, Min(Visible(s)), Max(Visible(s)))

\* What urlparse reads of a text: it drops tabs, and blanks and control
\* characters at the start.
Read(u) ==
    {i \in DOMAIN u :
        u[i] # "\t" /\ \E j \in 1..i : u[j] \notin {" ", "\t", "0"}}

\* The scheme is http or https, and the netloc is not empty.
ValidateUrl(u) ==
    \E i, j, k \in Read(u) :
        /\ i < j /\ j < k /\ \A n \in Read(u) : n \in {i, j} \/ n >= k
        /\ u[i] = "http:" /\ u[j] = "//" /\ u[k] # "/p"

ValidateNonEmpty(s) == Strip(s) # <<>>

\* Lengths are those of the text as submitted.
FieldLimits(c, v) ==
    /\ Len(v) <= MaxLength[c]
    /\ c # "url" => Len(v) >= 1

FieldValid(c, v) ==
    /\ v # Null
    /\ FieldLimits(c, v)
    /\ IF c = "url" THEN ValidateUrl(v) ELSE ValidateNonEmpty(v)

DocLinkBase(p) == DOMAIN p = Column /\ \A c \in Column : FieldValid(c, p[c])

DocLinkUpdate_NullIsUnset(p) ==
    \A c \in DOMAIN p : p[c] = Null \/ FieldValid(c, p[c])

DocLinkUpdate(p) == \A c \in DOMAIN p : FieldValid(c, p[c])

\* What a validator returns.
Returned(c, v) == IF c = "url" \/ v = Null THEN v ELSE Strip(v)

Dumped_AsSubmitted(p) == p

\* model_dump(exclude_unset=True).
Dumped(p) == [c \in DOMAIN p |-> Returned(c, p[c])]

\* DocLinkResponse of a row it accepts.
Response(attrs) == [c \in Column |-> Returned(c, attrs[c])]

FormAccepts_Trims(p) ==
    DocLinkBase([c \in DOMAIN p |-> IF p[c] = Null THEN Null ELSE Strip(p[c])])

\* Form(): a field that is missing or empty is refused before the schema.  The
\* handler of the edit form has three required fields too.
FormAccepts(p) ==
    /\ DOMAIN p = Column
    /\ \A c \in Column : p[c] # Null /\ p[c] # <<>>
    /\ DocLinkUpdate(p)

\* Postgres has no text with a NUL in it.
Storable(attrs) ==
    \A c \in DOMAIN attrs : attrs[c] = Null \/
        \A i \in DOMAIN attrs[c] : attrs[c][i] # "0"

-----------------------------------------------------------------------------
Texts == UNION {{p[c] : c \in DOMAIN p} : p \in Payloads}

Shown == [Column -> {Strip(t) : t \in Texts \ {Null}} \cup (Texts \ {Null})]

Call == [surface : {"json", "fragment"},
         op : {"list", "create", "update", "delete"},
         payload : Payloads \cup {<<>>}]
NoReply == [status |-> 0, shown |-> NoLink]

TypeOK ==
    /\ link \in Shown \cup {NoLink}
    /\ asked \in Call \cup {NoCall}
    /\ reply.status \in {0, 200, 201, 204, 422, 500}
    /\ reply.shown \in Shown \cup {NoLink}

Init == link = NoLink /\ asked = NoCall /\ reply = NoReply

\* A client calls; a link is there to be changed or listed, or not yet.
Ask(c) ==
    /\ asked = NoCall
    /\ c.op = "create" <=> link = NoLink
    /\ asked' = c
    /\ UNCHANGED <<link, reply>>

Handles(op) == asked # NoCall /\ reply = NoReply /\ asked.op = op

Replies(status, shown) ==
    /\ reply' = [status |-> status, shown |-> shown]
    /\ UNCHANGED asked

Refuse(status) == Replies(status, NoLink) /\ UNCHANGED link

\* A JSON answer is validated by DocLinkResponse, and shows what its
\* validators return; a row that it refuses makes the answer a 500.
Answer(status, attrs) ==
    IF asked.surface = "fragment" THEN Replies(200, NoLink)
    ELSE IF DocLinkBase(attrs) THEN Replies(status, Response(attrs))
    ELSE Replies(500, NoLink)

Accepts(surface, op, p) ==
    IF surface = "fragment" THEN FormAccepts(p)
    ELSE IF op = "create" THEN DocLinkBase(p)
    ELSE DocLinkUpdate(p)

Write(status, attrs) ==
    IF ~Accepts(asked.surface, asked.op, asked.payload) THEN Refuse(422)
    ELSE IF ~Storable(attrs) THEN Refuse(500)
    ELSE link' = attrs /\ Answer(status, attrs)

Create == Handles("create") /\ Write(201, Dumped(asked.payload))

\* The form's handler finds the link before it validates, the JSON API's
\* after; either way a payload that is refused is answered 422.
Update ==
    /\ Handles("update")
    /\ Write(200, [c \in Column |->
                     IF c \in DOMAIN asked.payload
                     THEN Dumped(asked.payload)[c] ELSE link[c]])

Delete == Handles("delete") /\ link' = NoLink /\ Replies(204, NoLink)

\* GET /api/v1/doc-links.
List == Handles("list") /\ Answer(200, link) /\ UNCHANGED link

Done ==
    /\ reply # NoReply
    /\ asked' = NoCall /\ reply' = NoReply
    /\ UNCHANGED link

Next ==
    \/ \E s \in {"json", "fragment"}, op \in {"create", "update"},
          p \in Payloads : Ask([surface |-> s, op |-> op, payload |-> p])
    \/ \E op \in {"list", "delete"} :
          Ask([surface |-> "json", op |-> op, payload |-> <<>>])
    \/ Create \/ Update \/ Delete \/ List \/ Done

Spec == Init /\ [][Next]_vars

-----------------------------------------------------------------------------
(* What must hold.                                                         *)

\* Whatever was accepted, through either surface and in any order of partial
\* updates, is accepted again on its way out: one link that DocLinkResponse
\* refuses would turn every list of its owner into a server error.
StoredReadsBack == link # NoLink => DocLinkBase(link)

\* The JSON API shows what is stored: validating a row again does not change
\* it, so a client that sends back what it was shown changes nothing.
ShownIsStored == reply.shown # NoLink => reply.shown = link

\* The two surfaces accept the same complete payloads, although one treats an
\* empty field as missing and the other as too short.
SurfacesAgree ==
    asked # NoCall /\ asked.op \in {"create", "update"}
      /\ DOMAIN asked.payload = Column =>
        (Accepts("json", asked.op, asked.payload)
            <=> Accepts("fragment", asked.op, asked.payload))
=============================================================================
