------------------------- MODULE LinkSchemasProofs --------------------------
(* Theorems about LinkSchemas: whatever texts clients submit, whatever the *)
(* limits of the columns, in any order of creates and partial updates.     *)
EXTENDS LinkSchemas, SequenceTheorems, FiniteSetTheorems, WellFoundedInduction,
        TLAPS

-----------------------------------------------------------------------------
(* Stripping a text.                                                       *)

\* A set of numbers has a least element.
LEMMA HasLeast ==
    ASSUME NEW S \in SUBSET Nat, S # {}
    PROVE  Min(S) \in S /\ \A y \in S : Min(S) <= y
<1> DEFINE T == {0..x : x \in S}
<1>1. T # {} /\ T \subseteq FiniteSubsetsOf(Nat)
  <2>1. ASSUME NEW x \in S PROVE 0..x \in FiniteSubsetsOf(Nat)
    <3>1. IsFiniteSet(0..x)
      BY FS_Interval
    <3>2. 0..x \subseteq Nat
      OBVIOUS
    <3> QED
      BY <3>1, <3>2 DEF FiniteSubsetsOf
  <2> QED
    BY <2>1
<1>2. PICK t \in T : \A u \in T : <<u, t>> \notin StrictSubsetOrdering(Nat)
  <2> HIDE DEF T
  <2> QED
    BY <1>1, WFMin, FS_StrictSubsetOrderingWellFounded
<1>3. PICK x \in S : t = 0..x
  OBVIOUS
<1>4. ASSUME NEW y \in S, y < x PROVE FALSE
  <2>1. 0..y \subseteq 0..x /\ 0..y # 0..x
    <3>1. x \in 0..x /\ x \notin 0..y
      BY <1>4
    <3> QED
      BY <1>4, <3>1
  <2>2. <<0..y, 0..x>> \in StrictSubsetOrdering(Nat)
    BY <2>1 DEF StrictSubsetOrdering
  <2> QED
    BY <1>2, <1>3, <2>2
<1>5. \A y \in S : x <= y
  BY <1>4
<1> QED
  BY <1>5 DEF Min

\* A bounded set of numbers has a greatest element.
LEMMA HasGreatest ==
    ASSUME NEW n \in Nat, NEW S \in SUBSET (0..n), S # {}
    PROVE  Max(S) \in S /\ \A y \in S : y <= Max(S)
<1> DEFINE T == {x..n : x \in S}
<1>1. T # {} /\ T \subseteq FiniteSubsetsOf(Nat)
  <2>1. ASSUME NEW x \in S PROVE x..n \in FiniteSubsetsOf(Nat)
    <3>1. IsFiniteSet(x..n)
      BY FS_Interval
    <3>2. x..n \subseteq Nat
      OBVIOUS
    <3> QED
      BY <3>1, <3>2 DEF FiniteSubsetsOf
  <2> QED
    BY <2>1
<1>2. PICK t \in T : \A u \in T : <<u, t>> \notin StrictSubsetOrdering(Nat)
  <2> HIDE DEF T
  <2> QED
    BY <1>1, WFMin, FS_StrictSubsetOrderingWellFounded
<1>3. PICK x \in S : t = x..n
  OBVIOUS
<1>4. ASSUME NEW y \in S, x < y PROVE FALSE
  <2>1. y..n \subseteq x..n /\ y..n # x..n
    <3>1. x \in x..n /\ x \notin y..n
      BY <1>4
    <3> QED
      BY <1>4, <3>1
  <2>2. <<y..n, x..n>> \in StrictSubsetOrdering(Nat)
    BY <2>1 DEF StrictSubsetOrdering
  <2> QED
    BY <1>2, <1>3, <2>2
<1>5. \A y \in S : y <= x
  BY <1>4
<1> QED
  BY <1>5 DEF Max

\* Which positions of a text are visible.
LEMMA VisibleOf ==
    ASSUME NEW s \in Seq(STRING)
    PROVE  /\ Len(s) \in Nat /\ DOMAIN s = 1..Len(s)
           /\ Visible(s) \in SUBSET Nat /\ Visible(s) \in SUBSET (0..Len(s))
           /\ \A i \in Nat : i \in Visible(s) <=> i \in 1..Len(s) /\ s[i] # " "
<1>1. Len(s) \in Nat /\ DOMAIN s = 1..Len(s)
  BY LenProperties
<1>2. \A i : i \in Visible(s) <=> i \in 1..Len(s) /\ s[i] # " "
  BY <1>1 DEF Visible
<1>3. Visible(s) \subseteq 1..Len(s)
  BY <1>2
<1>4. 1..Len(s) \subseteq Nat /\ 1..Len(s) \subseteq 0..Len(s)
  BY <1>1
<1> QED
  BY <1>1, <1>2, <1>3, <1>4

\* A part of a text is a text.
LEMMA SubText ==
    ASSUME NEW s \in Seq(STRING),
           NEW a \in 1..Len(s), NEW b \in 1..Len(s), a <= b
    PROVE  /\ SubSeq(s, a, b) \in Seq(STRING)
           /\ Len(SubSeq(s, a, b)) = b - a + 1
           /\ \A i \in 1..(b - a + 1) : SubSeq(s, a, b)[i] = s[a + i - 1]
<1>1. Len(s) \in Nat
  BY LenProperties
<1>2. \A i \in a..b : s[i] \in STRING
  <2>1. ASSUME NEW i \in 1..Len(s) PROVE s[i] \in STRING
    BY ElementOfSeq
  <2>2. a..b \subseteq 1..Len(s)
    BY <1>1
  <2> QED
    BY <2>1, <2>2
<1>3. a \in Int /\ b \in Int
  BY <1>1
<1>4. /\ SubSeq(s, a, b) \in Seq(STRING)
      /\ Len(SubSeq(s, a, b)) = IF a <= b THEN b - a + 1 ELSE 0
      /\ \A i \in 1..(b - a + 1) : SubSeq(s, a, b)[i] = s[a + i - 1]
  BY <1>2, <1>3, SubSeqProperties
<1> QED
  BY <1>4

\* A text that is not blank is stripped to one that begins and ends visibly,
\* which is no longer and is not changed by stripping it again.
LEMMA StripText ==
    ASSUME NEW s \in Seq(STRING), Visible(s) # {}
    PROVE  /\ Strip(s) \in Seq(STRING)
           /\ Len(Strip(s)) \in 1..Len(s)
           /\ Visible(Strip(s)) # {}
           /\ Strip(Strip(s)) = Strip(s)
<1> DEFINE a == Min(Visible(s))
           b == Max(Visible(s))
           t == SubSeq(s, a, b)
<1>1. a \in Visible(s) /\ b \in Visible(s) /\ a <= b
  BY VisibleOf, HasLeast, HasGreatest
<1>2. Strip(s) = t
  BY DEF Strip
<1> HIDE DEF a, b
<1>3. a \in 1..Len(s) /\ b \in 1..Len(s) /\ Len(s) \in Nat
  BY <1>1, VisibleOf
<1>4. s[a] # " " /\ s[b] # " "
  BY <1>1, VisibleOf
<1>5. /\ t \in Seq(STRING) /\ Len(t) = b - a + 1
      /\ \A i \in 1..(b - a + 1) : t[i] = s[a + i - 1]
  BY <1>1, <1>3, SubText
<1> HIDE DEF t
<1>6. 1 \in Visible(t) /\ Len(t) \in Visible(t)
  <2>1. a \in Nat /\ b \in Nat /\ 1 \in 1..(b - a + 1)
        /\ b - a + 1 \in 1..(b - a + 1)
        /\ a + 1 - 1 = a /\ a + (b - a + 1) - 1 = b
    BY <1>1, <1>3
  <2>2. t[1] = s[a] /\ t[b - a + 1] = s[b]
    BY <1>5, <2>1
  <2> QED
    BY <1>4, <1>5, <2>1, <2>2, VisibleOf
<1>7. Min(Visible(t)) = 1 /\ Max(Visible(t)) = Len(t)
  <2>1. Min(Visible(t)) <= 1 /\ Min(Visible(t)) \in Visible(t)
    BY <1>5, <1>6, VisibleOf, HasLeast
  <2>2. Max(Visible(t)) >= Len(t) /\ Max(Visible(t)) \in Visible(t)
    BY <1>5, <1>6, VisibleOf, HasGreatest
  <2>3. Visible(t) \subseteq 1..Len(t) /\ Len(t) \in Nat
    BY <1>5, VisibleOf
  <2> QED
    BY <2>1, <2>2, <2>3
<1>8. Strip(t) = t
  BY <1>5, <1>6, <1>7, SubSeqFull DEF Strip
<1>9. Len(t) \in 1..Len(s)
  BY <1>1, <1>3, <1>5
<1> QED
  BY <1>2, <1>5, <1>6, <1>8, <1>9

-----------------------------------------------------------------------------
(* The validators.                                                         *)

\* What a validator returns for a value it accepts, it accepts again and
\* returns as it is.
LEMMA ValidStaysValid ==
    ASSUME NEW c \in Column, NEW v \in Seq(STRING), FieldValid(c, v)
    PROVE  /\ Returned(c, v) \in Seq(STRING)
           /\ FieldValid(c, Returned(c, v))
           /\ Returned(c, Returned(c, v)) = Returned(c, v)
<1>1. v # Null
  BY SchemasAssumption
<1>2. CASE c = "url"
  BY <1>1, <1>2 DEF Returned
<1>3. CASE c # "url"
  <2>1. Visible(v) # {} /\ Returned(c, v) = Strip(v)
    BY <1>1, <1>3 DEF FieldValid, ValidateNonEmpty, Strip, Returned
  <2>2. /\ Strip(v) \in Seq(STRING) /\ Strip(Strip(v)) = Strip(v)
        /\ Len(Strip(v)) \in 1..Len(v) /\ Strip(v) # <<>>
    BY <1>3, <2>1, StripText DEF FieldValid, ValidateNonEmpty
  <2>3. Strip(v) # Null
    BY <2>2, SchemasAssumption
  <2>4. FieldLimits(c, Strip(v))
    <3>1. Len(v) \in Nat /\ Len(v) <= MaxLength[c] /\ MaxLength[c] \in Nat
      BY LenProperties, SchemasAssumption DEF FieldValid, FieldLimits
    <3>2. Len(Strip(v)) <= Len(v) /\ Len(Strip(v)) >= 1
          /\ Len(Strip(v)) \in Nat
      BY <2>2, <3>1
    <3> QED
      BY <3>1, <3>2 DEF FieldLimits
  <2>5. FieldValid(c, Strip(v))
    BY <1>3, <2>2, <2>3, <2>4 DEF FieldValid, ValidateNonEmpty
  <2>6. Returned(c, Strip(v)) = Strip(v)
    BY <1>3, <2>2, <2>3 DEF Returned
  <2> QED
    BY <2>1, <2>2, <2>5, <2>6
<1> QED
  BY <1>2, <1>3

\* A valid value is not empty: a form's field that is missing for FastAPI is
\* one that the schema refuses.
LEMMA ValidIsNotEmpty ==
    ASSUME NEW c \in Column, FieldValid(c, <<>>)
    PROVE  FALSE
<1>1. DOMAIN <<>> = {}
  OBVIOUS
<1>2. Visible(<<>>) = {} /\ Read(<<>>) = {}
  BY <1>1 DEF Visible, Read
<1> QED
  BY <1>2 DEF FieldValid, ValidateUrl, ValidateNonEmpty, Strip

\* What is accepted has a valid text for each column it submits.
LEMMA AcceptedIsValid ==
    ASSUME NEW surface, NEW op, NEW p \in Payloads, Accepts(surface, op, p)
    PROVE  /\ DOMAIN p \subseteq Column
           /\ \A c \in DOMAIN p : p[c] \in Seq(STRING) /\ FieldValid(c, p[c])
           /\ surface # "fragment" /\ op = "create" => DOMAIN p = Column
           /\ surface = "fragment" => DOMAIN p = Column
<1>1. DOMAIN p \subseteq Column /\ \A c \in DOMAIN p : FieldValid(c, p[c])
  BY SchemasAssumption DEF Accepts, FormAccepts, DocLinkBase, DocLinkUpdate
<1>2. \A c \in DOMAIN p : p[c] \in Seq(STRING)
  BY <1>1, SchemasAssumption DEF FieldValid
<1> QED
  BY <1>1, <1>2 DEF Accepts, FormAccepts, DocLinkBase

-----------------------------------------------------------------------------
(* The inductive invariant.                                                *)

\* Attributes that DocLinkResponse accepts and that its validators return as
\* they are.
Clean(attrs) ==
    /\ DocLinkBase(attrs)
    /\ Response(attrs) = attrs
    /\ \A c \in Column : attrs[c] \in Seq(STRING)

\* A call that is not answered yet has the link it is about.
Asked ==
    asked # NoCall =>
        /\ asked.op \in {"create", "update"} => asked.payload \in Payloads
        /\ reply = NoReply /\ asked.op # "create" => link # NoLink

SchemasInv ==
    /\ link # NoLink => Clean(link)
    /\ Asked
    /\ ShownIsStored

LEMMA CleanIfValid ==
    ASSUME NEW attrs, attrs = [c \in Column |-> attrs[c]],
           \A c \in Column : /\ attrs[c] \in Seq(STRING)
                             /\ FieldValid(c, attrs[c])
                             /\ Returned(c, attrs[c]) = attrs[c]
    PROVE  Clean(attrs)
<1>1. DOMAIN attrs = Column
  OBVIOUS
<1>2. Response(attrs) = attrs
  BY DEF Response
<1> QED
  BY <1>1, <1>2 DEF Clean, DocLinkBase

\* An answer shows nothing, or what is stored.
LEMMA AnswerShowsClean ==
    ASSUME NEW status, NEW attrs, Clean(attrs), Answer(status, attrs),
           status \in {200, 201}
    PROVE  /\ reply'.shown \in {NoLink, attrs}
           /\ reply' # NoReply /\ asked' = asked
BY DEF Answer, Replies, Clean, NoReply

LEMMA WriteKeepsInv ==
    ASSUME SchemasInv, asked # NoCall, reply = NoReply,
           NEW status \in {200, 201}, NEW attrs, Write(status, attrs),
           Accepts(asked.surface, asked.op, asked.payload) => Clean(attrs)
    PROVE  SchemasInv'
<1>1. ASSUME NEW s \in {422, 500}, Refuse(s) PROVE SchemasInv'
  BY <1>1
     DEF Refuse, Replies, NoReply, SchemasInv, Asked, ShownIsStored, Clean
<1>2. CASE /\ Accepts(asked.surface, asked.op, asked.payload)
           /\ link' = attrs /\ Answer(status, attrs)
  <2>1. /\ reply'.shown \in {NoLink, attrs} /\ reply' # NoReply
        /\ asked' = asked
    BY <1>2, AnswerShowsClean
  <2> QED
    BY <1>2, <2>1 DEF SchemasInv, Asked, ShownIsStored
<1> QED
  BY <1>1, <1>2 DEF Write

LEMMA InitSchemasInv == Init => SchemasInv
BY DEF Init, NoReply, SchemasInv, Asked, ShownIsStored

LEMMA NextSchemasInv == SchemasInv /\ [Next]_vars => SchemasInv'
<1> SUFFICES ASSUME SchemasInv, [Next]_vars PROVE SchemasInv'
  OBVIOUS
<1>1. CASE UNCHANGED vars
  BY <1>1 DEF vars, SchemasInv, Asked, ShownIsStored, Clean
<1>2. ASSUME NEW c, Ask(c),
             c.op \in {"create", "update"} => c.payload \in Payloads
      PROVE  SchemasInv'
  BY <1>2 DEF Ask, SchemasInv, Asked, ShownIsStored
<1>3. CASE Create
  <2> DEFINE p == asked.payload
  <2>1. /\ asked # NoCall /\ reply = NoReply /\ asked.op = "create"
        /\ p \in Payloads
    BY <1>3 DEF Create, Handles, SchemasInv, Asked
  <2>2. ASSUME Accepts(asked.surface, asked.op, p) PROVE Clean(Dumped(p))
    <3>1. DOMAIN p = Column
          /\ \A c \in Column : p[c] \in Seq(STRING) /\ FieldValid(c, p[c])
      BY <2>1, <2>2, AcceptedIsValid
    <3>2. Dumped(p) = [c \in Column |-> Returned(c, p[c])]
      BY <3>1 DEF Dumped
    <3> QED
      BY <3>1, <3>2, ValidStaysValid, CleanIfValid
  <2> QED
    BY <1>3, <2>1, <2>2, WriteKeepsInv DEF Create
<1>4. CASE Update
  <2> DEFINE p == asked.payload
             attrs == [c \in Column |-> IF c \in DOMAIN p THEN Dumped(p)[c]
                                                        ELSE link[c]]
  <2>1. /\ asked # NoCall /\ reply = NoReply /\ asked.op = "update"
        /\ p \in Payloads /\ Clean(link)
    BY <1>4 DEF Update, Handles, SchemasInv, Asked
  <2>2. ASSUME Accepts(asked.surface, asked.op, p) PROVE Clean(attrs)
    <3>1. \A c \in DOMAIN p : /\ c \in Column /\ p[c] \in Seq(STRING)
                              /\ FieldValid(c, p[c])
      BY <2>1, <2>2, AcceptedIsValid
    <3>2. ASSUME NEW c \in Column
          PROVE  /\ attrs[c] \in Seq(STRING) /\ FieldValid(c, attrs[c])
                 /\ Returned(c, attrs[c]) = attrs[c]
      <4>1. CASE c \in DOMAIN p
        <5>1. attrs[c] = Returned(c, p[c])
          BY <4>1 DEF Dumped
        <5> QED
          BY <3>1, <4>1, <5>1, ValidStaysValid
      <4>2. CASE c \notin DOMAIN p
        <5>1. attrs[c] = link[c]
          BY <4>2
        <5>2. Returned(c, link[c]) = link[c]
          <6>1. Response(link)[c] = link[c]
            BY <2>1 DEF Clean
          <6> QED
            BY <6>1 DEF Response
        <5> QED
          BY <2>1, <5>1, <5>2 DEF Clean, DocLinkBase
      <4> QED
        BY <4>1, <4>2
    <3>3. attrs = [c \in Column |-> attrs[c]]
      OBVIOUS
    <3> HIDE DEF attrs
    <3> QED
      BY <3>2, <3>3, CleanIfValid
  <2> QED
    BY <1>4, <2>1, <2>2, WriteKeepsInv DEF Update
<1>5. CASE Delete
  BY <1>5
     DEF Delete, Handles, Replies, NoReply, SchemasInv, Asked, ShownIsStored
<1>6. CASE List
  <2>1. Clean(link)
    BY <1>6 DEF List, Handles, SchemasInv, Asked
  <2>2. reply'.shown \in {NoLink, link} /\ reply' # NoReply
        /\ asked' = asked /\ link' = link
    BY <1>6, <2>1, AnswerShowsClean DEF List
  <2> QED
    BY <2>2 DEF SchemasInv, Asked, ShownIsStored
<1>7. CASE Done
  BY <1>7 DEF Done, NoReply, SchemasInv, Asked, ShownIsStored
<1>8. ASSUME NEW s, NEW op \in {"create", "update"}, NEW p \in Payloads,
             Ask([surface |-> s, op |-> op, payload |-> p])
      PROVE  SchemasInv'
  BY <1>2, <1>8
<1>9. ASSUME NEW op \in {"list", "delete"},
             Ask([surface |-> "json", op |-> op, payload |-> <<>>])
      PROVE  SchemasInv'
  BY <1>2, <1>9
<1> QED
  BY <1>1, <1>3, <1>4, <1>5, <1>6, <1>7, <1>8, <1>9 DEF Next

-----------------------------------------------------------------------------
(* The results.                                                            *)

\* The inductive invariant: what is stored is valid and as its validator
\* returns it, and what is shown is what is stored.
THEOREM SchemasInvariance == Spec => []SchemasInv
<1> QED
  BY InitSchemasInv, NextSchemasInv, PTL DEF Spec

\* No sequence of accepted creates and partial updates stores a row that
\* DocLinkResponse refuses: a list never fails for what is in it.
THEOREM WhatIsStoredReadsBack == Spec => []StoredReadsBack
<1>1. SchemasInv => StoredReadsBack
  BY DEF SchemasInv, Clean, StoredReadsBack
<1> QED
  BY <1>1, SchemasInvariance, PTL

\* The JSON API shows what is stored.
THEOREM WhatIsShownIsStored == Spec => []ShownIsStored
<1>1. SchemasInv => ShownIsStored
  BY DEF SchemasInv
<1> QED
  BY <1>1, SchemasInvariance, PTL

\* A form and the JSON API accept the same complete payloads.
THEOREM BothSurfacesAgree == Spec => []SurfacesAgree
<1>1. ASSUME SchemasInv PROVE SurfacesAgree
  <2>1. SUFFICES ASSUME asked # NoCall, asked.op \in {"create", "update"},
                        DOMAIN asked.payload = Column
                 PROVE  Accepts("json", asked.op, asked.payload)
                          <=> Accepts("fragment", asked.op, asked.payload)
    BY DEF SurfacesAgree
  <2> DEFINE p == asked.payload
  <2>2. Accepts("json", asked.op, p) <=> \A c \in Column : FieldValid(c, p[c])
    BY <2>1 DEF Accepts, DocLinkBase, DocLinkUpdate
  <2>3. Accepts("fragment", asked.op, p)
          <=> \A c \in Column : p[c] # Null /\ p[c] # <<>>
                                /\ FieldValid(c, p[c])
    BY <2>1 DEF Accepts, FormAccepts, DocLinkUpdate
  <2>4. ASSUME NEW c \in Column, FieldValid(c, p[c])
        PROVE  p[c] # Null /\ p[c] # <<>>
    BY <2>4, ValidIsNotEmpty DEF FieldValid
  <2> QED
    BY <2>2, <2>3, <2>4
<1>2. SchemasInv => SurfacesAgree
  BY <1>1
<1> QED
  BY <1>2, SchemasInvariance, PTL
=============================================================================
