------------------------------ MODULE ArgoKeys ------------------------------
(***************************************************************************)
(* The search of the ARGO binding for the text a hashed API key is made    *)
(* of: findProperty, over the document of a request.                       *)
(*                                                                         *)
(* A document is what xml2js makes of it, written as an outline: its       *)
(* values in the order of the document, each with its level, where the     *)
(* first is the document itself, at level 0, and a value contains those    *)
(* after it that have a higher level.  A value is a text (Blank if         *)
(* JavaScript takes it for false), a list, or an element with named        *)
(* fields.  The values of a list have no name, and the field "_" of an     *)
(* element with XML attributes holds its text.                             *)
(***************************************************************************)
EXTENDS Naturals, Sequences, FiniteSetsExt

CONSTANTS
  MaxDepth,   \* how deep findProperty looks; 16 in the code
  HashField   \* the field a hashed key names

Blank  == ""
NoName == ""

ASSUME ArgoKeysAssumption == MaxDepth \in Nat \ {0} /\ HashField # NoName

Outlined == [level : Nat, kind : {"text", "list", "element"}, name : STRING, text : STRING]

\* The positions of the values in v, and of those directly in it.
Inside(doc, v) ==
  {w \in (v + 1)..Len(doc) : \A u \in (v + 1)..w : doc[u].level > doc[v].level}

Children(doc, v) == {w \in Inside(doc, v) : doc[w].level = doc[v].level + 1}

Outline(doc) ==
  /\ doc \in Seq(Outlined) /\ doc # <<>>
  /\ doc[1].level = 0 /\ doc[1].name = NoName
  /\ \A v \in 1..(Len(doc) - 1) :
       /\ doc[v + 1].level \in 1..(doc[v].level + 1)
       /\ doc[v].kind = "text" => doc[v + 1].level <= doc[v].level
  /\ \A v \in DOMAIN doc : doc[v].kind = "list" => \A c \in Children(doc, v) : doc[c].name = NoName

-----------------------------------------------------------------------------
\* The text of a field: that of the first value of a list, and of the field "_" of an
\* element; the text of nothing is empty.
PropertyText(doc, field) ==
  LET value == Min({v \in field..Len(doc) : doc[v].kind # "list" \/ Children(doc, v) = {}})
      own   == {c \in Children(doc, value) : doc[c].name = "_"}
  IN  CASE doc[value].kind = "text"    -> doc[value].text
        [] doc[value].kind = "list"    -> Blank
        [] doc[value].kind = "element" -> IF own = {} THEN Blank ELSE doc[Min(own)].text

\* A wrong Matches: an empty field does not end the search.
MatchesText(doc, c) == doc[c].name = HashField /\ PropertyText(doc, c) # Blank

Matches(doc, c) == doc[c].name = HashField

\* findProperty: the position of the first field of that name, depth first, or 0.
FindProperty(doc) ==
  LET find[v \in DOMAIN doc] ==
        LET hits == {c \in Children(doc, v) : Matches(doc, c) \/ find[c] # 0}
        IN  IF doc[v].level >= MaxDepth \/ hits = {} THEN 0
            ELSE IF Matches(doc, Min(hits)) THEN Min(hits) ELSE find[Min(hits)]
  IN  find[1]

TextAt(doc, field) == IF field = 0 THEN Blank ELSE PropertyText(doc, field)

\* The text of the hash, in apiKeyList.
HashText(doc) == TextAt(doc, FindProperty(doc))

-----------------------------------------------------------------------------
\* What the search is for, without the search: the first field of that name, in the
\* order of the document, that is not too deep.
FirstNamed(doc) ==
  LET named == {v \in DOMAIN doc : doc[v].name = HashField /\ doc[v].level <= MaxDepth}
  IN  IF named = {} THEN 0 ELSE Min(named)
=============================================================================
