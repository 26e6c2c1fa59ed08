-------------------------------- MODULE Documents --------------------------------
(***************************************************************************)
(* A document: a node that is built by the operations of Node, saved as    *)
(* JSON or XML and loaded back.  Keys and values are the CONSTANTS; a step *)
(* of the program that changes the document, or loads it, is one of at     *)
(* most MaxChanges, and a file nobody can load any more is not written.    *)
(* The file is what was saved last, until the document changes: what is    *)
(* loaded depends on the text only, whatever became of the document.       *)
(***************************************************************************)
EXTENDS Node

J == INSTANCE JsonText
X == INSTANCE XmlText

CONSTANTS
    Roots,          \* the nodes a document starts as
    Keys,           \* the keys given to the operations
    Values,         \* the nodes given to them
    Arrays,         \* the vectors of nodes given to them
    Texts,          \* the values of attributes and declarations
    Formats,        \* the formats documents are saved in
    MaxChanges      \* bound: how often the document is changed

VARIABLES
    doc,            \* the root node
    file,           \* what was saved last: the kind and the text
    changes

vars == <<doc, file, changes>>

NoFile == [kind |-> "none", text |-> ""]

Init == doc \in Roots /\ file = NoFile /\ changes = 0

Change(node) ==
    /\ changes < MaxChanges
    /\ IsNotNullNode(doc)
    /\ doc' = node
    /\ changes' = changes + 1
    /\ file' = NoFile

AddTo(addType, key, value, spare) == Change(InternalAdd(doc, key, value, addType, spare))
AddValues(key, values) == Change(Add(doc, key, ArrayNode(values)))
AppendNode(value) == Change(Emplace(doc, value))
RemoveKey(key, spare) == RemoveNode(doc, key, spare).done /\ Change(RemoveNode(doc, key, spare).node)
SetAttribute(key, value) == Change(X!AddAttribute(doc, key, value))
SetDeclaration(key, attribute, value) == Change(X!AddDeclaration(doc, key, attribute, value))

Save(kind, text) ==
    /\ changes < MaxChanges
    /\ IsNotNullNode(doc)
    /\ file' = [kind |-> kind, text |-> text]
    /\ UNCHANGED <<doc, changes>>
SaveJson(format) == Save("json", J!JsonStr(doc, format))
SaveXml(format) == Save("xml", X!XmlStr(doc, format))

Load(kind, node) ==
    /\ changes < MaxChanges
    /\ file.kind = kind
    /\ doc' = node
    /\ changes' = changes + 1
    /\ UNCHANGED file
LoadJson == Load("json", J!JsonLoad(file.text))
LoadXml == Load("xml", X!XmlLoadFromFile(file.text))

Next ==
    \/ \E addType \in {"ADD", "MERGE"}, key \in Keys, value \in Values :
           AddTo(addType, key, value, FALSE)
    \/ \E addType \in {"INSERT", "REPLACE"}, key \in Keys, value \in Values, spare \in BOOLEAN :
           AddTo(addType, key, value, spare)
    \/ \E key \in Keys, values \in Arrays : AddValues(key, values)
    \/ \E value \in Values : AppendNode(value)
    \/ \E key \in Keys, spare \in BOOLEAN : RemoveKey(key, spare)
    \/ \E key \in Keys, text \in Texts : SetAttribute(key, text)
    \/ \E key \in Keys, attribute \in Keys, text \in Texts : SetDeclaration(key, attribute, text)
    \/ \E format \in Formats : SaveJson(format) \/ SaveXml(format)
    \/ LoadJson
    \/ LoadXml

Spec == Init /\ [][Next]_vars

-----------------------------------------------------------------------------
(* Properties.                                                             *)

(* The children of a node have names of their own, which are no keys.      *)
NamesApart(node) ==
    /\ \A i, j \in DOMAIN node.childs : i # j => node.childs[i].name # node.childs[j].name
    /\ \A i \in DOMAIN node.childs :
           node.childs[i].name # "" /\ ~IsPath(node.childs[i].name) /\ ~HasPos(node.childs[i].name)

(* A text the reader gives back: a '\', which is never escaped, only      *)
(* before a character that is no escape for the reader.                    *)
RECURSIVE GivenBack(_, _)
GivenBack(text, escapes) ==
    IF ~Includes(text, "\\") THEN TRUE
    ELSE IF CharAt(text, 1) # "\\" THEN GivenBack(Tail(text), escapes)
    ELSE CharAt(text, 2) \notin escapes /\ GivenBack(From(text, 3), escapes)

(* A value is printed with the rest of the escapes, which hide a '\' in    *)
(* front of them; a name is printed as it is and ends at its first quote.  *)
JsonEscapes == {"", "a", "b", "f", "n", "r", "t", "v"}
JsonValue(text) == GivenBack(text, JsonEscapes \cup {"\"", "\n", "\t", "\r", "\f"})
JsonName(name) == ~Includes(name, "\"") /\ GivenBack(name, JsonEscapes)

(* What JSON can carry: values without children, in the texts it gives     *)
(* back, objects, whose names it gives back, and arrays of objects or      *)
(* arrays.                                                                 *)
RECURSIVE JsonPortable(_, _)
JsonPortable(node, isElement) ==
    CASE J!Type(node) = "Value" ->
             /\ ~isElement
             /\ node.null => node.value = ""
             /\ node.notString => IsBoolean(node.value) \/ IsNumerical(node.value)
             /\ JsonValue(node.value)
      [] J!Type(node) = "Object" ->
             /\ node.value = "" /\ ~node.null
             /\ NamesApart(node)
             /\ \A i \in DOMAIN node.childs :
                    JsonName(node.childs[i].name) /\ JsonPortable(node.childs[i], FALSE)
      [] J!Type(node) = "Array" ->
             /\ node.value = "" /\ ~node.null /\ HaveChild(node)
             /\ \A i \in DOMAIN node.childs :
                    node.childs[i].name = "" /\ JsonPortable(node.childs[i], TRUE)

(* operator== takes a refusal for an empty node.                           *)
Same(loaded, node) == IsNotNullNode(loaded) /\ Equal(loaded, node)

(* A document saved as JSON, in any format, is loaded as it was if and     *)
(* only if JSON can carry it and it is an object without a name.           *)
JsonFaithful ==
    IsNotNullNode(doc) =>
        \A format \in Formats :
            Same(J!JsonLoad(J!JsonStr(doc, format)), doc)
                <=> J!Type(doc) = "Object" /\ doc.name = "" /\ JsonPortable(doc, TRUE)

(* A text XML gives back: whitespace around it goes, and so does what is   *)
(* in front of a line; an entity is only replaced after another character, *)
(* and only the first one, except in an attribute.                         *)
LinesKept(text) ==
    /\ WithoutTrailing(text) = text
    /\ \A i \in 1..Len(text) : CharAt(text, i) = "\n" => CharAt(text, i + 1) \notin Whitespace

EntitiesAt(text) == {i \in 1..Len(text) : \E e \in DOMAIN X!Entities : X!Entities[e] = CharAt(text, i)}

XmlValue(text) ==
    /\ LinesKept(text)
    /\ CharAt(text, 1) \notin Whitespace
    /\ EntitiesAt(text) \subseteq 2..Len(text)
    /\ \A i, j \in EntitiesAt(text) : i = j

XmlPairs(node) ==
    /\ node.value = "" /\ ~node.null /\ NamesApart(node)
    /\ \A i \in DOMAIN node.childs :
           /\ ~HaveChild(node.childs[i]) /\ ~node.childs[i].null
           /\ LinesKept(node.childs[i].value)

XmlDeclarations(node) ==
    /\ node.value = "" /\ ~node.null /\ HaveChild(node) /\ NamesApart(node)
    /\ \A i \in DOMAIN node.childs : XmlPairs(node.childs[i])

(* A node with its attributes first and the declarations of the root last: *)
(* a root without declarations gets the default one.                       *)
OfSpecial(node, name) == SelectSeq(node.childs, LAMBDA child : child.name = name)
Others(node, isRoot) ==
    SelectSeq(node.childs, LAMBDA child : /\ child.name # X!Attributes
                                          /\ isRoot => child.name # X!Declarations)
DefaultDeclarations == X!Create("", "1.0", "UTF-8").childs

RECURSIVE Ordered(_, _)
Ordered(node, isRoot) ==
    [node EXCEPT
        !.childs = OfSpecial(node, X!Attributes)
            \o [i \in DOMAIN Others(node, isRoot) |-> Ordered(Others(node, isRoot)[i], FALSE)]
            \o (IF ~isRoot THEN <<>>
                ELSE IF OfSpecial(node, X!Declarations) = <<>> THEN DefaultDeclarations
                ELSE OfSpecial(node, X!Declarations))]

(* What XML can carry: tags with lower case names of their own, a value or *)
(* tags in them, and null for neither.                                     *)
RECURSIVE XmlPortable(_, _)
XmlPortable(node, isRoot) ==
    /\ Each(node.name, X!ToLower) = node.name
    /\ NamesApart(node)
    /\ \A i \in DOMAIN OfSpecial(node, X!Attributes) :
           HaveChild(OfSpecial(node, X!Attributes)[i]) /\ XmlPairs(OfSpecial(node, X!Attributes)[i])
    /\ isRoot => \A i \in DOMAIN OfSpecial(node, X!Declarations) :
                     XmlDeclarations(OfSpecial(node, X!Declarations)[i])
    /\ \A i \in DOMAIN Others(node, isRoot) :
           X!IsTag(Others(node, isRoot)[i]) /\ XmlPortable(Others(node, isRoot)[i], FALSE)
    /\ XmlValue(node.value)
    /\ HaveValue(node) => Others(node, isRoot) = <<>>
    /\ node.null <=> ~HaveValue(node) /\ Others(node, isRoot) = <<>>

(* No name has characters of the markup in it, or is missing.              *)
RECURSIVE PlainNames(_)
PlainNames(node) ==
    /\ node.name # ""
    /\ \A i \in 1..Len(node.name) :
           CharAt(node.name, i) \notin Whitespace \cup {"<", ">", "/", "=", "?", "\""}
    /\ \A i \in DOMAIN node.childs : PlainNames(node.childs[i])

(* A document whose names are plain is, after it was saved as XML, loaded  *)
(* as it was, with the attributes and the declarations where the reader    *)
(* puts them, if and only if XML can carry it and it is not empty.         *)
XmlFaithful ==
    PlainNames(doc) =>
        \A format \in Formats :
            Same(X!XmlLoad(X!XmlStr(doc, format)), Ordered(doc, TRUE))
                <=> ~IsEmpty(doc) /\ XmlPortable(doc, TRUE)
(* Every name on the way of a key is there, or is the next one of its kind. *)
RECURSIVE InReach(_, _)
InReach(node, key) ==
    LET OneOf(nb, all, Below(_)) ==
            /\ nb =< Len(all)
            /\ Below(IF Nth(nb) =< Len(all) THEN node.childs[all[Nth(nb)]] ELSE Empty)
        In(name, Below(_)) == OneOf(ExtractPos(name), OfName(node, ExtractName(name)), Below)
    IN  IF IsPath(key) THEN In(FirstName(key), LAMBDA child : InReach(child, NewKey(key)))
        ELSE In(key, LAMBDA child : TRUE)

RECURSIVE LastName(_)
LastName(key) == IF IsPath(key) THEN LastName(NewKey(key)) ELSE ExtractName(key)

(* What is added under a key where there was nothing is found there, unless *)
(* a position in the key skips one: the value is then lost, or comes under *)
(* another key, and Add tells nobody.                                      *)
AddIsFound ==
    IsNotNullNode(doc) =>
        \A key \in Keys, value \in Values :
            ~Has(doc, key) =>
                LET found == GetNode(Add(doc, key, value), key)
                IN  IF InReach(doc, key) THEN Same(found, [value EXCEPT !.name = LastName(key)])
                    ELSE ~IsNotNullNode(found)

(* An assignment leaves the names a node below the old one had, wherever   *)
(* it is made over the old children.                                       *)
RECURSIVE Unrenamed(_, _, _)
Unrenamed(old, value, spare) ==
    \/ Len(value.childs) > Len(old.childs) /\ ~spare
    \/ \A i \in DOMAIN value.childs \cap DOMAIN old.childs :
           /\ value.childs[i].name = old.childs[i].name
           /\ Unrenamed(old.childs[i], value.childs[i], spare)

(* Where a key finds a child, a value that replaces it, or is inserted in  *)
(* front of it, is found under that key as it was given, unless it was     *)
(* assigned over children of other names: its children are then under      *)
(* those.  And the only child of a name is still found after its removal,  *)
(* with the value of the next one, unless it was the last.                 *)
PutIsFound ==
    \A key \in {k \in Keys : ~IsPath(k) /\ Has(doc, k)}, spare \in BOOLEAN :
        LET at == Candidates(doc, key)[1]
            last == at = Len(doc.childs)
            removed == RemoveNode(doc, key, spare).node
        IN  /\ \A addType \in {"INSERT", "REPLACE"}, value \in Values :
                   Same(GetNode(InternalAdd(doc, key, value, addType, spare), key),
                        [value EXCEPT !.name = LastName(key)])
                       <=> \/ addType = "INSERT" /\ ~spare
                           \/ Unrenamed(doc.childs[at], value, spare)
            /\ ~HasPos(key) /\ Len(OfName(doc, key)) = 1 =>
                   /\ Has(removed, key) <=> ~last
                   /\ ~last => removed.childs[at].value = doc.childs[at + 1].value
=============================================================================
