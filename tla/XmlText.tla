--------------------------------- MODULE XmlText ---------------------------------
(***************************************************************************)
(* Printing a node as XML and loading it back (src/Nectere/Dp/Xml.cpp).    *)
(* The declarations and the attributes of a tag are children with names of *)
(* their own.  Readers are as in JsonText: a position in, a position out.  *)
(***************************************************************************)
EXTENDS Node

Declarations == "__xmldeclarations__"
Attributes == "__xmlattributes__"

-----------------------------------------------------------------------------
(* Xml::Create, AddAttribute and AddDeclaration.                           *)

Create(name, version, encoding) ==
    Add(Add(NodeOf(name, ""), Declarations \o ".xml.version", NodeOf("", version)),
        Declarations \o ".xml.encoding", NodeOf("", encoding))

AddAttribute(node, key, value) ==
    IF IsPath(key) THEN node ELSE Add(node, Attributes \o "." \o key, NodeOf("", value))

AddDeclaration(node, key, attribute, value) ==
    IF IsPath(key) \/ IsPath(attribute) THEN node
    ELSE Add(node, Declarations \o "." \o key \o "." \o attribute, NodeOf("", value))

-----------------------------------------------------------------------------
(* Printing.  depth is the depth of the buffer; only the depth 0 prints    *)
(* declarations, and a tag without a name is the root there.               *)

DefaultDeclaration == "<?xml version=\"1.0\" encoding=\"UTF-8\"?>"

Upper == <<"A", "B", "C", "D", "E", "F", "G", "H", "I", "J", "K", "L", "M",
           "N", "O", "P", "Q", "R", "S", "T", "U", "V", "W", "X", "Y", "Z">>
Lower == <<"a", "b", "c", "d", "e", "f", "g", "h", "i", "j", "k", "l", "m",
           "n", "o", "p", "q", "r", "s", "t", "u", "v", "w", "x", "y", "z">>

ToLower(c) == IF \E i \in 1..26 : Upper[i] = c
              THEN Lower[CHOOSE i \in 1..26 : Upper[i] = c] ELSE c

(* The entities of the characters that have one.                           *)
Entities == [lt |-> "<", gt |-> ">", amp |-> "&", apos |-> "'", quot |-> "\""]

(* Faulty variant: only '<' and '>' are escaped.                           *)
AddValueTagsOnly(value, indent) ==
    LET Escaped(c) ==
            CASE c = "<" -> "&lt;" [] c = ">" -> "&gt;" [] c = "\n" -> c \o indent [] OTHER -> c
    IN  Each(value, Escaped)

AddValue(value, indent) ==
    LET Escaped(c) ==
            IF \E e \in DOMAIN Entities : Entities[e] = c
            THEN "&" \o (CHOOSE e \in DOMAIN Entities : Entities[e] = c) \o ";"
            ELSE IF c = "\n" THEN c \o indent ELSE c
    IN  Each(value, Escaped)

(* name="value" for the children of a declaration or of the attributes.    *)
Pairs(node, indent) ==
    Joined([i \in DOMAIN node.childs |->
               " " \o node.childs[i].name \o "=\"" \o AddValue(node.childs[i].value, indent) \o "\""], "")

AddDeclarations(node, format, depth) ==
    LET elements == GetNode(node, Declarations)
    IN  IF depth # 0 THEN ""
        ELSE Joined([i \in DOMAIN elements.childs |->
                        "<?" \o elements.childs[i].name \o Pairs(elements.childs[i], "") \o "?>\n"], "")

(* How many of the children of a tag are not tags of their own: the code   *)
(* counts the declarations it has printed and the attributes.              *)
MinSize(node, declarations) ==
    (IF declarations # "" THEN 1 ELSE 0) + (IF Has(node, Attributes) THEN 1 ELSE 0)

IsTag(node) == ~StartWith(node.name, "__", 1)

(* Str and AddNodes: the children of a node without named ones are printed *)
(* as tags of the node's name; the children of a node with a value are not *)
(* printed.                                                                *)
RECURSIVE StrTag(_, _, _)
StrTag(node, format, depth) ==
    LET name == Each(IF depth = 0 /\ node.name = "" THEN "root" ELSE node.name, ToLower)
        indent == Indent(format, depth)
        Tags(childs, below) ==
            Joined([i \in DOMAIN childs |-> StrTag(childs[i], format, below)], "\n")
        Content ==
            IF HaveValue(node)
            THEN Indent(format, depth + 1) \o AddValue(node.value, Indent(format, depth + 1))
            ELSE Tags(SelectSeq(node.childs, IsTag), depth + 1)
        Tag(declarations) ==
            (IF depth = 0 /\ declarations = "" THEN DefaultDeclaration \o "\n" ELSE declarations)
            \o indent \o "<" \o name \o Pairs(GetNode(node, Attributes), indent)
            \o (IF ~HaveValue(node) /\ Len(node.childs) = MinSize(node, declarations) THEN " />"
                ELSE ">\n" \o Content \o (IF IsEmpty(node) THEN "" ELSE "\n")
                     \o indent \o "</" \o name \o ">")
    IN  IF depth = 0 /\ IsEmpty(node) THEN DefaultDeclaration
        ELSE IF HaveChild(node) /\ ~HaveNamedChild(node)
             THEN Tags([i \in DOMAIN node.childs |-> [node.childs[i] EXCEPT !.name = node.name]], depth)
        ELSE Tag(AddDeclarations(node, format, depth))

(* Xml::Str.                                                               *)
XmlStr(node, format) ==
    IF node.nullNode THEN "(null)" ELSE StrTag(node, format, format.startDepth)

-----------------------------------------------------------------------------
(* Loading.                                                                *)

XmlResult(node, pos) == [node |-> node, pos |-> pos]
XmlRefused(pos) == XmlResult(NULL_NODE, pos)

(* Whitespace and comments.                                                *)
RECURSIVE ByPass(_, _)
ByPass(content, pos) ==
    LET next == ByPassTrailing(content, pos)
    IN  IF StartWith(content, "<!--", next)
        THEN ByPass(content, UpTo(content, "-->", next + 4) + 3) ELSE next

(* The characters up to the one that closes a value, escapes replaced.     *)
(* escape is undefined outside one ("" in the code); a value of a tag      *)
(* starts an escape with what the last one has left in it.                 *)
RECURSIVE ReadValue(_, _, _, _)
ReadValue(content, pos, close, read) ==
    LET c == CharAt(content, pos)
        Entity == IF read.escape \in DOMAIN Entities THEN Entities[read.escape] ELSE ""
    IN  IF c = close \/ c = "" THEN [value |-> read.value, pos |-> pos]
        ELSE IF read.escaping
             THEN ReadValue(content, pos + 1, close,
                     IF c # ";" THEN [read EXCEPT !.escape = @ \o c]
                     ELSE [read EXCEPT !.value = @ \o Entity, !.escaping = FALSE])
        ELSE IF c = "\n"
             THEN ReadValue(content, ByPass(content, pos), close, [read EXCEPT !.value = @ \o c])
        ELSE IF c = "&"
             THEN ReadValue(content, pos + 1, close,
                     [read EXCEPT !.escaping = TRUE,
                                  !.escape = IF close = "\"" THEN "" ELSE @])
        ELSE ReadValue(content, pos + 1, close, [read EXCEPT !.value = @ \o c])

NotEscaping(value) == [value |-> value, escaping |-> FALSE, escape |-> ""]

(* LoadValue: the first character is taken as it is.  What follows is one  *)
(* more value, after a comment.                                            *)
RECURSIVE LoadText(_, _)
LoadText(content, pos) ==
    LET After(value, more) == [more EXCEPT !.value = value \o @]
        Whole(read) ==
            IF read.pos > Len(content) THEN [value |-> "", pos |-> read.pos]
            ELSE After(WithoutTrailing(read.value), LoadText(content, ByPass(content, read.pos)))
    IN  IF CharAt(content, pos) = "<" THEN [value |-> "", pos |-> pos]
        ELSE Whole(ReadValue(content, pos + 1, "<", NotEscaping(CharAt(content, pos))))

(* LoadAttribute: name="value".                                            *)
LoadAttribute(content, pos) ==
    LET Attribute(name, read) ==
            IF read.pos > Len(content) THEN XmlRefused(read.pos)
            ELSE XmlResult(NodeOf(name, WithoutTrailing(read.value)), read.pos + 1)
        Value(equal) ==
            IF equal + 2 > Len(content) \/ CharAt(content, equal + 1) # "\"" THEN XmlRefused(equal)
            ELSE Attribute(SubSeq(content, pos, equal - 1),
                           ReadValue(content, equal + 2, "\"", NotEscaping("")))
    IN  Value(UpTo(content, "=", pos))

(* The attributes of a tag, added by name.                                 *)
RECURSIVE LoadAttributes(_, _, _)
LoadAttributes(tag, pos, node) ==
    LET Next(read) ==
            LoadAttributes(tag, ByPassTrailing(tag, read.pos), Add(node, read.node.name, read.node))
    IN  IF CharAt(tag, pos) \in {"/", "?", ">", ""} THEN node ELSE Next(LoadAttribute(tag, pos))

RECURSIVE EndOfName(_, _)
EndOfName(tag, pos) ==
    IF CharAt(tag, pos) \in {" ", "\t", ""} THEN pos ELSE EndOfName(tag, pos + 1)

CreateNodeFromTag(tag, declarations) ==
    LET Tag(node, attributes) ==
            IF IsEmpty(attributes) THEN node ELSE Add(node, Attributes, attributes)
        Named(node, pos) ==
            IF declarations THEN LoadAttributes(tag, pos, node)
            ELSE Tag(node, LoadAttributes(tag, pos, NodeOf(Attributes, "")))
        Upto(end) == Named(NodeOf(SubSeq(tag, 1, end - 1), ""), ByPassTrailing(tag, end))
    IN  Upto(EndOfName(tag, 2))

(* LoadNode, and its loop over the values and the children of a tag.       *)
RECURSIVE LoadTag(_, _), LoadContent(_, _, _, _)

Lines(value, more) ==
    IF more = "" THEN value ELSE IF value = "" THEN more ELSE value \o "\n" \o more

LoadContent(content, pos, node, nodeValue) ==
    LET AfterChild(read, value) ==
            IF read.node.nullNode \/ read.pos > Len(content) THEN XmlRefused(read.pos)
            ELSE LoadContent(content, read.pos, Add(node, read.node.name, read.node), value)
        AfterText(next, value) ==
            IF StartWith(content, "</", next) THEN LoadContent(content, next, node, value)
            ELSE AfterChild(LoadTag(content, next), value)
        Text(read) == AfterText(ByPass(content, read.pos), Lines(nodeValue, read.value))
    IN  IF ~StartWith(content, "</", pos) THEN Text(LoadText(content, pos))
        ELSE IF StartWith(content, node.name, pos + 2)
             THEN XmlResult([node EXCEPT !.value = nodeValue],
                            ByPass(content, pos + 2 + Len(node.name) + 1))
             ELSE XmlRefused(pos + 2)

LoadTag(content, pos) ==
    LET Tag(tag, node, next) ==
            IF EndWith(tag, "/") THEN XmlResult([node EXCEPT !.null = TRUE], next)
            ELSE LoadContent(content, next, node, "")
        Opened(tag, close) ==
            IF CharAt(content, pos + 1) = "/" \/ close > Len(content) THEN XmlRefused(close)
            ELSE Tag(tag, CreateNodeFromTag(tag, FALSE), ByPass(content, close + 1))
        Closed(close) == Opened(SubSeq(content, pos + 1, close - 1), close)
    IN  Closed(UpTo(content, ">", pos + 2))

(* LoadDeclaration: up to the next '?'.  LoadDeclarations.  The code reads *)
(* past the end of a text without a '?', which no printed text is: such a  *)
(* text is refused here.                                                   *)
Declaration(read) ==
    IF read.name # "xml" THEN read
    ELSE [read EXCEPT !.childs = [i \in DOMAIN @ |-> [@[i] EXCEPT !.string = TRUE]]]

RECURSIVE LoadDeclarations(_, _, _)
LoadDeclarations(content, pos, declarations) ==
    LET With(declaration, next) ==
            LoadDeclarations(content, next, Add(declarations, declaration.name, declaration))
        Closed(close) ==
            IF CharAt(content, pos + 2) = "/" \/ close >= Len(content) THEN XmlRefused(close)
            ELSE With(Declaration(CreateNodeFromTag(SubSeq(content, pos + 2, close - 1), TRUE)),
                      ByPass(content, close + 2))
    IN  IF StartWith(content, "<?", pos) THEN Closed(UpTo(content, "?", pos + 3))
        ELSE XmlResult(declarations, pos)

(* Xml::LoadFromContent.                                                   *)
XmlLoad(content) ==
    LET WithDeclarations(node, declarations) ==
            IF node.nullNode \/ IsEmpty(declarations) THEN node
            ELSE Add(node, Declarations, declarations)
        Loaded(read) ==
            IF read.node.nullNode \/ CharAt(content, ByPass(content, read.pos)) # "<" THEN NULL_NODE
            ELSE WithDeclarations(LoadTag(content, ByPass(content, read.pos)).node, read.node)
    IN  Loaded(LoadDeclarations(content, ByPass(content, 1), NodeOf(Declarations, "")))

(* Xml::LoadFromFile: a file must have the declaration xml.                *)
XmlLoadFromFile(content) ==
    IF Has(XmlLoad(content), Declarations \o ".xml") THEN XmlLoad(content) ELSE NULL_NODE
=============================================================================
