-------------------------------- MODULE JsonText --------------------------------
(***************************************************************************)
(* Printing a node as JSON and loading it back (src/Nectere/Dp/Json.cpp).  *)
(* A reader is given the text and a position and returns a node and the    *)
(* position after it; NULL_NODE is its refusal.  "\f" stands for all of    *)
(* the control characters \a, \b, \f and \v.                               *)
(***************************************************************************)
EXTENDS Node

-----------------------------------------------------------------------------
(* Printing.                                                               *)

Type(node) ==
    CASE node.array -> "Array" [] ~node.array /\ ~HaveChild(node) -> "Value" [] OTHER -> "Object"

(* Faulty variant: a quote is not escaped.                                 *)
EscapedNoQuote(c) ==
    CASE c = "\n" -> "\\n" [] c = "\t" -> "\\t" [] c = "\r" -> "\\r" [] c = "\f" -> "\\f"
      [] OTHER -> c

Escaped(c) ==
    CASE c = "\n" -> "\\n" [] c = "\t" -> "\\t" [] c = "\r" -> "\\r" [] c = "\f" -> "\\f"
      [] c = "\"" -> "\\\"" [] OTHER -> c

StrString(value) == "\"" \o Each(value, Escaped) \o "\""

StrValue(node) ==
    IF node.null THEN "null"
    ELSE IF node.string \/ (~node.notString /\ ~IsBoolean(node.value) /\ ~IsNumerical(node.value))
         THEN StrString(node.value)
         ELSE node.value

(* The name is printed as it is, and not at all when it is empty.          *)
StrName(node) == IF node.name = "" THEN "" ELSE "\"" \o node.name \o "\": "

(* Str and StrObject: depth is the depth of the buffer.                    *)
RECURSIVE StrElement(_, _, _, _)
StrElement(node, format, depth, addName) ==
    LET Bracketed(open, close, names) ==
            open \o LineBreak(format)
            \o Joined([i \in DOMAIN node.childs |->
                          StrElement(node.childs[i], format, depth + 1, names)],
                      IF format.breakLine THEN ",\n" ELSE ", ")
            \o LineBreak(format) \o Indent(format, depth) \o close
    IN  Indent(format, depth)
        \o (IF addName THEN StrName(node) ELSE "")
        \o (CASE Type(node) = "Array" -> Bracketed("[", "]", FALSE)
              [] Type(node) = "Object" -> Bracketed("{", "}", TRUE)
              [] Type(node) = "Value" -> StrValue(node))

(* Json::Str: a root with a name is printed as the child of another.       *)
JsonStr(node, format) ==
    IF node.nullNode THEN "(null)"
    ELSE IF node.name # "" /\ format.startDepth = 0
         THEN StrElement(Emplace(Empty, node), format, 0, FALSE)
         ELSE StrElement(node, format, format.startDepth, TRUE)

-----------------------------------------------------------------------------
(* Loading.                                                                *)

Result(node, pos) == [node |-> node, pos |-> pos]
Refused(pos) == Result(NULL_NODE, pos)
AtEnd(content, pos) == pos > Len(content)

Unescaped(c) ==
    CASE c = "n" -> "\n" [] c = "t" -> "\t" [] c = "r" -> "\r"
      [] c \in {"a", "b", "f", "v"} -> "\f"
      [] c = "\"" -> "\"" [] OTHER -> "\\" \o c

(* The text from pos to the closing quote; nothing when there is none.     *)
RECURSIVE LoadString(_, _, _, _)
LoadString(content, pos, escaping, value) ==
    LET current == CharAt(content, pos)
    IN  IF AtEnd(content, pos) THEN [value |-> "", pos |-> pos]
        ELSE IF escaping THEN LoadString(content, pos + 1, FALSE, value \o Unescaped(current))
        ELSE IF current = "\"" THEN [value |-> value, pos |-> pos + 1]
        ELSE IF current = "\\" THEN LoadString(content, pos + 1, TRUE, value)
        ELSE LoadString(content, pos + 1, FALSE, value \o current)

RECURSIVE EndOfWord(_, _)
EndOfWord(content, pos) ==
    IF AtEnd(content, pos) \/ CharAt(content, pos) \in Whitespace \cup {",", "]", "}"}
    THEN pos ELSE EndOfWord(content, pos + 1)

LoadValue(content, pos, name) ==
    LET Word(end, word) ==
            IF AtEnd(content, end) \/ (~IsNumerical(word) /\ ~IsBoolean(word)) THEN Refused(end)
            ELSE Result([NodeOf(name, word) EXCEPT !.notString = TRUE], end)
        Quoted(read) ==
            IF AtEnd(content, read.pos) THEN Refused(read.pos)
            ELSE Result([NodeOf(name, read.value) EXCEPT !.string = TRUE], read.pos)
    IN  CASE CharAt(content, pos) = "\"" -> Quoted(LoadString(content, pos + 1, FALSE, ""))
          [] CharAt(content, pos) = "n" ->
                 IF StartWith(content, "null", pos)
                 THEN Result([NodeOf(name, "") EXCEPT !.null = TRUE], pos + 4) ELSE Refused(pos)
          [] OTHER -> Word(EndOfWord(content, pos),
                           SubSeq(content, pos, EndOfWord(content, pos) - 1))

(* After an element: the ',' that says one more must follow, which is not  *)
(* looked for behind whitespace.                                           *)
Comma(content, pos) == CharAt(content, pos) = ","
AfterElement(content, pos) ==
    ByPassTrailing(content, IF Comma(content, pos) THEN pos + 1 ELSE pos)

(* LoadNode, LoadArray and LoadObject.  An element of an array has no ':'  *)
(* before it: LoadNode passes its first character all the same.  An object *)
(* adds its elements by name, so the name is a key.                        *)
RECURSIVE LoadNode(_, _, _), LoadArray(_, _, _, _), LoadObject(_, _, _, _)

LoadNode(content, pos, name) ==
    LET next == ByPassTrailing(content, pos + 1)
    IN  CASE CharAt(content, pos) = ":" ->
                 IF CharAt(content, next) \in {"{", "["} THEN LoadNode(content, next, name)
                 ELSE IF name # "" THEN LoadValue(content, next, name) ELSE Refused(next)
          [] CharAt(content, pos) = "{" ->
                 IF CharAt(content, next) = "}" THEN Result(NodeOf(name, ""), next + 1)
                 ELSE LoadObject(content, next, NodeOf(name, ""), TRUE)
          [] CharAt(content, pos) = "[" -> LoadArray(content, next, NodeOf(name, ""), TRUE)
          [] OTHER -> IF name = "" THEN LoadValue(content, next, name) ELSE Refused(next)

LoadArray(content, pos, ret, needMore) ==
    LET AfterValue(value) ==
            IF value.node.nullNode THEN value
            ELSE LoadArray(content, AfterElement(content, value.pos), Emplace(ret, value.node),
                           Comma(content, value.pos))
    IN  IF AtEnd(content, pos) THEN Refused(pos)
        ELSE IF CharAt(content, pos) = "]"
             THEN IF needMore THEN Refused(pos) ELSE Result(ret, ByPassTrailing(content, pos + 1))
        ELSE IF needMore THEN AfterValue(LoadNode(content, pos, "")) ELSE Refused(pos)

LoadObject(content, pos, ret, needMore) ==
    LET AfterValue(value) ==
            IF value.node.nullNode THEN value
            ELSE LoadObject(content, AfterElement(content, value.pos),
                            Add(ret, value.node.name, value.node), Comma(content, value.pos))
        AfterName(read) ==
            IF AtEnd(content, read.pos) \/ read.value = "" THEN Refused(read.pos)
            ELSE AfterValue(LoadNode(content, ByPassTrailing(content, read.pos), read.value))
    IN  IF AtEnd(content, pos) THEN Refused(pos)
        ELSE IF CharAt(content, pos) = "}"
             THEN IF needMore THEN Refused(pos) ELSE Result(ret, ByPassTrailing(content, pos + 1))
        ELSE IF needMore /\ CharAt(content, pos) = "\""
             THEN AfterName(LoadString(content, pos + 1, FALSE, "")) ELSE Refused(pos)

(* Json::LoadFromContent.                                                  *)
JsonLoad(content) ==
    LET pos == ByPassTrailing(content, 1)
    IN  IF CharAt(content, pos) = "{" THEN LoadNode(content, pos, "").node ELSE NULL_NODE
=============================================================================
