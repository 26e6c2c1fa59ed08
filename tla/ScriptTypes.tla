---------------------------- MODULE ScriptTypes ----------------------------
(***************************************************************************)
(* What every part of the script engine shares: types of variables, the    *)
(* style of names and tags.  src/Nectere/Script/VariableType.cpp,          *)
(* CodingStyle.cpp, Taggable.cpp.                                          *)
(*                                                                         *)
(* Names are members of small sets; what a regular expression says of a    *)
(* name is a constant.                                                     *)
(***************************************************************************)
EXTENDS Naturals, Sequences

CONSTANTS RawName,       \* the names of the raw types: "int", "string", ...
          ArrayOf,       \* names of arrays -> name of their elements, "" for "array"
          Complies,      \* name -> the kinds of name it follows the style of
          DoCodingStyle  \* ScriptEngine.DoCodingStyle

ASSUME TypeAssumption ==
  /\ RawName \cap DOMAIN ArrayOf = {}
  /\ DoCodingStyle \in BOOLEAN

NoType == [kind |-> "none"]

\* VariableType's constructor from a name: raw, array of what its name says, or
\* else the name of an object, whether or not anybody declares it.
RECURSIVE VariableType(_)
VariableType(name) ==
  CASE name \in RawName -> [kind |-> name, name |-> name, of |-> NoType]
    [] name \in DOMAIN ArrayOf ->
         [kind |-> "array", name |-> name,
          of |-> IF ArrayOf[name] = "" THEN NoType ELSE VariableType(ArrayOf[name])]
    [] OTHER -> [kind |-> "object", name |-> name, of |-> NoType]

\* SetArrayType: the array learns what it holds and keeps the name it had.
SetArrayType(type, of) == [type EXCEPT !.of = of]

\* GetName, which unlike m_Name follows SetArrayType: <<"array", <<"int">>>>.
RECURSIVE GetName(_)
GetName(type) ==
  IF type.kind # "array" THEN <<type.name>>
  ELSE IF type.of = NoType THEN <<"array">> ELSE <<"array", GetName(type.of)>>

\* VariableTypeHelper::IsRaw, as the native casters ask it.
IsRaw(type) == type.kind \in RawName \ {"void", "group"}

\* CodingStyle::CheckName: letters, digits, - and _; the style if asked for.
CheckName(kind, name) ==
  /\ name \in DOMAIN Complies
  /\ DoCodingStyle => kind \in Complies[name]
-----------------------------------------------------------------------------
(* Tags: a function from their names to the parameters given to each. *)

NoTags == [n \in {} |-> {}]

AddTag(tags, name, params) ==
  [n \in DOMAIN tags \cup {name} |->
     (IF n \in DOMAIN tags THEN tags[n] ELSE {}) \cup (IF n = name THEN params ELSE {})]

AddTags(tags, others) ==
  [n \in DOMAIN tags \cup DOMAIN others |->
     (IF n \in DOMAIN tags THEN tags[n] ELSE {})
       \cup (IF n \in DOMAIN others THEN others[n] ELSE {})]

RemoveTag(tags, name) == [n \in DOMAIN tags \ {name} |-> tags[n]]

Match(tags, name, params, how) ==
  /\ name \in DOMAIN tags
  /\ how = "MatchContainParam" => params \subseteq tags[name]
  /\ how = "MatchFull" => params = tags[name]
=============================================================================
