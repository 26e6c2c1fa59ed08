--------------------------- MODULE MCInterpreter ---------------------------
(***************************************************************************)
(* Instances of Interpreter: three scripts a, b and c whose imports make   *)
(* trees, diamonds, cycles and forked cycles, with elements that clash.    *)
(***************************************************************************)
EXTENDS Interpreter

MCRawName == {"int"}
MCArrayOf == [n \in {"ints"} |-> "int"]
MCComplies ==
  [n \in {"Type", "Other", "GLOBAL", "call", "field"} |->
     CASE n \in {"Type", "Other"} -> {"DeclaredObject"}
       [] n = "GLOBAL" -> {"Global"}
       [] n = "call"   -> {"Function"}
       [] OTHER        -> {"Variable"}]

Import(parts)   == [kind |-> "import", wellFormed |-> TRUE, private |-> FALSE, tags |-> NoTags, path |-> parts]
Private(st)     == [st EXCEPT !.private = TRUE]
Broken(st)      == [st EXCEPT !.wellFormed = FALSE]
Declare(type, of) ==
  [kind |-> "declare", wellFormed |-> TRUE, private |-> FALSE, tags |-> NoTags, type |-> type,
   text |-> <<type, of>>, variables |-> <<[name |-> "field", type |-> of]>>]
Global(type)    == [kind |-> "global", wellFormed |-> TRUE, private |-> FALSE, tags |-> NoTags,
                    name |-> "GLOBAL", type |-> type, fits |-> TRUE]
Function(type)  == [kind |-> "function", wellFormed |-> TRUE, private |-> FALSE, tags |-> NoTags,
                    name |-> "call", returns |-> "int",
                    params |-> <<[name |-> "field", type |-> type, modifier |-> "&", default |-> TRUE]>>]
CastOf(both)    == [kind |-> "cast", wellFormed |-> TRUE, private |-> FALSE, tags |-> NoTags,
                    from |-> "Type", to |-> "Other", both |-> both]

\* A file system: what a, b and c import, and what they declare.
a == Import(<<"a">>)
b == Import(<<"b">>)
c == Import(<<"c">>)
Field == Declare("Type", "int")
Other == Declare("Other", "int")

Systems ==
  { \* a chain whose elements need each other
   << << <<b>>, <<c>>, <<>> >>, << <<Function("Type")>>, <<Global("Type")>>, <<Field>> >> >>,
   \* a diamond, one side of it private, whose sides clash
   << << <<Private(b), c>>, <<c>>, <<>> >>, << <<Global("int")>>, <<Field>>, <<Other>> >> >>,
   << << <<b, c>>, <<>>, <<>> >>, << <<>>, <<Global("int"), Function("int")>>, <<Global("int"), Private(Function("int"))>> >> >>,
   << << <<b, c>>, <<>>, <<>> >>, << <<Function("ints")>>, <<Field>>, <<Declare("Type", "Other")>> >> >>,
   \* a cycle, and one through all three
   << << <<b>>, <<a>>, <<>> >>, << <<Field>>, <<Global("Type")>>, <<>> >> >>,
   << << <<b>>, <<c>>, <<a>> >>, << <<Global("int")>>, <<Field>>, <<Declare("Other", "Type")>> >> >>,
   \* a cycle that does not compile, one that cannot be parsed
   << << <<b>>, <<a>>, <<>> >>, << <<Global("int")>>, <<Global("int")>>, <<>> >> >>,
   << << <<b>>, <<a>>, <<>> >>, << <<Broken(Field)>>, <<Global("int")>>, <<>> >> >>,
   << << <<b>>, <<a, c>>, <<Import(<<"missing">>)>> >>, << <<>>, <<Field>>, <<Other>> >> >>,
   \* two ways back to a script
   << << <<b>>, <<c, a>>, <<a, b>> >>, << <<Field>>, <<Other>>, <<>> >> >>,
   \* a script under two spellings
   << << <<b, Import(<<".", "c">>)>>, <<c>>, <<>> >>, << <<>>, <<Other>>, <<Field>> >> >>,
   \* casters: one way, and both ways
   << << <<b>>, <<>>, <<>> >>, << <<CastOf(FALSE)>>, <<Field, Other>>, <<>> >> >>,
   << << <<b>>, <<>>, <<>> >>, << <<CastOf(TRUE)>>, <<Field, Global("Other")>>, <<>> >> >> }

FileOf(imports, elements) == [balanced |-> TRUE, statements |-> imports \o elements]

MCFileSystems ==
  {[path \in {<<"a">>, <<"b">>, <<"c">>} |->
      LET n == CASE path = <<"a">> -> 1 [] path = <<"b">> -> 2 [] path = <<"c">> -> 3
      IN FileOf(system[1][n], system[2][n])] : system \in Systems}

MCEdits == [path \in {<<"b">>} |-> FileOf(<<>>, <<Declare("Other", "ints")>>)]
MCPaths == {<<"a">>, <<"b">>}
MCNames == {"Type", "Other", "GLOBAL", "call"}
MCCasts == {<<"Type", "Other">>, <<"Other", "Type">>, <<"Type", "int">>}
MCNativeNames == {"call", "GLOBAL"}
MCLinkers == {[hash |-> "C++ Type", type |-> "Type", subs |-> {}]}
MCNativeCasters == {[id |-> 1, a |-> VariableType("Type"), b |-> VariableType("int"), both |-> FALSE]}
=============================================================================
