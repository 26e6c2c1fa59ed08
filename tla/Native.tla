------------------------------- MODULE Native -------------------------------
(***************************************************************************)
(* What C++ registers with the script engine: types (through linkers),     *)
(* globals, callables and casters.  src/Nectere/Script/Native.cpp,         *)
(* NativeUtils.hpp, Linker.hpp, NativeFunction/*.hpp.                      *)
(*                                                                         *)
(* An operator takes the world w of the engine and returns R(world, value).*)
(* w.status is "defined" until the code would execute undefined behaviour, *)
(* and then says what it used that was not there any more: nothing that    *)
(* follows means anything.                                                 *)
(*                                                                         *)
(* A callable is a record [id, name, hash, returns, helper]: hash is the   *)
(* C++ type it returns, "raw" for the types that need no linker; returns,  *)
(* the script type of its signature; helper, whether a default value needs *)
(* the definition of an object.  A linker is [hash, type, subs].  Linker   *)
(* is a template nobody instantiates, and spells members of other classes  *)
(* wrongly (m_typeName, m_subtypes): it is modelled with their real names. *)
(***************************************************************************)
EXTENDS ScriptTypes, FiniteSets

R(w, v) == [w |-> w, v |-> v]
Fine(w) == w.status = "defined"
Undefined(w, freed) == [w EXCEPT !.status = freed]

Nothing == <<>>
NoTable == [n \in {} |-> Nothing]

\* table[key] = value.
Put(table, key, value) ==
  [k \in DOMAIN table \cup {key} |-> IF k = key THEN value ELSE table[k]]
Erase(table, key) == [k \in DOMAIN table \ {key} |-> table[k]]
\* The vector of a key, which is made when it is not there.
Vector(table, key) == IF key \in DOMAIN table THEN table[key] ELSE <<>>

\* Caster::CanCast.
CanCast(caster, from, to) ==
  \/ from = caster.a /\ to = caster.b
  \/ caster.both /\ from = caster.b /\ to = caster.a

\* A bidirectional caster is in the vectors of both its types.
AddToCasters(table, caster) ==
  LET one == Put(table, caster.a, Append(Vector(table, caster.a), caster))
  IN IF caster.both THEN Put(one, caster.b, Append(Vector(one, caster.b), caster)) ELSE one

\* The first caster of the vector of from that can.
FirstCaster(table, from, to) ==
  LET able == {n \in DOMAIN Vector(table, from) : CanCast(table[from][n], from, to)}
  IN IF able = {} THEN Nothing ELSE <<table[from][CHOOSE n \in able : \A m \in able : n <= m]>>
-----------------------------------------------------------------------------
InitNative ==
  [types |-> {}, globals |-> {}, functions |-> NoTable, unCompiled |-> NoTable,
   serializers |-> {}, casters |-> NoTable, unInitialized |-> NoTable,
   wrapper |-> NoTable, deleted |-> {}, made |-> 0]

\* AddObjectDefinition: false when the name is taken.
AddObjectDefinition(w, type) ==
  IF type \in w.native.types THEN R(w, FALSE)
  ELSE R([w EXCEPT !.native.types = @ \cup {type}], TRUE)

\* CheckType: an object is declared, and so is what an array holds.
RECURSIVE NativeCheckType(_, _)
NativeCheckType(w, type) ==
  /\ type.kind = "object" => type.name \in w.native.types
  /\ type.kind = "array" /\ type.of # NoType => NativeCheckType(w, type.of)

DeleteCallable(w, c) == [w EXCEPT !.native.deleted = @ \cup {c.id}]

NameTaken(w, name) == name \in DOMAIN w.native.functions \cup DOMAIN w.native.unCompiled

\* AddCallable of one that returns a raw type: compiled at once.  Its default
\* values are built with m_Helper, a reference to a temporary that is gone.
AddRawCallable(w, c) ==
  CASE NameTaken(w, c.name) \/ c.returns # c.hash -> R(DeleteCallable(w, c), FALSE)
    [] ~NameTaken(w, c.name) /\ c.returns = c.hash /\ c.helper -> R(Undefined(w, "freed helper"), FALSE)
    [] OTHER -> R([w EXCEPT !.native.functions = Put(@, c.name, c)], TRUE)

\* AddCallable of one that returns an object: compiled when it is first asked for.
AddObjectCallable(w, c) ==
  IF NameTaken(w, c.name) THEN R(DeleteCallable(w, c), FALSE)
  ELSE R([w EXCEPT !.native.unCompiled = Put(@, c.name, c)], TRUE)

\* DeclaredObjectFunction::CheckSignature.
CheckSignature(w, c) ==
  c.id \in DOMAIN w.native.wrapper /\ w.native.wrapper[c.id] = c.returns

\* GetCallable: a callable asked for before its linker is there is deleted.
NativeGetCallable(w, name) ==
  LET waits == name \in DOMAIN w.native.unCompiled
      c == w.native.unCompiled[name]
      taken == [w EXCEPT !.native.unCompiled = Erase(@, name)]
  IN CASE name \in DOMAIN w.native.functions -> R(w, <<0, "native", name>>)
       [] waits /\ c.hash \in w.native.serializers /\ CheckSignature(w, c) ->
            R([taken EXCEPT !.native.functions = Put(@, name, c)], <<0, "native", name>>)
       [] waits /\ ~(c.hash \in w.native.serializers /\ CheckSignature(w, c)) ->
            R(DeleteCallable(taken, c), Nothing)
       [] OTHER -> R(w, Nothing)

\* AddCaster.  The copy that RegisterCaster made is leaked when a type is unknown.
NativeAddCaster(w, caster) ==
  IF NativeCheckType(w, caster.a) /\ NativeCheckType(w, caster.b)
  THEN R([w EXCEPT !.native.casters = AddToCasters(@, caster)], TRUE)
  ELSE R(w, FALSE)

\* The casters of the raw types are looked up by the type cast from, and can
\* only cast to their own.
NativeCasterCan(from, to) == IsRaw(from) /\ to.kind = from.kind

NativeGetCaster(w, from, to) ==
  IF NativeCasterCan(from, to) THEN <<0, "raw", from>>
  ELSE LET found == FirstCaster(w.native.casters, from, to)
       IN IF found = Nothing THEN Nothing ELSE <<0, "native", found[1]>>

NativeCanCast(w, from, to) == NativeGetCaster(w, from, to) # Nothing
-----------------------------------------------------------------------------
(* NativeUtils. *)

\* RegisterCallable: one that returns an object is to learn of its linker, and
\* is remembered for that before anybody knows whether it will be deleted.
RegisterCallable(w, c) ==
  LET made == [w EXCEPT !.native.made = c.id]
      remembered ==
        IF c.hash \in RawName THEN made
        ELSE [made EXCEPT !.native.unInitialized = Put(@, c.hash, Append(Vector(@, c.hash), c))]
  IN CASE ~CheckName("Function", c.name) -> R(DeleteCallable(remembered, c), FALSE)
       [] CheckName("Function", c.name) /\ c.hash \in RawName -> AddRawCallable(remembered, c)
       [] OTHER -> AddObjectCallable(remembered, c)

\* Linker::Compile: the definition of the object, of known types.
LinkerCompile(w, linker) ==
  IF linker.subs \subseteq w.native.types THEN AddObjectDefinition(w, linker.type)
  ELSE R(w, FALSE)

\* RegisterLinker tells the callables that were registered for its type, and
\* not those that will be.  A deleted one is told too.
RegisterLinker(w, linker) ==
  LET compiled == LinkerCompile(w, linker)
      told == {Vector(w.native.unInitialized, linker.hash)[n] :
                 n \in DOMAIN Vector(w.native.unInitialized, linker.hash)}
      ids == {c.id : c \in told}
  IN CASE ~CheckName("DeclaredObject", linker.type) \/ ~compiled.v -> R(w, FALSE)
       [] ids \cap w.native.deleted # {} -> R(Undefined(w, "freed callable"), FALSE)
       [] OTHER ->
            R([compiled.w EXCEPT
                 !.native.serializers = @ \cup {linker.hash},
                 !.native.wrapper =
                   [id \in DOMAIN @ \cup ids |-> IF id \in ids THEN linker.type ELSE @[id]]], TRUE)

\* AddGlobal of a raw value, or of an object whose linker is there.
AddGlobal(w, name, hash) ==
  IF /\ CheckName("Global", name) /\ name \notin w.native.globals
     /\ hash \in RawName \cup w.native.serializers
  THEN R([w EXCEPT !.native.globals = @ \cup {name}], TRUE)
  ELSE R(w, FALSE)

\* ~Native deletes every caster of every vector, a bidirectional one twice.
DestroyNative(w) ==
  IF \E a, b \in DOMAIN w.native.casters : \E m \in DOMAIN w.native.casters[a], n \in DOMAIN w.native.casters[b] :
       <<a, m>> # <<b, n>> /\ w.native.casters[a][m].id = w.native.casters[b][n].id
  THEN Undefined(w, "freed caster") ELSE w
=============================================================================
