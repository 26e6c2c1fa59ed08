------------------------- MODULE ScriptCompilation -------------------------
(***************************************************************************)
(* Script::Compile and what it calls: the imports first, then the script's *)
(* own types, globals, casters and functions.  What does not compile is    *)
(* deleted.  src/Nectere/Script/Script.cpp from 377 on, Function.cpp,      *)
(* Signature.cpp, Callable.cpp.                                            *)
(*                                                                         *)
(* A definition is [type, text, subs, tags]; a global [name, type, fits,   *)
(* private, tags], fits: its text is a value of its type; a function       *)
(* [name, returns, params, tags], a parameter [name, type, kind, default]; *)
(* a caster [id, a, b, both, tags], its types records of ScriptTypes.      *)
(***************************************************************************)
EXTENDS Script

\* The first of a sequence of steps that fails ends it: the && of Compile.
Then(r, Step(_)) == IF r.v /\ Fine(r.w) THEN Step(r.w) ELSE R(r.w, FALSE)

\* The elements of a table one after another; those that fail are deleted.
\* Iteration is in the order of a hash table: in any order.
Kept(r, c, i, table, vis, key) ==
  CASE ~Fine(r.w) -> R(r.w, FALSE)
    [] Fine(r.w) /\ ~Fine(c.w) -> R(c.w, FALSE)
    [] Fine(r.w) /\ Fine(c.w) /\ c.v -> R(c.w, r.v)
    [] OTHER -> R([c.w EXCEPT !.s[i][table][vis] = Erase(@, key)], FALSE)

CompileAll(r, i, table, vis, Compiles(_, _)) ==
  FoldLeft(LAMBDA x, key :
             Kept(x, Compiles(x.w, x.w.s[i][table][vis][key]), i, table, vis, key),
           r, SetToSeq(DOMAIN r.w.s[i][table][vis]))

Both(w, i, table, Compiles(_, _)) ==
  CompileAll(CompileAll(R(w, TRUE), i, table, "priv", Compiles), i, table, "pub", Compiles)
-----------------------------------------------------------------------------
(* Duplicates: what was found twice, and what is declared so far.          *)

\* What a script declares in public: names, or the pairs its casters convert.
Declares(script, table) ==
  IF table # "casters" THEN DOMAIN script[table].pub
  ELSE {<<type, IF script.casters.pub[type][n].a = type THEN script.casters.pub[type][n].b
                                                        ELSE script.casters.pub[type][n].a>> :
          <<type, n>> \in UNION {{<<t, m>> : m \in DOMAIN script.casters.pub[t]} :
                                 t \in DOMAIN script.casters.pub}}

RECURSIVE CheckDuplicate(_, _, _, _, _, _)
CheckDuplicate(w, i, call, table, declared, depth) ==
  Locked(w, i, call, depth, [found |-> FALSE, names |-> declared], LAMBDA locked :
    LET own == Declares(locked.s[i], table)
    IN IF own \cap declared # {} THEN R(locked, [found |-> TRUE, names |-> declared])
       ELSE FoldLeft(LAMBDA r, j :
                       IF r.v.found THEN r
                       ELSE CheckDuplicate(r.w, j, call, table, r.v.names, depth - 1),
                     R(locked, [found |-> FALSE, names |-> declared \cup own]), locked.s[i].pub))

CheckDuplicateCaster(w, i, declared) ==
  CheckDuplicate(w, i, "CheckDuplicateCaster", "casters", declared, StackDepth)

RECURSIVE Compile(_, _, _)

\* What one check adds to the set of that name, or the end of it.
Added(r, set, check) ==
  R(check.w, IF check.v.found THEN [r.v EXCEPT !.ok = FALSE]
                              ELSE [r.v EXCEPT !.sets[set] = check.v.names])

Unique(r, j, set, call, table) ==
  IF r.v.ok THEN Added(r, set, CheckDuplicate(r.w, j, call, table, r.v.sets[set], StackDepth)) ELSE r

\* Faulty variant: nobody looks for globals.
DuplicatesNoGlobals(r, j) ==
  Unique(r, j, "global", "CheckDuplicateObjectDefinition", "types")

Duplicates(r, j) ==
  Unique(Unique(Unique(r, j, "global", "CheckDuplicateObjectDefinition", "types"),
                j, "global", "CheckDuplicateGlobal", "globals"),
         j, "function", "CheckDuplicateObjectDefinition", "types")

\* That a caster is there twice is found out and forgotten.
Forgotten(r, check) == R(check.w, [r.v EXCEPT !.sets.caster = check.v.names])

WithCasters(r, j) ==
  IF r.v.ok THEN Forgotten(r, CheckDuplicateCaster(r.w, j, r.v.sets.caster)) ELSE r

\* CompileImport: types and globals share one set; functions are not looked at,
\* the types are taken for them once more.  What a failure has added is undone.
Restored(r, sets) == IF r.v.ok THEN r ELSE R(r.w, [ok |-> FALSE, sets |-> sets])
Compiled(c, sets) == R(c.w, [ok |-> c.v, sets |-> sets])

CompileImport(w, i, j, sets, depth) ==
  Restored(WithCasters(Duplicates(Compiled(Compile(w, j, depth), sets), j), j), sets)

\* CompileImports, from the n-th import on.  An import that fails is deleted and
\* taken out of m_AllImports only: m_Imports and the loader still have it.  The
\* loop's iterator does not survive that another call changed what it has passed.
RECURSIVE CompileImports(_, _, _, _, _, _)
AfterDeletion(gone, i, n, sets, depth) ==
  CASE ~Fine(gone) -> R(gone, FALSE)
    [] Fine(gone) /\ ~gone.s[i].alive -> R(Undefined(gone, "freed script"), FALSE)
    [] OTHER -> CompileImports([gone EXCEPT !.s[i].all = RemoveAt(@, n)], i, n, sets, FALSE, depth)

AfterImport(r, i, n, list, ok, depth) ==
  LET gone == Delete([r.w EXCEPT !.failed = TRUE], list[n])
  IN CASE ~Fine(r.w) -> R(r.w, FALSE)
       [] Fine(r.w) /\ (~r.w.s[i].alive \/ ~IsPrefix(SubSeq(list, 1, n), r.w.s[i].all)) ->
            R(Undefined(r.w, "freed script"), FALSE)
       [] OTHER ->
            IF r.v.ok THEN CompileImports(r.w, i, n + 1, r.v.sets, ok, depth)
            ELSE AfterDeletion(gone, i, n, r.v.sets, depth)

CompileImports(w, i, n, sets, ok, depth) ==
  IF ~Fine(w) \/ n > Len(w.s[i].all) THEN R(w, ok)
  ELSE AfterImport(CompileImport(w, i, w.s[i].all[n], sets, depth), i, n, w.s[i].all, ok, depth)
-----------------------------------------------------------------------------
(* The script's own elements. *)

\* CompileDeclaredObjectDefinition: nobody imported has a type of that name, and
\* the types it is made of are known.
Found(r, inverse) == R(r.w, (r.v # Nothing) # inverse)
CompileDefinition(w, i, definition) ==
  FoldLeft(LAMBDA r, sub :
             IF r.v THEN Found(GetObjectDefinition(r.w, i, sub, TRUE, TRUE), FALSE) ELSE r,
           Found(Imported(w, i, "GetObjectDefinition", "types", definition.type), TRUE),
           SetToSeq(definition.subs))

CompileDeclaredObjectDefinitions(w, i) ==
  Both(w, i, "types", LAMBDA x, definition : CompileDefinition(x, i, definition))

\* CreateUnit: an object needs its definition; the text has to be a value.
CreateUnit(w, i, type, fits, inNative) ==
  IF VariableType(type).kind = "object"
  THEN Then(Found(GetObjectDefinition(w, i, type, TRUE, inNative), FALSE), LAMBDA x : R(x, fits))
  ELSE R(w, fits)

\* CompileGlobals ends at the first that fails.
CompileGlobal(w, i, global) ==
  Then(Then(Found(Imported(w, i, "GetGlobal", "globals", global.name), TRUE),
            LAMBDA x : CreateUnit(x, i, global.type, global.fits, TRUE)),
       LAMBDA x : R(AddEntry(x, i, "globals", global.private, global.name, global), TRUE))

CompileGlobals(w, i) ==
  FoldLeft(LAMBDA r, global : Then(r, LAMBDA x : CompileGlobal(x, i, global)),
           R(w, TRUE), w.s[i].toCompile)

\* CheckType: as Native's, over the scripts.
RECURSIVE CheckType(_, _, _)
CheckType(w, i, type) ==
  CASE type.kind = "object" -> HaveObjectDefinition(w, i, type.name, TRUE, TRUE)
    [] type.kind = "array" /\ type.of # NoType -> CheckType(w, i, type.of)
    [] OTHER -> R(w, TRUE)

CompileCaster(w, i, caster) ==
  Then(CheckType(w, i, caster.a), LAMBDA x : CheckType(x, i, caster.b))

\* The casters of one vector: those that fail are deleted, a bidirectional one
\* while the other vector still has it.
Sorted(r, c, caster) ==
  CASE ~Fine(r.w) -> r
    [] Fine(r.w) /\ caster.id \in r.v.gone -> R(Undefined(r.w, "freed caster"), r.v)
    [] Fine(r.w) /\ caster.id \notin r.v.gone /\ c.v -> R(c.w, [r.v EXCEPT !.kept = TRUE])
    [] OTHER -> R(c.w, [r.v EXCEPT !.gone = @ \cup {caster.id}])

CompileVector(w, i, vis, key) ==
  FoldLeft(LAMBDA r, caster : Sorted(r, CompileCaster(r.w, i, caster), caster),
           R(w, [gone |-> {}, kept |-> FALSE]), w.s[i].casters[vis][key])

Dangling(w, i, vis, key, gone) ==
  \E t \in DOMAIN w.s[i].casters[vis] \ {key} :
    \E n \in DOMAIN w.s[i].casters[vis][t] : w.s[i].casters[vis][t][n].id \in gone

\* CompileCasters erases the vectors that are left with something,
\* !casters.size() == 0, and keeps the empty ones.
CompiledVector(r, c, i, vis, key) ==
  CASE ~Fine(r.w) -> R(r.w, FALSE)
    [] Fine(r.w) /\ ~Fine(c.w) -> R(c.w, FALSE)
    [] Fine(r.w) /\ Fine(c.w) /\ Dangling(r.w, i, vis, key, c.v.gone) ->
         R(Undefined(c.w, "freed caster"), FALSE)
    [] OTHER -> R([c.w EXCEPT !.s[i].casters[vis] =
                     IF c.v.kept THEN Erase(@, key) ELSE Put(@, key, <<>>)],
                  r.v /\ c.v.gone = {})

CompileCasterTable(r, i, vis) ==
  FoldLeft(LAMBDA x, key : CompiledVector(x, CompileVector(x.w, i, vis, key), i, vis, key),
           r, SetToSeq(DOMAIN r.w.s[i].casters[vis]))

CompileCasters(w, i) ==
  CompileCasterTable(CompileCasterTable(R(w, TRUE), i, "priv"), i, "pub")

\* Function::Compile: a default value of an object needs its definition.  The
\* body was dropped by AddBody, there is nothing in it to compile.
CompileParametersDefault(w, i, function) ==
  FoldLeft(LAMBDA r, parameter :
             IF ~r.v \/ ~parameter.default THEN r
             ELSE CreateUnit(r.w, i, parameter.type, TRUE, TRUE),
           R(w, TRUE), function.params)

CompileFunction(w, i, function) ==
  Then(Found(Imported(w, i, "GetCallable", "functions", function.name), TRUE),
       LAMBDA x : CompileParametersDefault(x, i, function))

CompileFunctions(w, i) ==
  Both(w, i, "functions", LAMBDA x, function : CompileFunction(x, i, function))

\* Compile.  A script that is being compiled counts as compiled.
Ended(all, i) ==
  IF all.v /\ Fine(all.w) THEN R([all.w EXCEPT !.s[i].compiled = TRUE], TRUE)
  ELSE R(IF Fine(all.w) THEN [all.w EXCEPT !.failed = TRUE] ELSE all.w, FALSE)

Compile(w, i, depth) ==
  Locked(w, i, "Compile", depth, TRUE, LAMBDA locked :
    Ended(Then(Then(Then(Then(
      CompileImports(locked, i, 1, [global |-> {}, function |-> {}, caster |-> {}], TRUE, depth - 1),
      LAMBDA x : CompileDeclaredObjectDefinitions(x, i)),
      LAMBDA x : CompileGlobals(x, i)),
      LAMBDA x : CompileCasters(x, i)),
      LAMBDA x : CompileFunctions(x, i)), i))
=============================================================================
