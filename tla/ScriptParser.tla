---------------------------- MODULE ScriptParser ----------------------------
(***************************************************************************)
(* Loading a script: the file is parsed, the scripts it imports are loaded *)
(* while it is, and the loader remembers under which path it was asked for *)
(* each.  src/Nectere/Script/ScriptLoader.cpp, SingleScriptParser.cpp.     *)
(*                                                                         *)
(* A file is [balanced, statements].  A statement is a record with kind,   *)
(* wellFormed (what the parser asks of its layout), private, tags and what *)
(* the compiler needs (see ScriptCompilation).  A path is a sequence of    *)
(* directories that ends with the name of the file.                        *)
(***************************************************************************)
EXTENDS ScriptCompilation

CONSTANT PathMax   \* the longest path stat accepts: stands for PATH_MAX

Directory(path) == Front(path)
\* The file that stat and ifstream find: "." is where one is.
Resolved(path) == SelectSeq(path, LAMBDA part : part # ".")

\* What a parser has registered so far; ok is what Parse will return.
NewParser(w, i) ==
  [w |-> w, i |-> i, ok |-> TRUE, tags |-> NoTags, imports |-> {}, globals |-> {},
   definitions |-> {}, functions |-> {}, casters |-> {}]
Reject(p) == [p EXCEPT !.ok = FALSE]

\* ParseGlobal.
ParseGlobal(p, st) ==
  IF ~st.wellFormed \/ ~CheckName("Global", st.name) \/ st.name \in p.globals THEN Reject(p)
  ELSE [p EXCEPT !.globals = @ \cup {st.name},
                 !.w = AddGlobalToCompile(p.w, p.i,
                         [name |-> st.name, type |-> st.type, fits |-> st.fits,
                          private |-> st.private, tags |-> p.tags])]

\* ParseDeclaredObjectDefinition: the names of its variables are checked too.
ParseDeclaredObjectDefinition(st) ==
  /\ st.wellFormed
  /\ CheckName("DeclaredObject", st.type)
  /\ \A v \in DOMAIN st.variables : CheckName("Variable", st.variables[v].name)

SubTypes(st) ==
  {st.variables[v].type : v \in {n \in DOMAIN st.variables :
                                   VariableType(st.variables[n].type).kind = "object"}}

\* ParseDeclaredObject: what is there already is known by all of its text, a
\* definition of another text and the same name replaces the first.
ParseDeclaredObject(p, st) ==
  IF st.text \in p.definitions \/ ~ParseDeclaredObjectDefinition(st) THEN Reject(p)
  ELSE [p EXCEPT !.definitions = @ \cup {st.text},
                 !.w = AddDeclaredObjectDefinition(p.w, p.i, st.private,
                         [type |-> st.type, text |-> st.text, subs |-> SubTypes(st),
                          tags |-> p.tags])]

\* ParseSignature.
Modifier(parameter) == IF parameter.modifier = "&" THEN "Mutable" ELSE "Copy"
ParseSignature(st) == st.wellFormed /\ CheckName("Function", st.name)
Parameters(st) ==
  [n \in DOMAIN st.params |->
     [name |-> st.params[n].name, type |-> st.params[n].type, kind |-> Modifier(st.params[n]),
      default |-> \E m \in DOMAIN st.params : st.params[m].name = st.params[n].name /\ st.params[m].default]]

ParseFunction(p, st) ==
  IF ~ParseSignature(st) \/ st.name \in p.functions THEN Reject(p)
  ELSE [p EXCEPT !.functions = @ \cup {st.name},
                 !.w = AddFunction(p.w, p.i, st.private,
                         [name |-> st.name, returns |-> VariableType(st.returns),
                          params |-> Parameters(st), tags |-> p.tags])]

\* ParseCast: the way back of a bidirectional caster is looked for, and put,
\* among the ways there (aToBIt, lines 633 and 639).
ParseCast(p, st) ==
  LET there == <<st.from, st.to>>
      back == <<st.from, st.from>>
      caster == [id |-> <<p.i, st.from, st.to>>, a |-> VariableType(st.from),
                 b |-> VariableType(st.to), both |-> st.both, tags |-> p.tags]
  IN CASE ~st.wellFormed \/ there \in p.casters -> Reject(p)
       [] st.wellFormed /\ there \notin p.casters /\ st.both /\ back \in p.casters \cup {there} -> Reject(p)
       [] OTHER -> [p EXCEPT !.casters = @ \cup {there} \cup (IF st.both THEN {back} ELSE {}),
                             !.w = AddCaster(p.w, p.i, st.private, caster)]

\* ParseImport.  The tags go to the script itself, for everybody who imports it.
\* Line 280 uses the script the loader gave, whether or not it still exists.
RECURSIVE LoadFile(_, _, _, _)
ParseImport(p, st, dir, files, depth) ==
  LET loaded == LoadFile(p.w, dir \o st.path, files, depth)
      j == loaded.v
      registered == [p EXCEPT !.imports = @ \cup {st.path}, !.w = loaded.w]
  IN CASE ~st.wellFormed \/ st.path \in p.imports -> Reject(p)
       [] st.wellFormed /\ st.path \notin p.imports /\ j = 0 -> Reject(registered)
       [] st.wellFormed /\ st.path \notin p.imports /\ j # 0 /\ ~loaded.w.s[j].alive ->
            Reject([registered EXCEPT !.w = Undefined(@, "freed script")])
       [] OTHER ->
            [registered EXCEPT !.w = AddImport([@ EXCEPT !.s[j].tags = AddTags(@, p.tags)], p.i, j, st.private)]

\* One declaration: its own tags join those left over, and only an import leaves
\* them for the next one.
ParseStatement(p, st, dir, files, depth) ==
  LET tagged == [p EXCEPT !.tags = AddTags(@, st.tags)]
      done == CASE st.kind = "import"   -> ParseImport(tagged, st, dir, files, depth)
                [] st.kind = "declare"  -> ParseDeclaredObject(tagged, st)
                [] st.kind = "cast"     -> ParseCast(tagged, st)
                [] st.kind = "global"   -> ParseGlobal(tagged, st)
                [] st.kind = "function" -> ParseFunction(tagged, st)
  IN IF st.kind = "import" THEN done ELSE [done EXCEPT !.tags = NoTags]

\* Parse: brackets and quotes first, then one declaration after another.
Parse(w, i, content, dir, files, depth) ==
  IF ~content.balanced THEN Reject(NewParser(w, i))
  ELSE FoldLeft(LAMBDA p, st : IF p.ok /\ Fine(p.w) THEN ParseStatement(p, st, dir, files, depth) ELSE p,
                NewParser(w, i), content.statements)
-----------------------------------------------------------------------------
(* ScriptLoader. *)

\* The script a failed load is about is deleted and its path is null for good.
LoadFails(w, path, i) ==
  R([Delete(w, i) EXCEPT !.loaded = Put(@, path, 0), !.failed = TRUE], 0)

\* Faulty variant: a path that is null is tried once more.
LoadFileRetries(w, path, files, depth) ==
  LET i == Len(w.s) + 1
      made == [w EXCEPT !.s = Append(@, NewScript(path)), !.loaded = Put(@, path, i)]
      p == Parse(made, i, files[Resolved(path)], Directory(path), files, depth - 1)
  IN CASE ~Fine(w) \/ depth = 0 -> R(w, 0)
       [] Fine(w) /\ depth > 0 /\ path \in DOMAIN w.loaded /\ w.loaded[path] # 0 -> R(w, w.loaded[path])
       [] OTHER -> IF Resolved(path) \in DOMAIN files /\ Len(path) <= PathMax /\ p.ok /\ Fine(p.w)
                   THEN R(p.w, i) ELSE LoadFails(made, path, i)

\* Load(path, false): what was loaded under that path, whatever became of it.
\* The script is in the table before it is parsed: a cycle of imports ends.
LoadFile(w, path, files, depth) ==
  LET i == Len(w.s) + 1
      made == [w EXCEPT !.s = Append(@, NewScript(path)), !.loaded = Put(@, path, i)]
      file == Resolved(path)
      p == Parse(made, i, files[file], Directory(path), files, depth - 1)
  IN CASE ~Fine(w) -> R(w, 0)
       [] Fine(w) /\ depth = 0 -> R([w EXCEPT !.status = "overflow"], 0)
       [] Fine(w) /\ depth > 0 /\ path \in DOMAIN w.loaded -> R(w, w.loaded[path])
       [] Fine(w) /\ depth > 0 /\ path \notin DOMAIN w.loaded /\
          (file \notin DOMAIN files \/ Len(path) > PathMax) ->
            LoadFails(made, path, i)
       [] OTHER -> IF p.ok /\ Fine(p.w) THEN R(p.w, i) ELSE LoadFails(p.w, path, i)

\* Load and Reload of the loader, which differ in what they return only: neither
\* reads a file again, and neither cares for what Compile says.
LoadAndCompile(w, path, files) ==
  LET r == LoadFile(w, path, files, StackDepth)
  IN IF r.v = 0 \/ ~Fine(r.w) THEN r
     ELSE R(Compile(r.w, r.v, StackDepth).w, r.v)

\* Get.
LoadedScript(w, path) == IF path \in DOMAIN w.loaded THEN w.loaded[path] ELSE 0

\* Faulty variant: a script deletes what it imports.
DestroyLoaderImports(w) ==
  LET scripts == {path \in DOMAIN w.loaded : w.loaded[path] # 0}
  IN FoldLeft(LAMBDA x, i : FoldLeft(Delete, Delete(x, i), w.s[i].all), w,
              SetToSeq({w.loaded[path] : path \in scripts}))

\* ~ScriptLoader deletes every script of its table that is not null.
DestroyLoader(w) ==
  LET scripts == {path \in DOMAIN w.loaded : w.loaded[path] # 0}
  IN FoldLeft(LAMBDA x, path : Delete(x, w.loaded[path]), w, SetToSeq(scripts))
=============================================================================
