---------------------------- MODULE Interpreter ----------------------------
(***************************************************************************)
(* The script engine as its owner sees it: scripts are loaded, used and    *)
(* reloaded, C++ elements registered, elements looked up, in any order.    *)
(* src/Nectere/Script/Interpreter.cpp and .hpp.                            *)
(*                                                                         *)
(* The engine has one thread and every call is one step.  Files may change *)
(* between two calls.  What calls compute with values is not here, only    *)
(* which element they find and which types it is called with.              *)
(***************************************************************************)
EXTENDS ScriptParser

CONSTANTS FileSystems,   \* what the files may hold at first
          Edits,         \* files -> what they may be changed to
          Paths,         \* the paths the owner passes
          Names,         \* the names the owner asks for
          Casts,         \* the types it casts from and to
          NativeNames,   \* the names it registers
          Linkers,       \* the linkers it registers
          NativeCasters, \* the casters it registers
          MaxCallables   \* bound: callables it registers

VARIABLES w,        \* the engine: scripts, natives, loader, see Script
          files,    \* what is in the files
          current,  \* m_Current, 0 for null
          ended     \* whether the Interpreter is destroyed

vars == <<w, files, current, ended>>

Init ==
  /\ files \in FileSystems
  /\ w = [s |-> <<>>, native |-> InitNative, loaded |-> NoTable, status |-> "defined", failed |-> FALSE]
  /\ current = 0
  /\ ended = FALSE

Running == ~ended /\ Fine(w)
-----------------------------------------------------------------------------
Load(path, use) ==
  /\ Running
  /\ LET r == LoadAndCompile(w, path, files)
     IN /\ w' = r.w
        /\ current' = IF use /\ r.v # 0 THEN r.v ELSE current
  /\ UNCHANGED <<files, ended>>

Use(path) ==
  /\ Running
  /\ LoadedScript(w, path) # 0
  /\ current' = LoadedScript(w, path)
  /\ UNCHANGED <<w, files, ended>>

Reload(path) ==
  /\ Running
  /\ w' = LoadAndCompile(w, path, files).w
  /\ UNCHANGED <<files, current, ended>>

\* What an element of native answers is not asked of the scripts.
LookUp(inNative, native, Find(_)) ==
  IF inNative THEN native ELSE IF current = 0 THEN w ELSE Find(w).w

\* GetGlobal of a script that has not been compiled is null.  Whether it has is
\* read from the script, which has to be there.
OfCompiled(x, Find(_)) ==
  CASE ~x.s[current].alive -> R(Undefined(x, "freed script"), Nothing)
    [] x.s[current].alive /\ ~x.s[current].compiled -> R(x, Nothing)
    [] OTHER -> Find(x)

GetGlobalVariable(name) ==
  /\ Running
  /\ w' = LookUp(name \in w.native.globals, w,
                 LAMBDA x : OfCompiled(x, LAMBDA y : GetGlobal(y, current, name, TRUE, FALSE)))
  /\ UNCHANGED <<files, current, ended>>

GetCallableOf(name) ==
  /\ Running
  /\ w' = LookUp(NameTaken(w, name), NativeGetCallable(w, name).w,
                 LAMBDA x : GetCallable(x, current, name, FALSE, FALSE))
  /\ UNCHANGED <<files, current, ended>>

GetDeclaredObject(name) ==
  /\ Running
  /\ w' = LookUp(name \in w.native.types, w,
                 LAMBDA x : GetObjectDefinition(x, current, name, FALSE, FALSE))
  /\ UNCHANGED <<files, current, ended>>

\* InternalCall: the function is looked for in the script in use and in native.
Call(name) ==
  /\ Running
  /\ w' = IF current = 0 THEN NativeGetCallable(w, name).w
          ELSE GetCallable(w, current, name, FALSE, TRUE).w
  /\ UNCHANGED <<files, current, ended>>

\* CreateVar: native for raw types, arrays of them and registered objects.
CreateVarIn(x, type) ==
  IF current = 0 \/ NativeCheckType(x, VariableType(type)) THEN x
  ELSE OfCompiled(x, LAMBDA y : CreateUnit(y, current, type, TRUE, FALSE)).w

CreateVar(type) ==
  /\ Running
  /\ w' = CreateVarIn(w, type)
  /\ UNCHANGED <<files, current, ended>>

\* Cast: a variable to cast into, then a caster of native, then of a script.
Cast(from, to) ==
  /\ Running
  /\ LET x == CreateVarIn(w, to)
     IN w' = IF NativeGetCaster(x, VariableType(from), VariableType(to)) # Nothing \/ current = 0 THEN x
             ELSE GetCaster(x, current, VariableType(from), VariableType(to), TRUE, FALSE).w
  /\ UNCHANGED <<files, current, ended>>

RegisterCaster(caster) ==
  /\ Running
  /\ \A t \in DOMAIN w.native.casters : \A n \in DOMAIN w.native.casters[t] :
       w.native.casters[t][n].id # caster.id
  /\ w' = NativeAddCaster(w, caster).w
  /\ UNCHANGED <<files, current, ended>>

RegisterNative(name, hash, returns, helper) ==
  /\ Running
  /\ w.native.made < MaxCallables
  /\ w' = RegisterCallable(w, [id |-> w.native.made + 1, name |-> name, hash |-> hash,
                               returns |-> returns, helper |-> helper]).w
  /\ UNCHANGED <<files, current, ended>>

RegisterLinkerOf(linker) ==
  /\ Running
  /\ w' = RegisterLinker(w, linker).w
  /\ UNCHANGED <<files, current, ended>>

RegisterGlobal(name, hash) ==
  /\ Running
  /\ w' = AddGlobal(w, name, hash).w
  /\ UNCHANGED <<files, current, ended>>

\* ~Interpreter: native first, then the scripts.
Destroy ==
  /\ Running
  /\ w' = LET x == DestroyNative(w) IN IF Fine(x) THEN DestroyLoader(x) ELSE x
  /\ ended' = TRUE
  /\ current' = 0
  /\ UNCHANGED files

\* Somebody writes a file.
Edit(file) ==
  /\ Running
  /\ files' = [files EXCEPT ![file] = Edits[file]]
  /\ UNCHANGED <<w, current, ended>>
-----------------------------------------------------------------------------
Next ==
  \/ \E path \in Paths : \/ \E use \in BOOLEAN : Load(path, use)
                         \/ Use(path)
                         \/ Reload(path)
  \/ \E name \in Names : \/ GetGlobalVariable(name)
                         \/ GetCallableOf(name)
                         \/ GetDeclaredObject(name)
                         \/ Call(name)
                         \/ CreateVar(name)
  \/ \E types \in Casts : Cast(types[1], types[2])
  \/ \E caster \in NativeCasters : RegisterCaster(caster)
  \/ \E name \in NativeNames : \/ \E helper \in BOOLEAN : RegisterNative(name, "int", "int", helper)
                               \/ \E linker \in Linkers :
                                    RegisterNative(name, linker.hash, linker.type, FALSE)
  \/ \E linker \in Linkers : RegisterLinkerOf(linker)
  \/ \E name \in NativeNames : RegisterGlobal(name, "int")
  \/ \E file \in DOMAIN Edits : file \in DOMAIN files /\ Edit(file)
  \/ Destroy

Spec == Init /\ [][Next]_vars
-----------------------------------------------------------------------------
(* Properties. *)

\* The scripts that others see through scripts: along what each passes on.
RECURSIVE Exported(_)
Exported(scripts) ==
  LET more == scripts \cup UNION {ToSet(w.s[j].pub) : j \in {k \in scripts : w.s[k].alive}}
  IN IF more = scripts THEN scripts ELSE Exported(more)

\* The scripts whose public elements script i sees.
Seen(i, inPrivate) == Exported(ToSet(IF inPrivate THEN w.s[i].all ELSE w.s[i].pub)) \cup {i}

\* A script and everything it imports still exist.
Whole(i) == w.s[i].alive /\ \A j \in Seen(i, TRUE) : w.s[j].alive

\* Two imports of a script lead back to it: a call that comes back along the
\* first opens the script's lock for the second.
Forked == \E i \in DOMAIN w.s :
            \E m, n \in DOMAIN w.s[i].all :
              m # n /\ i \in Exported({w.s[i].all[m]}) /\ i \in Exported({w.s[i].all[n]})

Of(element) == {name \in Names : CheckName(element, name)}
Queries ==
  {Query("GetGlobal", "globals", name) : name \in Of("Global")}
    \cup {Query("GetCallable", "functions", name) : name \in Of("Function")}
    \cup {Query("HaveObjectDefinition", "types", name) : name \in Of("DeclaredObject")}

\* A search that returns finds an element exactly when the script has it or a
\* chain of imports leads to it, its own before those of others, and leaves every
\* lock of the tree open (Script.hpp:125-194 over Script.hpp:55-66).
SearchFindsSeen ==
  Fine(w) /\ ~ended =>
    \A i \in {j \in DOMAIN w.s : Whole(j)}, q \in Queries, inPrivate \in BOOLEAN :
      LET r == Search(w, i, q, inPrivate, TRUE, FALSE, StackDepth)
          own == Own(w, i, q, inPrivate)
      IN Fine(r.w) =>
           /\ r.w = w
           /\ r.v # Nothing <=>
                own # Nothing \/ \E j \in Seen(i, inPrivate) : Entry(w.s[j], q, "pub") # Nothing
           /\ own # Nothing => r.v = own

\* Imports may make a cycle.  A search or a compilation goes on for ever only
\* where a script has two imports that lead back to it (Script.hpp:66 unlocks
\* what it was refused).
EndlessNeedsFork == w.status = "overflow" => Forked

\* However the imports go in circles, and whatever is loaded, used and asked for in
\* whatever order, no pointer to a deleted script is followed before a load or a
\* compilation has failed (Script.cpp:486, ScriptLoader.cpp:58 and 70 delete one).
FreedNeedsFailure == w.status = "freed script" => w.failed

\* What a path was loaded as stays so: a script that failed is never tried again
\* and one that is there is never read again, by Reload neither (ScriptLoader.cpp:26, 95).
LoadOutcomeIsFinal ==
  [][\A path \in DOMAIN w.loaded : path \in DOMAIN w'.loaded /\ w'.loaded[path] = w.loaded[path]]_vars

\* In a script that compiled, and whose imports did, no type and no global it
\* sees is declared by two scripts (Script.cpp:446-457, 503, 558).
CompiledIsUnambiguous ==
  Fine(w) /\ ~ended =>
    \A i \in {j \in DOMAIN w.s : w.s[j].compiled /\ Whole(j)}, table \in {"types", "globals"} :
      \A j, k \in Seen(i, TRUE) :
        j # k => DOMAIN w.s[j][table].pub \cap DOMAIN w.s[k][table].pub = {}
=============================================================================
