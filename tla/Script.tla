------------------------------- MODULE Script -------------------------------
(***************************************************************************)
(* A script and the tree its imports make: search, compilation, deletion.  *)
(* src/Nectere/Script/Script.hpp, Script.cpp, Function.cpp, Signature.cpp. *)
(*                                                                         *)
(* The world w is [s, native, loaded, status, failed]: s[i] is the i-th    *)
(* script that was made; status is as in Native, or "overflow": the stack  *)
(* is exhausted by a search that does not end.                             *)
(* A search goes StackDepth scripts deep, more than there are scripts.     *)
(*                                                                         *)
(* A script is [path, alive, compiled, locks, all, pub, toCompile, types,  *)
(* globals, functions, casters, tags].  Each table is [priv, pub].  What a *)
(* search finds is <<i, "priv" or "pub", entry>>, or Nothing.              *)
(***************************************************************************)
EXTENDS Native, SequencesExt

CONSTANT StackDepth

NewScript(path) ==
  [path |-> path, alive |-> TRUE, compiled |-> FALSE, locks |-> {}, all |-> <<>>, pub |-> <<>>,
   toCompile |-> <<>>, tags |-> NoTags,
   types     |-> [priv |-> NoTable, pub |-> NoTable],
   globals   |-> [priv |-> NoTable, pub |-> NoTable],
   functions |-> [priv |-> NoTable, pub |-> NoTable],
   casters   |-> [priv |-> NoTable, pub |-> NoTable]]

Visibility(private) == IF private THEN "priv" ELSE "pub"
-----------------------------------------------------------------------------
(* TreeLock and TreeLocker. *)

\* Faulty variant: nothing is locked.
LockNothing(w, i, call) == w

Lock(w, i, call) == [w EXCEPT !.s[i].locks = @ \cup {call}]
Unlock(w, i, call) ==
  IF w.s[i].alive THEN [w EXCEPT !.s[i].locks = @ \ {call}] ELSE Undefined(w, "freed script")

\* A function that starts with a TreeLocker.  The destructor unlocks whatever
\* Lock returned: a call that was refused opens the lock of the one that has it.
Locked(w, i, call, depth, refused, Body(_)) ==
  CASE ~Fine(w)          -> R(w, refused)
    [] Fine(w) /\ depth = 0 -> R([w EXCEPT !.status = "overflow"], refused)
    [] Fine(w) /\ depth > 0 /\ ~w.s[i].alive -> R(Undefined(w, "freed script"), refused)
    [] Fine(w) /\ depth > 0 /\ w.s[i].alive /\ call \in w.s[i].locks ->
         R(Unlock(w, i, call), refused)
    [] OTHER -> LET r == Body(Lock(w, i, call))
                IN R(IF Fine(r.w) THEN Unlock(r.w, i, call) ELSE r.w, r.v)
-----------------------------------------------------------------------------
(* Search. *)

\* What is looked for: in which table of a script, under which lock.
Query(call, table, key) == [call |-> call, table |-> table, key |-> key]

\* The entry of a script's own table.
Entry(script, q, vis) ==
  LET table == script[q.table][vis]
  IN CASE q.table = "casters" -> FirstCaster(table, q.key[1], q.key[2])
       [] q.table # "casters" /\ q.key \in DOMAIN table -> <<q.key>>
       [] OTHER -> Nothing

Own(w, i, q, inPrivate) ==
  LET private == Entry(w.s[i], q, "priv")
      public == Entry(w.s[i], q, "pub")
  IN CASE inPrivate /\ private # Nothing -> <<i, "priv", private[1]>>
       [] ~(inPrivate /\ private # Nothing) /\ public # Nothing -> <<i, "pub", public[1]>>
       [] OTHER -> Nothing

\* A native callable is compiled, or deleted, by the search that gets it.
OfNative(w, q) ==
  CASE q.call = "GetCallable" -> NativeGetCallable(w, q.key)
    [] q.call = "HaveCallable" -> R(w, IF NameTaken(w, q.key) THEN <<0, "native", q.key>> ELSE Nothing)
    [] q.table = "types" -> R(w, IF q.key \in w.native.types THEN <<0, "native", q.key>> ELSE Nothing)
    [] q.table = "globals" -> R(w, IF q.key \in w.native.globals THEN <<0, "native", q.key>> ELSE Nothing)
    [] OTHER -> R(w, NativeGetCaster(w, q.key[1], q.key[2]))

\* Faulty variant: the imports an import keeps to itself are searched too.
RECURSIVE SearchAll(_, _, _, _, _, _, _)
SearchAll(w, i, q, inPrivate, self, native, depth) ==
  Locked(w, i, q.call, depth, Nothing, LAMBDA locked :
    LET own == IF self THEN Own(locked, i, q, inPrivate) ELSE Nothing
    IN IF own # Nothing THEN R(locked, own)
       ELSE FoldLeft(LAMBDA r, j : IF r.v # Nothing THEN r
                                   ELSE SearchAll(r.w, j, q, FALSE, TRUE, FALSE, depth - 1),
                     R(locked, Nothing), locked.s[i].all))

\* Get: native first, then the script's own, then all its imports when private
\* elements are looked for, and else only those it passes on.  Of an import
\* only what is public is seen.
RECURSIVE Search(_, _, _, _, _, _, _)
Search(w, i, q, inPrivate, self, native, depth) ==
  Locked(w, i, q.call, depth, Nothing, LAMBDA locked :
    LET first == IF native THEN OfNative(locked, q) ELSE R(locked, Nothing)
        own == IF self THEN Own(first.w, i, q, inPrivate) ELSE Nothing
        imports == IF inPrivate THEN locked.s[i].all ELSE locked.s[i].pub
    IN CASE first.v # Nothing -> first
         [] first.v = Nothing /\ own # Nothing -> R(first.w, own)
         [] OTHER ->
              FoldLeft(LAMBDA r, j : IF r.v # Nothing THEN r
                                     ELSE Search(r.w, j, q, FALSE, TRUE, FALSE, depth - 1),
                       first, imports))

GetObjectDefinition(w, i, name, inPrivate, native) ==
  Search(w, i, Query("GetObjectDefinition", "types", name), inPrivate, TRUE, native, StackDepth)
GetGlobal(w, i, name, inPrivate, native) ==
  Search(w, i, Query("GetGlobal", "globals", name), inPrivate, TRUE, native, StackDepth)
GetCallable(w, i, name, inPrivate, native) ==
  Search(w, i, Query("GetCallable", "functions", name), inPrivate, TRUE, native, StackDepth)
GetCaster(w, i, from, to, inPrivate, native) ==
  Search(w, i, Query("GetCaster", "casters", <<from, to>>), inPrivate, TRUE, native, StackDepth)

\* Have answers whether Get would find something, under a lock of its own.
Have(w, i, q, inPrivate, native) ==
  LET r == Search(w, i, q, inPrivate, TRUE, native, StackDepth) IN R(r.w, r.v # Nothing)
HaveObjectDefinition(w, i, name, inPrivate, native) ==
  Have(w, i, Query("HaveObjectDefinition", "types", name), inPrivate, native)
HaveCaster(w, i, from, to, inPrivate, native) ==
  Have(w, i, Query("HaveCaster", "casters", <<from, to>>), inPrivate, native)

\* What an import would bring: another element of the same name is a clash.
Imported(w, i, call, table, name) ==
  Search(w, i, Query(call, table, name), TRUE, FALSE, TRUE, StackDepth)
-----------------------------------------------------------------------------
(* What the parser adds. *)

AddImport(w, i, j, private) ==
  LET all == [w EXCEPT !.s[i].all = Append(@, j)]
  IN IF private THEN all ELSE [all EXCEPT !.s[i].pub = Append(@, j)]

AddEntry(w, i, table, private, key, entry) ==
  [w EXCEPT !.s[i][table][Visibility(private)] = Put(@, key, entry)]
AddDeclaredObjectDefinition(w, i, private, definition) ==
  AddEntry(w, i, "types", private, definition.type, definition)
AddFunction(w, i, private, function) ==
  AddEntry(w, i, "functions", private, function.name, function)
AddCaster(w, i, private, caster) ==
  [w EXCEPT !.s[i].casters[Visibility(private)] = AddToCasters(@, caster)]
AddGlobalToCompile(w, i, global) == [w EXCEPT !.s[i].toCompile = Append(@, global)]
-----------------------------------------------------------------------------
(* Deletion. *)

\* Clear deletes the casters of every vector: a bidirectional one twice.
TwiceIn(table) ==
  \E a, b \in DOMAIN table : \E m \in DOMAIN table[a], n \in DOMAIN table[b] :
    <<a, m>> # <<b, n>> /\ table[a][m] = table[b][n]

\* delete script.  m_AllImports and m_GlobalToCompile are not cleared by Clear.
Delete(w, i) ==
  CASE ~Fine(w) -> w
    [] Fine(w) /\ ~w.s[i].alive -> Undefined(w, "freed script")
    [] Fine(w) /\ w.s[i].alive /\ (TwiceIn(w.s[i].casters.priv) \/ TwiceIn(w.s[i].casters.pub)) ->
         Undefined(w, "freed caster")
    [] OTHER -> [w EXCEPT !.s[i] = [NewScript(w.s[i].path) EXCEPT !.alive = FALSE]]
=============================================================================
