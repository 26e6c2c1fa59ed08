------------------------- MODULE ApplicationManager -------------------------
(***************************************************************************)
(* The applications of a Nectere server, loaded from libraries while it    *)
(* runs: src/Nectere/ApplicationManager.cpp, Application.cpp,              *)
(* DynamicLibrary.hpp and the commands that unload and reload.             *)
(*                                                                         *)
(* The network thread loads, unloads and reloads; a reload is several      *)
(* steps.  The update thread walks over the applications and updates each  *)
(* one that is not reloading.  No mutex guards any of it: m_IsReloading    *)
(* alone is to keep the two apart.  A conflicting access is undefined      *)
(* behaviour, after which nothing is modelled.                             *)
(*                                                                         *)
(* A file is what its library gives: no library at all, no name, a name    *)
(* but no loader, or an application name.  What an application does with   *)
(* its commands and its handler is the plugin's.                           *)
(***************************************************************************)
EXTENDS IDGenerator, FiniteSets, FiniteSetsExt

CONSTANTS Path,   \* library files
          Name,   \* names of applications, other than that of the base one
          Base,   \* "Nectere"
          None

ASSUME ApplicationAssumption ==
  /\ 1 \in Id    \* the base application's id is not the only one
  /\ IsFiniteSet(Path)
  /\ Base \notin Name
  /\ None \notin Name \cup {Base} \cup Id
  /\ Name \cap {"absent", "notLibrary", "noName", "noLoader"} = {}

Gives == Name \cup {"notLibrary", "noName", "noLoader"}

VARIABLES
  disk,     \* path -> what the file gives, or "absent"
  changed,  \* the paths whose file is newer than the DynamicLibrary's m_Timestamp
  library,  \* m_LoadedLibrary: path -> application id
  loaded,   \* m_LoadedApplication: id -> its DynamicLibrary
  apps,     \* m_Applications: id -> Application
  gen,      \* m_ApplicationIDGenerator
  reload,   \* the reload under way: its application and what it does next
  walk,     \* UserManager::Update in the applications
  answer,   \* what the last command was answered
  status    \* "defined", "undefined"

vars == <<disk, changed, library, loaded, apps, gen, reload, walk, answer, status>>

\* commands: m_Commands and m_Handler are set, by the loader of the library.
Application == [name : Name \cup {Base}, reloading : BOOLEAN, commands : BOOLEAN]
\* gives: what m_LoadedLibrairy gives, "notLibrary" when it is null.
DynamicLibrary == [path : Path, gives : Gives]

NoReload == [id |-> None, next |-> "none"]
NoWalk == [active |-> FALSE, todo |-> {}, in |-> None]
NoAnswer == [code |-> "none", name |-> None, id |-> None]

With(f, x, v) == [y \in DOMAIN f \cup {x} |-> IF y = x THEN v ELSE f[y]]
Without(f, x) == [y \in DOMAIN f \ {x} |-> f[y]]

\* CreateBaseApplication: id 0, which the generator does not know.
Init ==
  /\ disk \in [Path -> Gives \cup {"absent"}]
  /\ changed = {}
  /\ library = [p \in {} |-> 0]
  /\ loaded = [i \in {} |-> None]
  /\ apps = [i \in {0} |-> [name |-> Base, reloading |-> FALSE, commands |-> TRUE]]
  /\ gen = NewGenerator(1)
  /\ reload = NoReload
  /\ walk = NoWalk
  /\ answer = NoAnswer
  /\ status = "defined"

Defined == status = "defined"
\* The network thread is between two commands.
CommandReady == Defined /\ reload = NoReload

MustNot(conflict) == status' = IF conflict THEN "undefined" ELSE "defined"
-----------------------------------------------------------------------------
\* Somebody builds a library anew, or removes it.
Build(p) ==
  /\ Defined
  /\ \E gives \in Gives \cup {"absent"} : gives # disk[p] /\ disk' = [disk EXCEPT ![p] = gives]
  /\ changed' = changed \cup {p}
  /\ answer' = NoAnswer
  /\ UNCHANGED <<library, loaded, apps, gen, reload, walk, status>>

\* LoadApplication, by Manager::Start or by an application's command, to which
\* IApplicationManager offers it, for a library that is not loaded yet.  Any
\* other file is refused, which changes nothing and takes no id.  Bound: an id
\* is left.
LoadApplication(p) ==
  /\ CommandReady
  /\ p \notin DOMAIN library
  /\ disk[p] \in Name
  /\ Spare(DOMAIN loaded, 1)
  /\ LET id == IdFrom(gen) IN
       /\ library' = With(library, p, id)
       /\ loaded' = With(loaded, id, [path |-> p, gives |-> disk[p]])
       /\ apps' = With(apps, id, [name |-> disk[p], reloading |-> FALSE, commands |-> TRUE])
  /\ gen' = GenerateID(gen)
  /\ changed' = changed \ {p}
  /\ answer' = NoAnswer
  /\ MustNot(walk.active)
  /\ UNCHANGED <<disk, reload, walk>>

\* Of a file that is not there, the DynamicLibrary has an m_LoadedLibrairy
\* nobody set: it is null by accident, and refused, or it is misused.
LoadAbsent(p) ==
  /\ CommandReady
  /\ p \notin DOMAIN library
  /\ disk[p] = "absent"
  /\ status' \in {"defined", "undefined"}
  /\ answer' = NoAnswer
  /\ UNCHANGED <<disk, changed, library, loaded, apps, gen, reload, walk>>

\* Faulty variant: the id is not freed.
UnloadApplicationKeepID(id) ==
  /\ library' = Without(library, loaded[id].path)
  /\ loaded' = Without(loaded, id)
  /\ apps' = Without(apps, id)
  /\ MustNot(walk.active)
  /\ UNCHANGED gen

\* UnloadApplication deletes the Application, which Update may be walking to.
\* The DynamicLibrary is forgotten, neither closed nor deleted.
UnloadApplication(id) ==
  /\ library' = Without(library, loaded[id].path)
  /\ loaded' = Without(loaded, id)
  /\ apps' = Without(apps, id)
  /\ gen' = FreeID(gen, id)
  /\ MustNot(walk.active)

\* The application a command means: the first of that name, by id.
Named(name) == {i \in DOMAIN apps : apps[i].name = name}
First(name) == Min(Named(name))

Answer(code, name, id) == answer' = [code |-> code, name |-> name, id |-> id]

\* UnloadAppCommand and ReloadAppCommand refuse the base application and any
\* name no application has.
Refused(name) ==
  /\ CommandReady
  /\ name = Base \/ Named(name) = {}
  /\ Answer("refused", name, None)
  /\ UNCHANGED <<disk, changed, library, loaded, apps, gen, reload, walk, status>>

UnloadCommand(name) ==
  /\ CommandReady
  /\ name # Base /\ Named(name) # {}
  /\ UnloadApplication(First(name))
  /\ Answer("unloaded", name, First(name))
  /\ UNCHANGED <<disk, changed, reload, walk>>
-----------------------------------------------------------------------------
(* ReloadApplication. *)

\* DynamicLibrary::CanReload.
CanReload(lib) ==
  \/ disk[lib.path] # "absent" /\ lib.path \in changed
  \/ disk[lib.path] = "absent" /\ lib.gives # "notLibrary"

ReloadCommand(name) ==
  /\ CommandReady
  /\ name # Base /\ Named(name) # {}
  /\ LET id == First(name) IN
       \/ /\ CanReload(loaded[id])
          /\ apps' = [apps EXCEPT ![id].reloading = TRUE]
          /\ reload' = [id |-> id, next |-> "clear"]
          /\ answer' = NoAnswer
       \/ /\ ~CanReload(loaded[id])
          /\ Answer("reload: Fail", name, id)
          /\ UNCHANGED <<apps, reload>>
  /\ UNCHANGED <<disk, changed, library, loaded, gen, walk, status>>

ReloadStep(from, to) ==
  /\ Defined /\ reload.next = from
  /\ reload' = [reload EXCEPT !.next = to]
  /\ answer' = NoAnswer

\* BeforeReloading deletes the commands and forgets the handler, which Update
\* may be using: it looked at m_IsReloading before.
ReloadClear ==
  /\ ReloadStep("clear", "library")
  /\ apps' = [apps EXCEPT ![reload.id].commands = FALSE]
  /\ MustNot(walk.in = reload.id)
  /\ UNCHANGED <<disk, changed, library, loaded, gen, walk>>

\* DynamicLibrary::Reload: what a library opened now gives.
Opened(p) == IF disk[p] = "absent" THEN "notLibrary" ELSE disk[p]

ReloadLibrary ==
  LET p == loaded[reload.id].path IN
  /\ ReloadStep("library", "loader")
  /\ \/ /\ disk[p] = "absent" \/ p \in changed
        /\ loaded' = [loaded EXCEPT ![reload.id].gives = Opened(p)]
        /\ changed' = IF disk[p] = "absent" THEN changed ELSE changed \ {p}
     \/ /\ disk[p] # "absent" /\ p \notin changed
        /\ UNCHANGED <<loaded, changed>>
  /\ UNCHANGED <<disk, library, apps, gen, walk, status>>

\* The new library has a name and a loader: the application lives again.
ReloadSuccess ==
  LET gives == loaded[reload.id].gives IN
  /\ Defined /\ reload.next = "loader"
  /\ gives \in Name
  /\ apps' = [apps EXCEPT ![reload.id] = [name |-> gives, reloading |-> FALSE, commands |-> TRUE]]
  /\ Answer("reload: Success", gives, reload.id)
  /\ reload' = NoReload
  /\ UNCHANGED <<disk, changed, library, loaded, gen, walk, status>>

\* Faulty variant: a library that gives no application leaves the old one there.
ReloadFailKeep ==
  /\ Defined /\ reload.next = "loader"
  /\ loaded[reload.id].gives \notin Name
  /\ Answer("reload: Fail", apps[reload.id].name, reload.id)
  /\ reload' = NoReload
  /\ UNCHANGED <<disk, changed, library, loaded, apps, gen, walk, status>>

ReloadFail ==
  /\ Defined /\ reload.next = "loader"
  /\ loaded[reload.id].gives \notin Name
  /\ UnloadApplication(reload.id)
  /\ Answer("reload: Fail", apps[reload.id].name, reload.id)
  /\ reload' = NoReload
  /\ UNCHANGED <<disk, changed, walk>>
-----------------------------------------------------------------------------
(* ApplicationManager::Update. *)

UpdateBegin ==
  /\ Defined /\ ~walk.active
  /\ walk' = [active |-> TRUE, todo |-> DOMAIN apps, in |-> None]
  /\ answer' = NoAnswer
  /\ UNCHANGED <<disk, changed, library, loaded, apps, gen, reload, status>>

\* Faulty variant: m_IsReloading is not looked at.
UpdateEnterAlways ==
  /\ Defined /\ walk.active /\ walk.in = None /\ walk.todo # {}
  /\ LET id == Min(walk.todo) IN
       walk' = [walk EXCEPT !.todo = @ \ {id}, !.in = id]
  /\ answer' = NoAnswer
  /\ UNCHANGED <<disk, changed, library, loaded, apps, gen, reload, status>>

\* Application::Update of the next one, unless it is reloading ...
UpdateEnter ==
  /\ Defined /\ walk.active /\ walk.in = None /\ walk.todo # {}
  /\ LET id == Min(walk.todo) IN
       walk' = [walk EXCEPT !.todo = @ \ {id},
                            !.in = IF apps[id].reloading THEN None ELSE id]
  /\ answer' = NoAnswer
  /\ UNCHANGED <<disk, changed, library, loaded, apps, gen, reload, status>>

\* ... which updates its commands and its handler.
UpdateLeave ==
  /\ Defined /\ walk.in # None
  /\ walk' = [walk EXCEPT !.in = None]
  /\ answer' = NoAnswer
  /\ UNCHANGED <<disk, changed, library, loaded, apps, gen, reload, status>>

UpdateEnd ==
  /\ Defined /\ walk.active /\ walk.in = None /\ walk.todo = {}
  /\ walk' = NoWalk
  /\ answer' = NoAnswer
  /\ UNCHANGED <<disk, changed, library, loaded, apps, gen, reload, status>>
-----------------------------------------------------------------------------
NetworkThread ==
  \/ \E p \in Path : LoadApplication(p) \/ LoadAbsent(p)
  \/ \E name \in Name \cup {Base} :
       Refused(name) \/ UnloadCommand(name) \/ ReloadCommand(name)
  \/ ReloadClear \/ ReloadLibrary \/ ReloadSuccess \/ ReloadFail

UpdateThread == UpdateBegin \/ UpdateEnter \/ UpdateLeave \/ UpdateEnd

Next == (\E p \in Path : Build(p)) \/ NetworkThread \/ UpdateThread

Spec == Init /\ [][Next]_vars
-----------------------------------------------------------------------------
TypeOK ==
  /\ disk \in [Path -> Gives \cup {"absent"}]
  /\ changed \subseteq Path
  /\ DOMAIN library \subseteq Path
  /\ library \in [DOMAIN library -> Id]
  /\ DOMAIN loaded \subseteq Id
  /\ loaded \in [DOMAIN loaded -> DynamicLibrary]
  /\ DOMAIN apps \subseteq Id
  /\ apps \in [DOMAIN apps -> Application]
  /\ gen \in Generator
  /\ reload \in [id : Id \cup {None}, next : {"none", "clear", "library", "loader"}]
  /\ walk \in [active : BOOLEAN, todo : SUBSET Id, in : Id \cup {None}]
  /\ answer.id \in Id \cup {None}
  /\ status \in {"defined", "undefined"}

\* The three tables and the generator agree: a library file is loaded once, by
\* one application; the base application is never unloaded; ids are neither
\* leaked nor freed twice, and no plugin is ever given the base's id.
TablesAgree ==
  /\ DOMAIN apps = DOMAIN loaded \cup {0}
  /\ 0 \notin DOMAIN loaded /\ apps[0].name = Base
  /\ \A p \in DOMAIN library : library[p] \in DOMAIN loaded /\ loaded[library[p]].path = p
  /\ \A i \in DOMAIN loaded : loaded[i].path \in DOMAIN library /\ library[loaded[i].path] = i
  /\ Accounted(gen, DOMAIN loaded, 1)

\* Whatever becomes of a reload, no application is left behind in the middle of
\* it: between two commands every application is open to Update, has its
\* commands, and has a library that gives what they are made of.
WholeBetweenCommands ==
  reload = NoReload =>
    /\ \A i \in DOMAIN apps : ~apps[i].reloading /\ apps[i].commands
    /\ \A i \in DOMAIN loaded : loaded[i].gives = apps[i].name

\* While Update is in an application the commands and the library it calls are
\* there, and it goes to no application that has been deleted, or else the
\* behaviour is undefined already.  m_IsReloading does that much: an update
\* that starts during a reload stays out.
UpdateOnWhole ==
  Defined =>
    /\ walk.in # None =>
         /\ walk.in \in DOMAIN apps /\ apps[walk.in].commands
         /\ walk.in # 0 => loaded[walk.in].gives = apps[walk.in].name
    /\ walk.todo \subseteq DOMAIN apps
=============================================================================
