------------------------ MODULE ApplicationManagerProofs ------------------------
(***************************************************************************)
(* The tables of ApplicationManager agree, a reload leaves no application  *)
(* half done, and Update stays out of one that is reloading: for any       *)
(* libraries, names and width of an id.                                    *)
(***************************************************************************)
EXTENDS ApplicationManager, IDGeneratorProofs, WellFoundedInduction

\* How far a reload is says what its application is like, and that Update is
\* not in it: it was kept out from the first step on, by m_IsReloading, and
\* found out of it in the second one.
ReloadAccounted ==
  /\ reload.next = "none" <=> reload = NoReload
  /\ reload.next # "none" => reload.id \in DOMAIN loaded /\ apps[reload.id].reloading
  /\ reload.next = "clear" => apps[reload.id].commands /\ loaded[reload.id].gives = apps[reload.id].name
  /\ reload.next \in {"library", "loader"} /\ Defined => walk.in # reload.id
  /\ \A i \in DOMAIN apps \ {reload.id} : ~apps[i].reloading /\ apps[i].commands
  /\ \A i \in DOMAIN loaded \ {reload.id} : loaded[i].gives = apps[i].name

\* Update is in an application only while it is in the table.
WalkAccounted == ~walk.active => walk = NoWalk

IInv == TypeOK /\ TablesAgree /\ ReloadAccounted /\ WalkAccounted /\ UpdateOnWhole
-----------------------------------------------------------------------------
\* Update takes the applications in the order of their ids: there is a next one.
LEMMA LeastIsMember ==
  ASSUME NEW S \in SUBSET Id, S # {}
  PROVE  Min(S) \in S
<1>1. S \subseteq Nat
  BY IdSpaceAssumption DEF Id
<1>2. PICK x \in S : \A y \in S : ~(<<y, x>> \in OpToRel(<, Nat))
  BY <1>1, NatLessThanWellFounded, WFMin
<1>3. \A y \in S : x <= y
  <2>1. OpToRel(<, Nat) = {ss \in Nat \X Nat : ss[1] < ss[2]}
    BY Zenon DEF OpToRel
  <2>2. \A y \in S : ~(<<y, x>> \in {ss \in Nat \X Nat : ss[1] < ss[2]})
    BY Zenon, <1>2, <2>1
  <2>3. SUFFICES ASSUME NEW y \in S PROVE ~(y < x)
    BY <1>1
  <2>4. <<y, x>> \in Nat \X Nat /\ <<y, x>>[1] = y /\ <<y, x>>[2] = x
    BY <1>1
  <2>5. QED
    BY <2>2, <2>4
<1>4. QED
  BY <1>1, <1>3 DEF Min

\* What every proof below starts from.
LEMMA Facts ==
  ASSUME IInv
  PROVE  /\ disk \in [Path -> Gives \cup {"absent"}]
         /\ library \in [DOMAIN library -> Id] /\ DOMAIN library \subseteq Path
         /\ loaded \in [DOMAIN loaded -> DynamicLibrary] /\ DOMAIN loaded \subseteq Id
         /\ apps \in [DOMAIN apps -> Application] /\ DOMAIN apps \subseteq Id
         /\ gen \in Generator /\ Accounted(gen, DOMAIN loaded, 1)
         /\ DOMAIN apps = DOMAIN loaded \cup {0} /\ 0 \notin DOMAIN loaded
         /\ 1 \in Id /\ 0 \in Id
BY IdSpaceAssumption, ApplicationAssumption DEF IInv, TypeOK, TablesAgree, Id

\* The application a command means is loaded from a library: it is not the base.
LEMMA FirstLoaded ==
  ASSUME IInv, NEW name, name # Base, Named(name) # {}
  PROVE  First(name) \in DOMAIN loaded /\ First(name) \in DOMAIN apps /\ First(name) \in Id
<1>1. Named(name) \in SUBSET Id
  BY Facts DEF Named
<1>2. First(name) \in Named(name)
  BY <1>1, LeastIsMember DEF First
<1>3. First(name) # 0
  BY <1>2 DEF Named, IInv, TablesAgree
<1>4. QED
  BY <1>2, <1>3, Facts DEF Named

LEMMA InitIInv == Init => IInv
<1> SUFFICES ASSUME Init PROVE IInv
  OBVIOUS
<1>1. 0 \in Id /\ gen \in Generator /\ Accounted(gen, {}, 1)
  BY IdSpaceAssumption, ApplicationAssumption, NewAccounted DEF Init, Id
<1>2. /\ DOMAIN library = {} /\ DOMAIN loaded = {} /\ DOMAIN apps = {0}
      /\ apps[0] = [name |-> Base, reloading |-> FALSE, commands |-> TRUE]
  BY DEF Init
<1>3. TypeOK
  BY <1>1, <1>2 DEF Init, TypeOK, Application, NoReload, NoWalk, NoAnswer
<1>4. TablesAgree
  BY <1>1, <1>2 DEF TablesAgree
<1>5. ReloadAccounted /\ WalkAccounted
  BY <1>2 DEF Init, ReloadAccounted, WalkAccounted, NoReload, NoWalk
<1>6. UpdateOnWhole
  BY DEF Init, UpdateOnWhole, NoWalk
<1>7. QED
  BY <1>3, <1>4, <1>5, <1>6 DEF IInv
-----------------------------------------------------------------------------
(* Steps that leave the applications and the reload alone. *)

LEMMA BuildIInv ==
  ASSUME IInv, NEW p \in Path, Build(p)
  PROVE  IInv'
<1>1. UNCHANGED <<library, loaded, apps, gen, reload, walk, status>>
  BY DEF Build
<1>2. disk' \in [Path -> Gives \cup {"absent"}] /\ changed' \subseteq Path /\ answer'.id = None
  BY Facts DEF Build, IInv, TypeOK, NoAnswer
<1>3. TypeOK' /\ TablesAgree'
  BY <1>1, <1>2 DEF IInv, TypeOK, TablesAgree
<1>4. ReloadAccounted' /\ WalkAccounted' /\ UpdateOnWhole'
  BY <1>1 DEF IInv, ReloadAccounted, WalkAccounted, UpdateOnWhole, Defined
<1>5. QED
  BY <1>3, <1>4 DEF IInv

LEMMA RefusedIInv ==
  ASSUME IInv, NEW name, Refused(name)
  PROVE  IInv'
<1>1. UNCHANGED <<disk, changed, library, loaded, apps, gen, reload, walk, status>> /\ answer'.id = None
  BY DEF Refused, Answer
<1>2. TypeOK' /\ TablesAgree'
  BY <1>1 DEF IInv, TypeOK, TablesAgree
<1>3. ReloadAccounted' /\ WalkAccounted' /\ UpdateOnWhole'
  BY <1>1 DEF IInv, ReloadAccounted, WalkAccounted, UpdateOnWhole, Defined
<1>4. QED
  BY <1>2, <1>3 DEF IInv

\* Update goes on: into an application only when it is not being reloaded.
LEMMA WalkIInv ==
  ASSUME IInv, Defined,
         UNCHANGED <<disk, changed, library, loaded, apps, gen, reload, status>>,
         answer'.id = None,
         walk' \in [active : BOOLEAN, todo : SUBSET Id, in : Id \cup {None}],
         WalkAccounted', walk'.todo \subseteq DOMAIN apps,
         walk'.in # None => walk'.in \in DOMAIN apps /\ ~apps[walk'.in].reloading
  PROVE  IInv'
<1>1. TypeOK' /\ TablesAgree'
  BY DEF IInv, TypeOK, TablesAgree
<1>2. walk'.in # None => walk'.in # reload.id \/ reload.next = "none"
  BY DEF IInv, ReloadAccounted
<1>3. reload.next = "none" => reload.id = None
  BY DEF IInv, ReloadAccounted, NoReload
<1>4. reload.next # "none" => walk'.in # reload.id
  BY <1>2, Facts, ApplicationAssumption DEF IInv, ReloadAccounted
<1>5. ReloadAccounted'
  BY <1>4 DEF IInv, ReloadAccounted, Defined
<1>6. UpdateOnWhole'
  <2>1. walk'.in # None =>
          /\ walk'.in \in DOMAIN apps /\ apps[walk'.in].commands
          /\ walk'.in # 0 => loaded[walk'.in].gives = apps[walk'.in].name
    BY <1>2, <1>3, Facts, ApplicationAssumption DEF IInv, ReloadAccounted
  <2>2. QED
    BY <2>1 DEF UpdateOnWhole
<1>7. QED
  BY <1>1, <1>5, <1>6 DEF IInv

LEMMA UpdateIInv ==
  ASSUME IInv, UpdateThread
  PROVE  IInv'
<1> USE Facts
<1>1. CASE UpdateBegin
  <2>1. /\ walk' = [active |-> TRUE, todo |-> DOMAIN apps, in |-> None]
        /\ UNCHANGED <<disk, changed, library, loaded, apps, gen, reload, status>>
        /\ answer'.id = None /\ Defined
    BY <1>1 DEF UpdateBegin, NoAnswer
  <2>2. WalkAccounted'
    BY <2>1 DEF WalkAccounted
  <2>3. QED
    BY <2>1, <2>2, WalkIInv
<1>2. CASE UpdateEnter
  <2>1. /\ UNCHANGED <<disk, changed, library, loaded, apps, gen, reload, status>>
        /\ answer'.id = None /\ Defined /\ walk.active /\ walk.todo # {}
        /\ walk' = [walk EXCEPT !.todo = @ \ {Min(walk.todo)},
                                !.in = IF apps[Min(walk.todo)].reloading THEN None ELSE Min(walk.todo)]
    BY <1>2 DEF UpdateEnter, NoAnswer
  <2>2. walk \in [active : BOOLEAN, todo : SUBSET Id, in : Id \cup {None}]
    BY DEF IInv, TypeOK
  <2>3. Min(walk.todo) \in walk.todo /\ walk.todo \subseteq DOMAIN apps
    BY <2>1, <2>2, LeastIsMember DEF IInv, UpdateOnWhole
  <2>4. /\ walk'.active = walk.active /\ walk'.todo = walk.todo \ {Min(walk.todo)}
        /\ walk'.in = IF apps[Min(walk.todo)].reloading THEN None ELSE Min(walk.todo)
        /\ walk' \in [active : BOOLEAN, todo : SUBSET Id, in : Id \cup {None}]
    BY <2>1, <2>2, <2>3
  <2>5. WalkAccounted'
    BY <2>1, <2>4 DEF WalkAccounted
  <2>6. QED
    BY <2>1, <2>3, <2>4, <2>5, WalkIInv
<1>3. CASE UpdateLeave
  <2>1. /\ UNCHANGED <<disk, changed, library, loaded, apps, gen, reload, status>>
        /\ answer'.id = None /\ Defined /\ walk.in # None
        /\ walk' = [walk EXCEPT !.in = None]
    BY <1>3 DEF UpdateLeave, NoAnswer
  <2>2. walk \in [active : BOOLEAN, todo : SUBSET Id, in : Id \cup {None}]
    BY DEF IInv, TypeOK
  <2>3. /\ walk'.active = walk.active /\ walk'.todo = walk.todo /\ walk'.in = None
        /\ walk' \in [active : BOOLEAN, todo : SUBSET Id, in : Id \cup {None}]
    BY <2>1, <2>2
  <2>4. WalkAccounted' /\ walk.todo \subseteq DOMAIN apps
    BY <2>1, <2>3 DEF IInv, WalkAccounted, UpdateOnWhole, NoWalk
  <2>5. QED
    BY <2>1, <2>3, <2>4, WalkIInv
<1>4. CASE UpdateEnd
  <2>1. /\ UNCHANGED <<disk, changed, library, loaded, apps, gen, reload, status>>
        /\ answer'.id = None /\ Defined /\ walk' = NoWalk
    BY <1>4 DEF UpdateEnd, NoAnswer
  <2>2. WalkAccounted' /\ walk'.in = None /\ walk'.todo = {} /\ walk'.active = FALSE
    BY <2>1 DEF WalkAccounted, NoWalk
  <2>3. walk' \in [active : BOOLEAN, todo : SUBSET Id, in : Id \cup {None}]
    BY <2>1 DEF NoWalk
  <2>4. QED
    BY <2>1, <2>2, <2>3, WalkIInv
<1>5. QED
  BY <1>1, <1>2, <1>3, <1>4 DEF UpdateThread
-----------------------------------------------------------------------------
(* Loading and unloading. *)

LEMMA LoadIInv ==
  ASSUME IInv, NEW p \in Path, LoadApplication(p)
  PROVE  IInv'
<1> DEFINE id == IdFrom(gen)
           lib == [path |-> p, gives |-> disk[p]]
           app == [name |-> disk[p], reloading |-> FALSE, commands |-> TRUE]
<1>1. /\ p \notin DOMAIN library /\ disk[p] \in Name /\ Spare(DOMAIN loaded, 1)
      /\ reload = NoReload /\ Defined
      /\ gen' = GenerateID(gen) /\ changed' = changed \ {p} /\ answer'.id = None
      /\ library' = With(library, p, id) /\ loaded' = With(loaded, id, lib) /\ apps' = With(apps, id, app)
      /\ status' = (IF walk.active THEN "undefined" ELSE "defined")
      /\ UNCHANGED <<disk, reload, walk>>
  BY DEF LoadApplication, CommandReady, NoAnswer, MustNot
<1>2. /\ id \in Id /\ id \notin DOMAIN loaded /\ id # 0
      /\ gen' \in Generator /\ Accounted(gen', DOMAIN loaded \cup {id}, 1)
  <2>1. /\ id \in Id /\ gen' \in Generator /\ id \notin DOMAIN loaded
        /\ Accounted(gen', DOMAIN loaded \cup {id}, 1)
    BY <1>1, Facts, GenerateTypes, GenerateFresh, GenerateAccounted
  <2>2. id # 0
    <3>1. DOMAIN loaded \cup {id} \subseteq 1 .. IdSpace
      BY <2>1, IdSpaceAssumption DEF Accounted, HandedOut, Generator, Id
    <3>2. QED
      BY <3>1, IdSpaceAssumption
  <2>3. QED
    BY <2>1, <2>2
<1>3. lib \in DynamicLibrary /\ app \in Application /\ lib.path = p /\ lib.gives = app.name
  BY <1>1 DEF DynamicLibrary, Gives, Application
<1>4. /\ DOMAIN library' = DOMAIN library \cup {p} /\ library' \in [DOMAIN library' -> Id]
      /\ library'[p] = id /\ \A q \in DOMAIN library : library'[q] = library[q]
  <2> HIDE DEF id
  <2>1. QED
    BY <1>1, <1>2, Facts DEF With
<1>5. /\ DOMAIN loaded' = DOMAIN loaded \cup {id} /\ loaded' \in [DOMAIN loaded' -> DynamicLibrary]
      /\ loaded'[id] = lib /\ \A i \in DOMAIN loaded : loaded'[i] = loaded[i]
  <2> HIDE DEF id, lib
  <2>1. QED
    BY <1>1, <1>2, <1>3, Facts DEF With
<1>6. /\ DOMAIN apps' = DOMAIN apps \cup {id} /\ apps' \in [DOMAIN apps' -> Application]
      /\ apps'[id] = app /\ \A i \in DOMAIN apps : apps'[i] = apps[i]
  <2>0. id \notin DOMAIN apps
    BY <1>2, Facts
  <2> HIDE DEF id, app
  <2>1. QED
    BY <1>1, <1>2, <1>3, <2>0, Facts DEF With
<1> HIDE DEF id, lib
<1>7. TypeOK'
  BY <1>1, <1>2, <1>4, <1>5, <1>6, Facts DEF IInv, TypeOK
<1>8. TablesAgree'
  <2>1. DOMAIN apps' = DOMAIN loaded' \cup {0} /\ 0 \notin DOMAIN loaded' /\ apps'[0].name = Base
    BY <1>2, <1>5, <1>6, Facts DEF IInv, TablesAgree
  <2>2. \A q \in DOMAIN library' : library'[q] \in DOMAIN loaded' /\ loaded'[library'[q]].path = q
    BY <1>2, <1>3, <1>4, <1>5 DEF IInv, TablesAgree
  <2>3. \A i \in DOMAIN loaded' : loaded'[i].path \in DOMAIN library' /\ library'[loaded'[i].path] = i
    BY <1>2, <1>3, <1>4, <1>5 DEF IInv, TablesAgree
  <2>4. QED
    BY <1>2, <1>5, <2>1, <2>2, <2>3 DEF TablesAgree
<1>9. ReloadAccounted'
  <2>1. reload.next = "none" /\ reload.id = None
    BY <1>1 DEF NoReload
  <2>2. \A i \in DOMAIN apps' : ~apps'[i].reloading /\ apps'[i].commands
    BY <1>6, <2>1, Facts, ApplicationAssumption DEF IInv, ReloadAccounted
  <2>3. \A i \in DOMAIN loaded' : loaded'[i].gives = apps'[i].name
    <3>1. \A i \in DOMAIN loaded : loaded[i].gives = apps[i].name
      BY <2>1, Facts, ApplicationAssumption DEF IInv, ReloadAccounted
    <3>2. QED
      BY <1>2, <1>3, <1>5, <1>6, <3>1, Facts
  <2>4. QED
    BY <1>1, <2>1, <2>2, <2>3 DEF ReloadAccounted
<1>10. WalkAccounted' /\ UpdateOnWhole'
  <2>1. WalkAccounted'
    BY <1>1 DEF IInv, WalkAccounted
  <2>2. ~walk.active => walk'.in = None /\ walk'.todo = {}
    BY <1>1 DEF IInv, WalkAccounted, NoWalk
  <2>3. QED
    BY <1>1, <2>1, <2>2 DEF UpdateOnWhole, Defined
<1>11. QED
  BY <1>7, <1>8, <1>9, <1>10 DEF IInv

\* UnloadApplication, called by a command or at the end of a failed reload.
LEMMA UnloadIInv ==
  ASSUME IInv, Defined, NEW id \in DOMAIN loaded, UnloadApplication(id),
         reload = NoReload \/ reload.id = id, reload' = NoReload,
         answer'.id \in Id, UNCHANGED <<disk, changed, walk>>
  PROVE  IInv'
<1>1. /\ library' = Without(library, loaded[id].path)
      /\ loaded' = Without(loaded, id) /\ apps' = Without(apps, id)
      /\ gen' = FreeID(gen, id)
      /\ status' = (IF walk.active THEN "undefined" ELSE "defined")
  BY DEF UnloadApplication, MustNot
<1>2. /\ DOMAIN library' = DOMAIN library \ {loaded[id].path} /\ library' \in [DOMAIN library' -> Id]
      /\ \A q \in DOMAIN library' : library'[q] = library[q]
  BY <1>1, Facts DEF Without
<1>3. /\ DOMAIN loaded' = DOMAIN loaded \ {id} /\ loaded' \in [DOMAIN loaded' -> DynamicLibrary]
      /\ \A i \in DOMAIN loaded' : loaded'[i] = loaded[i]
  BY <1>1, Facts DEF Without
<1>4. /\ DOMAIN apps' = DOMAIN apps \ {id} /\ apps' \in [DOMAIN apps' -> Application]
      /\ \A i \in DOMAIN apps' : apps'[i] = apps[i]
  BY <1>1, Facts DEF Without
<1>5. gen' \in Generator /\ Accounted(gen', DOMAIN loaded', 1)
  BY <1>1, <1>3, Facts, FreeTypes, FreeAccounted
<1>6. TypeOK'
  <2>1. NoReload \in [id : Id \cup {None}, next : {"none", "clear", "library", "loader"}]
    BY DEF NoReload
  <2>2. status' \in {"defined", "undefined"}
    BY <1>1
  <2>3. QED
    BY <1>2, <1>3, <1>4, <1>5, <2>1, <2>2, Facts DEF IInv, TypeOK
<1>7. TablesAgree'
  <2>1. DOMAIN apps' = DOMAIN loaded' \cup {0} /\ 0 \notin DOMAIN loaded' /\ apps'[0].name = Base
    BY <1>3, <1>4, Facts DEF IInv, TablesAgree
  <2>2. \A q \in DOMAIN library' : library'[q] \in DOMAIN loaded' /\ loaded'[library'[q]].path = q
    BY <1>2, <1>3 DEF IInv, TablesAgree
  <2>3. \A i \in DOMAIN loaded' : loaded'[i].path \in DOMAIN library' /\ library'[loaded'[i].path] = i
    BY <1>2, <1>3 DEF IInv, TablesAgree
  <2>4. QED
    BY <1>5, <2>1, <2>2, <2>3 DEF TablesAgree
<1>8. ReloadAccounted'
  <2>1. \A i \in DOMAIN apps' : i # reload.id
    BY <1>4, Facts, ApplicationAssumption DEF NoReload
  <2>2. \A i \in DOMAIN apps' : ~apps'[i].reloading /\ apps'[i].commands
    BY <1>4, <2>1 DEF IInv, ReloadAccounted
  <2>3. \A i \in DOMAIN loaded' : loaded'[i].gives = apps'[i].name
    BY <1>3, <1>4, <2>1, Facts DEF IInv, ReloadAccounted
  <2>4. reload'.next = "none" /\ reload'.id = None
    BY DEF NoReload
  <2>5. QED
    BY <2>2, <2>3, <2>4 DEF ReloadAccounted
<1>9. WalkAccounted' /\ UpdateOnWhole'
  <2>1. WalkAccounted'
    BY DEF IInv, WalkAccounted
  <2>2. ~walk.active => walk'.in = None /\ walk'.todo = {}
    BY DEF IInv, WalkAccounted, NoWalk
  <2>3. QED
    BY <1>1, <2>1, <2>2 DEF UpdateOnWhole, Defined
<1>10. QED
  BY <1>6, <1>7, <1>8, <1>9 DEF IInv

LEMMA LoadAbsentIInv ==
  ASSUME IInv, NEW p \in Path, LoadAbsent(p)
  PROVE  IInv'
<1>1. /\ Defined /\ status' \in {"defined", "undefined"} /\ answer'.id = None
      /\ UNCHANGED <<disk, changed, library, loaded, apps, gen, reload, walk>>
  BY DEF LoadAbsent, CommandReady, NoAnswer
<1>2. TypeOK' /\ TablesAgree'
  BY <1>1 DEF IInv, TypeOK, TablesAgree
<1>3. ReloadAccounted' /\ WalkAccounted' /\ UpdateOnWhole'
  BY <1>1 DEF IInv, ReloadAccounted, WalkAccounted, UpdateOnWhole, Defined
<1>4. QED
  BY <1>2, <1>3 DEF IInv

LEMMA UnloadCommandIInv ==
  ASSUME IInv, NEW name, UnloadCommand(name)
  PROVE  IInv'
<1>1. First(name) \in DOMAIN loaded /\ First(name) \in Id
  BY FirstLoaded DEF UnloadCommand
<1>2. /\ UnloadApplication(First(name)) /\ Defined /\ reload = NoReload /\ reload' = NoReload
      /\ answer'.id = First(name) /\ UNCHANGED <<disk, changed, walk>>
  BY DEF UnloadCommand, CommandReady, Answer
<1>3. QED
  BY <1>1, <1>2, UnloadIInv
-----------------------------------------------------------------------------
(* Reloading. *)

LEMMA ReloadCommandIInv ==
  ASSUME IInv, NEW name, ReloadCommand(name)
  PROVE  IInv'
<1> DEFINE id == First(name)
<1>1. id \in DOMAIN loaded /\ id \in DOMAIN apps /\ id \in Id
  BY FirstLoaded DEF ReloadCommand
<1>2. /\ Defined /\ reload = NoReload /\ reload.next = "none" /\ reload.id = None
      /\ UNCHANGED <<disk, changed, library, loaded, gen, walk, status>>
  BY DEF ReloadCommand, CommandReady, NoReload
<1>3. CASE UNCHANGED <<apps, reload>> /\ answer'.id = id
  <2>1. TypeOK' /\ TablesAgree'
    BY <1>1, <1>2, <1>3 DEF IInv, TypeOK, TablesAgree
  <2>2. ReloadAccounted' /\ WalkAccounted' /\ UpdateOnWhole'
    BY <1>2, <1>3 DEF IInv, ReloadAccounted, WalkAccounted, UpdateOnWhole, Defined
  <2>3. QED
    BY <2>1, <2>2 DEF IInv
<1>4. CASE /\ apps' = [apps EXCEPT ![id].reloading = TRUE]
           /\ reload' = [id |-> id, next |-> "clear"]
           /\ answer'.id = None
  <2> HIDE DEF id
  <2>1. /\ DOMAIN apps' = DOMAIN apps /\ apps' \in [DOMAIN apps' -> Application]
        /\ apps'[id].reloading /\ apps'[id].commands = apps[id].commands
        /\ \A i \in DOMAIN apps : apps'[i].name = apps[i].name /\ apps'[i].commands = apps[i].commands
        /\ \A i \in DOMAIN apps \ {id} : apps'[i] = apps[i]
    BY <1>1, <1>4, Facts DEF Application
  <2>2. reload'.id = id /\ reload'.next = "clear"
    BY <1>4
  <2>3. TypeOK'
    BY <1>1, <1>2, <1>4, <2>1 DEF IInv, TypeOK
  <2>4. TablesAgree'
    BY <1>2, <2>1, Facts DEF IInv, TablesAgree
  <2>5. /\ \A i \in DOMAIN apps : ~apps[i].reloading /\ apps[i].commands
        /\ \A i \in DOMAIN loaded : loaded[i].gives = apps[i].name
    BY <1>2, Facts, ApplicationAssumption DEF IInv, ReloadAccounted
  <2>6. ReloadAccounted'
    <3>1. reload' # NoReload
      BY <2>2 DEF NoReload
    <3>2. QED
      BY <1>1, <1>2, <2>1, <2>2, <2>5, <3>1, Facts DEF ReloadAccounted
  <2>7. WalkAccounted'
    BY <1>2 DEF IInv, WalkAccounted
  <2>8. UpdateOnWhole'
    BY <1>2, <2>1, <2>5, Facts DEF IInv, UpdateOnWhole, Defined
  <2>9. QED
    BY <2>3, <2>4, <2>6, <2>7, <2>8 DEF IInv
<1>5. \/ CanReload(loaded[id]) /\ apps' = [apps EXCEPT ![id].reloading = TRUE]
         /\ reload' = [id |-> id, next |-> "clear"] /\ answer' = NoAnswer
      \/ Answer("reload: Fail", name, id) /\ UNCHANGED <<apps, reload>>
  BY DEF ReloadCommand
<1> HIDE DEF id
<1>6. answer' = NoAnswer => answer'.id = None
  BY DEF NoAnswer
<1>7. ASSUME answer' = [code |-> "reload: Fail", name |-> name, id |-> id] PROVE answer'.id = id
  BY <1>7
<1>8. QED
  BY <1>3, <1>4, <1>5, <1>6, <1>7 DEF Answer

\* What a step of ReloadApplication starts from.
LEMMA Reloading ==
  ASSUME IInv, reload.next # "none"
  PROVE  /\ reload.id \in DOMAIN loaded /\ reload.id \in DOMAIN apps /\ reload.id \in Id
         /\ reload \in [id : Id \cup {None}, next : {"none", "clear", "library", "loader"}]
         /\ reload.id # 0 /\ apps[reload.id].reloading
BY Facts DEF IInv, ReloadAccounted, TypeOK

LEMMA ReloadClearIInv ==
  ASSUME IInv, ReloadClear
  PROVE  IInv'
<1> DEFINE id == reload.id
<1>1. /\ Defined /\ reload.next = "clear" /\ reload' = [reload EXCEPT !.next = "library"]
      /\ apps' = [apps EXCEPT ![id].commands = FALSE]
      /\ status' = (IF walk.in = id THEN "undefined" ELSE "defined")
      /\ answer'.id = None
      /\ UNCHANGED <<disk, changed, library, loaded, gen, walk>>
  BY DEF ReloadClear, ReloadStep, MustNot, NoAnswer
<1>2. id \in DOMAIN loaded /\ id \in DOMAIN apps /\ id \in Id /\ id # 0 /\ apps[id].reloading
  BY <1>1, Reloading
<1>3. /\ reload' \in [id : Id \cup {None}, next : {"none", "clear", "library", "loader"}]
      /\ reload'.id = id /\ reload'.next = "library"
  BY <1>1, Reloading
<1> HIDE DEF id
<1>4. /\ DOMAIN apps' = DOMAIN apps /\ apps' \in [DOMAIN apps' -> Application]
      /\ apps'[id].reloading
      /\ \A i \in DOMAIN apps : apps'[i].name = apps[i].name
      /\ \A i \in DOMAIN apps \ {id} : apps'[i] = apps[i]
  BY <1>1, <1>2, Facts DEF Application
<1>5. TypeOK'
  BY <1>1, <1>3, <1>4 DEF IInv, TypeOK
<1>6. TablesAgree'
  BY <1>1, <1>4, Facts DEF IInv, TablesAgree
<1>7. ReloadAccounted'
  <2>1. reload' # NoReload
    BY <1>3 DEF NoReload
  <2>2. Defined' => walk'.in # id
    BY <1>1 DEF Defined
  <2>3. /\ \A i \in DOMAIN apps \ {id} : ~apps[i].reloading /\ apps[i].commands
        /\ \A i \in DOMAIN loaded \ {id} : loaded[i].gives = apps[i].name
    BY DEF IInv, ReloadAccounted, id
  <2>4. QED
    BY <1>1, <1>2, <1>3, <1>4, <2>1, <2>2, <2>3, Facts DEF ReloadAccounted
<1>8. WalkAccounted'
  BY <1>1 DEF IInv, WalkAccounted
<1>9. UpdateOnWhole'
  BY <1>1, <1>4, Facts DEF IInv, UpdateOnWhole, Defined
<1>10. QED
  BY <1>5, <1>6, <1>7, <1>8, <1>9 DEF IInv

LEMMA ReloadLibraryIInv ==
  ASSUME IInv, ReloadLibrary
  PROVE  IInv'
<1> DEFINE id == reload.id
<1>1. /\ Defined /\ reload.next = "library" /\ reload' = [reload EXCEPT !.next = "loader"]
      /\ \/ loaded' = [loaded EXCEPT ![id].gives = Opened(loaded[id].path)]
         \/ loaded' = loaded
      /\ changed' = changed \/ changed' = changed \ {loaded[id].path}
      /\ answer'.id = None
      /\ UNCHANGED <<disk, library, apps, gen, walk, status>>
  BY DEF ReloadLibrary, ReloadStep, NoAnswer
<1>2. id \in DOMAIN loaded /\ id \in DOMAIN apps /\ id \in Id /\ id # 0 /\ apps[id].reloading
  BY <1>1, Reloading
<1>3. /\ reload' \in [id : Id \cup {None}, next : {"none", "clear", "library", "loader"}]
      /\ reload'.id = id /\ reload'.next = "loader"
  BY <1>1, Reloading
<1> HIDE DEF id
<1>4. Opened(loaded[id].path) \in Gives
  <2>1. loaded[id].path \in Path
    BY <1>2, Facts DEF DynamicLibrary
  <2>2. QED
    BY <2>1, Facts DEF Opened, Gives
<1>5. /\ DOMAIN loaded' = DOMAIN loaded /\ loaded' \in [DOMAIN loaded' -> DynamicLibrary]
      /\ \A i \in DOMAIN loaded : loaded'[i].path = loaded[i].path
      /\ \A i \in DOMAIN loaded \ {id} : loaded'[i] = loaded[i]
  BY <1>1, <1>2, <1>4, Facts DEF DynamicLibrary
<1>6. TypeOK'
  BY <1>1, <1>3, <1>5 DEF IInv, TypeOK
<1>7. TablesAgree'
  BY <1>1, <1>5, Facts DEF IInv, TablesAgree
<1>8. walk.in # id
  BY <1>1 DEF IInv, ReloadAccounted, id
<1>9. ReloadAccounted'
  <2>1. reload' # NoReload
    BY <1>3 DEF NoReload
  <2>2. /\ \A i \in DOMAIN apps \ {id} : ~apps[i].reloading /\ apps[i].commands
        /\ \A i \in DOMAIN loaded \ {id} : loaded[i].gives = apps[i].name
    BY DEF IInv, ReloadAccounted, id
  <2>3. QED
    BY <1>1, <1>2, <1>3, <1>5, <1>8, <2>1, <2>2 DEF ReloadAccounted
<1>10. WalkAccounted'
  BY <1>1 DEF IInv, WalkAccounted
<1>11. UpdateOnWhole'
  BY <1>1, <1>5, <1>8, Facts DEF IInv, UpdateOnWhole, Defined
<1>12. QED
  BY <1>6, <1>7, <1>9, <1>10, <1>11 DEF IInv

LEMMA ReloadSuccessIInv ==
  ASSUME IInv, ReloadSuccess
  PROVE  IInv'
<1> DEFINE id == reload.id
           app == [name |-> loaded[id].gives, reloading |-> FALSE, commands |-> TRUE]
<1>1. /\ Defined /\ reload.next = "loader" /\ reload' = NoReload
      /\ loaded[id].gives \in Name
      /\ apps' = [apps EXCEPT ![id] = app]
      /\ answer'.id = id
      /\ UNCHANGED <<disk, changed, library, loaded, gen, walk, status>>
  BY DEF ReloadSuccess, Answer
<1>2. id \in DOMAIN loaded /\ id \in DOMAIN apps /\ id \in Id /\ id # 0
  BY <1>1, Reloading
<1>3. /\ \A i \in DOMAIN apps \ {id} : ~apps[i].reloading /\ apps[i].commands
      /\ \A i \in DOMAIN loaded \ {id} : loaded[i].gives = apps[i].name
      /\ walk.in # id
  BY <1>1 DEF IInv, ReloadAccounted
<1> HIDE DEF id
<1>4. app \in Application /\ app.name = loaded[id].gives /\ app.commands /\ ~app.reloading
  BY <1>1 DEF Application
<1>5. /\ DOMAIN apps' = DOMAIN apps /\ apps' \in [DOMAIN apps' -> Application]
      /\ apps'[id] = app /\ \A i \in DOMAIN apps \ {id} : apps'[i] = apps[i]
  <2> HIDE DEF app
  <2>1. QED
    BY <1>1, <1>2, <1>4, Facts
<1>6. TypeOK'
  <2>1. NoReload \in [id : Id \cup {None}, next : {"none", "clear", "library", "loader"}]
    BY DEF NoReload
  <2>2. QED
    BY <1>1, <1>2, <1>5, <2>1 DEF IInv, TypeOK
<1>7. TablesAgree'
  BY <1>1, <1>2, <1>5, Facts DEF IInv, TablesAgree
<1>8. ReloadAccounted'
  <2>1. \A i \in DOMAIN apps' : ~apps'[i].reloading /\ apps'[i].commands
    BY <1>3, <1>4, <1>5
  <2>2. \A i \in DOMAIN loaded' : loaded'[i].gives = apps'[i].name
    BY <1>1, <1>3, <1>4, <1>5, Facts
  <2>3. reload'.next = "none"
    BY <1>1 DEF NoReload
  <2>4. QED
    BY <1>1, <2>1, <2>2, <2>3 DEF ReloadAccounted
<1>9. WalkAccounted' /\ UpdateOnWhole'
  BY <1>1, <1>3, <1>5, Facts DEF IInv, WalkAccounted, UpdateOnWhole, Defined
<1>10. QED
  BY <1>6, <1>7, <1>8, <1>9 DEF IInv

LEMMA ReloadFailIInv ==
  ASSUME IInv, ReloadFail
  PROVE  IInv'
<1>1. /\ Defined /\ reload.next = "loader" /\ reload' = NoReload
      /\ UnloadApplication(reload.id) /\ answer'.id = reload.id
      /\ UNCHANGED <<disk, changed, walk>>
  BY DEF ReloadFail, Answer
<1>2. reload.id \in DOMAIN loaded /\ reload.id \in Id
  BY <1>1, Reloading
<1>3. QED
  BY <1>1, <1>2, UnloadIInv
-----------------------------------------------------------------------------
LEMMA IInvInductive == Spec => []IInv
<1>1. IInv /\ [Next]_vars => IInv'
  <2> SUFFICES ASSUME IInv, [Next]_vars PROVE IInv'
    OBVIOUS
  <2>1. CASE \E p \in Path : Build(p)
    BY <2>1, BuildIInv
  <2>2. CASE NetworkThread
    <3>1. CASE \E p \in Path : LoadApplication(p) \/ LoadAbsent(p)
      BY <3>1, LoadIInv, LoadAbsentIInv
    <3>2. CASE \E name \in Name \cup {Base} :
                 Refused(name) \/ UnloadCommand(name) \/ ReloadCommand(name)
      BY <3>2, RefusedIInv, UnloadCommandIInv, ReloadCommandIInv
    <3>3. CASE ReloadClear \/ ReloadLibrary \/ ReloadSuccess \/ ReloadFail
      BY <3>3, ReloadClearIInv, ReloadLibraryIInv, ReloadSuccessIInv, ReloadFailIInv
    <3>4. QED
      BY <2>2, <3>1, <3>2, <3>3 DEF NetworkThread
  <2>3. CASE UpdateThread
    BY <2>3, UpdateIInv
  <2>4. CASE UNCHANGED vars
    BY <2>4 DEF vars, IInv, TypeOK, TablesAgree, ReloadAccounted, WalkAccounted, UpdateOnWhole, Defined
  <2>5. QED
    BY <2>1, <2>2, <2>3, <2>4 DEF Next
<1>2. QED
  BY InitIInv, <1>1, PTL DEF Spec

\* m_Applications, m_LoadedApplication, m_LoadedLibrary and the generator agree
\* at every step of every load, unload and reload.
THEOREM TablesTheorem == Spec => []TablesAgree
<1>1. IInv => TablesAgree
  BY DEF IInv
<1>2. QED
  BY IInvInductive, <1>1, PTL

\* When no reload is under way every application is whole: ReloadApplication has
\* no way out that leaves m_IsReloading set or the commands deleted.
THEOREM WholeTheorem == Spec => []WholeBetweenCommands
<1>1. IInv => WholeBetweenCommands
  BY Facts, ApplicationAssumption DEF IInv, ReloadAccounted, NoReload, WholeBetweenCommands
<1>2. QED
  BY IInvInductive, <1>1, PTL

\* Update is in no application whose commands or library are being replaced, and
\* goes to none that was deleted, or has met it too early for m_IsReloading.
THEOREM UpdateTheorem == Spec => []UpdateOnWhole
<1>1. IInv => UpdateOnWhole
  BY DEF IInv
<1>2. QED
  BY IInvInductive, <1>1, PTL

\* Every variable keeps its type, and an id is never wider than uint16_t.
THEOREM ApplicationTypes == Spec => []TypeOK
<1>1. IInv => TypeOK
  BY DEF IInv
<1>2. QED
  BY IInvInductive, <1>1, PTL
=============================================================================
