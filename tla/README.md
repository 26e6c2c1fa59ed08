# Nectere in TLA+

Nectere is a small server framework in C++: clients connect over TCP, send
*events* that name an application and an event type, and the server's
*applications* (the built-in one, and others loaded from shared libraries while
the server runs) answer them. The built-in application offers *canals* (chat
rooms) and administration. A command line client talks to it; a library of data
nodes reads and writes its settings; a script engine is in the tree but not
built yet. This directory holds TLA+ models of these parts, the TLC
configurations that check them, and TLAPS proofs of what matters most about
where threads, identifiers and shared tables meet.

All paths below are relative to `src/Nectere` unless they start with `src/`.

## The system

```
 console handler ──Stop──┐
                         v
 main ──starts──> ThreadSystem ──queue──> task threads
   │                                        │        │
   └──waits for the stop, joins             │        └─ NetworkTask: io_context::run()
                                            │             accept, reads, writes, closes,
                                            │             and every command of every user
                                            └─ UserUpdateTask: UserManager::Update
                                                  removes users, then ApplicationManager::
                                                  Update, then CanalManager::Update
```

Two threads do the work. The *network task* never gives its thread back: it sits
in `io_context::run()`, so all handlers and all commands of all users run one at
a time, in that thread. The *update task* is taken from the queue by whichever
task thread is free, runs one round and is queued again. Nearly every hazard of
this code is one of these two threads (or the stop, which may come from the
console's thread as well) meeting the other one in a table that only
`CanalManager` guards with a mutex.

| Component | State | Operations | Who calls it | What makes it correct |
|---|---|---|---|---|
| Identifiers (`IDGenerator.cpp`) | next id, queue of freed ids | `GenerateID`, `FreeID` | UserManager, CanalManager, ApplicationManager | no id in two hands; none lost |
| Canals (`CanalManager`, `Canal`) | canals by id, ids by name, links of each user, mutex | create, delete, join, leave, leave all, message, list, update | commands (network thread), `UserManager` (update thread) | the tables agree; limits and passwords hold; a user that left is out |
| Threads (`Concurrency/`) | queue, threads, condition variables, running flag | `Start`, `AddTask`, `Stop`, `Await`, `Clean`, the loops | main, both tasks, stop command, console handler | no task lost or run twice; the stop ends the process |
| Users (`UserManager`, `AUser`) | users by id, requests for removal | `AddUser`, `MarkForDelete`, `RemoveUserInstant`, `Update`, send | server (network thread), update task | a closed session's user goes, and no other one |
| Sessions (`Network/Boost*`) | sessions by id, `m_Closed`, reads and writes under way | accept, read, write, close, stop | io_context | closed once; nothing used after it was deleted |
| Applications (`ApplicationManager`, `Application`, `DynamicLibrary.hpp`) | applications, libraries, loaded paths | load, unload, reload, update, dispatch of events | commands, `Manager::Start`, update task | tables agree; no application left half reloaded or used while it is |
| Commands (`Command/`, `ACommand`, dispatch in `ApplicationManager`, `Application`) | authentication flag of the user | one class per command | users | refused when not authenticated; answers go to the one who asked |
| Sets by id (`UIDSet.hpp`) | two sorted vectors | `Add`, `Get`, `Find`, `Remove`, `Clear`, `Search` | tables of users, applications, commands | a map from ids to elements |
| Server interface, white list | accepted addresses | `IsWhiteListed` | accept handler | — |
| Wire format (`Event`, `NetworkEvent`, `apiVersion`) | — | packing of versions, events | sessions | packing is one to one |
| Client (`src/NectereClient`) | connection, own id, known canals | one handler per line typed; `Send`, `Receive` | a person | an answer belongs to its request; a request bears the client's own id |
| Configuration, parameters | settings | load from JSON | main, before any thread starts | — |
| Data nodes, JSON, XML (`Dp/`) | trees | add, set, insert, remove, get; print, read | configuration | what is added is found; printing and reading agree |
| Script engine (`Script/`) | scripts by path, tables of each, locks, the native library | load, use, reload, compile, look up, register, call | nothing that is built (`CMakeLists.txt:23`) | loading and searching end; a name means one thing |
| Script values (`Unit`, `Variable`, `CallStack`) | trees of units | set, get, copy, scopes | the script engine | — |
| Logger, strings, argument parser, template | — | — | everywhere | — |

What is hard here, in order of weight: the network thread and the update thread
in the same table; ids that come back to life while somebody still holds them;
the shutdown over three condition variables; a reload of an application in
several steps; objects deleted while handlers that captured them are pending; a
client that takes whatever event comes next for its answer; scripts that import
each other in circles; trees whose assignment forgets the name.
`PROJECT.json` lists these hazards one by one, at the line where each bites.

## The modules

| Module | Models | Code it stands for |
|---|---|---|
| `IDGenerator` | the two operations, on a generator value; what "accounted for" means | `IDGenerator.cpp` |
| `IDPool` | holders that share a generator | `IDGenerator.cpp`, its three users |
| `UIDSet` | the table that what has an id is kept in, beside the generator | `UIDSet.hpp` |
| `Rooms` | *abstract*: what a user may rely on about a chat room | — |
| `CanalManager` | canals, two threads, the mutex and what runs without it | `CanalManager.cpp`, `Canal.hpp` |
| `ThreadSystem` | main, scheduler, task threads, the stop | `Concurrency/`, `main.cpp`, `Manager.cpp` |
| `UserManager` | connection to removal, the two threads without a mutex | `UserManager.cpp`, `AUser.cpp`, `Network/Boost*.cpp` |
| `ApplicationManager` | load, unload, reload against update | `ApplicationManager.cpp`, `Application.cpp`, `DynamicLibrary.hpp` |
| `Commands` | sessions, dispatch, authentication, every command on canals and lists, over `CanalManager` | `Command/`, `ApplicationManager.cpp`, `Application.cpp`, `ACommand.cpp` |
| `NecterePrompt` | clients: handlers, connection, requests and answers, over `Commands` | `src/NectereClient` |
| `Text` | characters, positions, the buffer of the printers | `StringUtils.cpp`, `Dp/StringUtils.cpp`, `Dp/Result.cpp` |
| `Node` | the tree: keys, additions, removals, assignment | `Dp/Node.cpp` |
| `JsonText`, `XmlText` | the printers and the readers | `Dp/Json.cpp`, `Dp/Xml.cpp` |
| `Documents` | a document that is changed, saved and loaded | the users of `Dp/` |
| `ScriptTypes` | types, naming rules, tags | `Script/VariableType.cpp`, `CodingStyle.cpp`, `Taggable.cpp` |
| `Native` | what C++ registers: types, linkers, casters, functions, globals | `Script/Native.cpp`, `NativeUtils.hpp`, `Linker.hpp` |
| `Script` | a script, the locks of its tree, searches, deletion | `Script/Script.hpp`, `Script.cpp` |
| `ScriptCompilation` | compilation of a script and its imports | `Script/Script.cpp` |
| `ScriptParser` | files, instructions, the loader's table | `Script/SingleScriptParser.cpp`, `ScriptLoader.cpp` |
| `Interpreter` | the engine as its owner uses it | `Script/Interpreter.cpp` |
| `IDGeneratorProofs`, `IDPoolProofs`, `CanalManagerProofs`, `CanalStepProofs`, `ApplicationManagerProofs`, `ThreadSystemProofs`, `UserManagerProofs`, `NecterePromptProofs` | lemmas and theorems | |
| `MC*` | instances for TLC | |

The modules that need ids extend `IDGenerator`, whose operators work on a value,
so that each manager keeps its own generator as the code does. `UserManager` has
of the canals only which ids are in which canal: what it assumes of them is what
`CanalManager` is proved to keep (`LinksAreMemberships`); `Commands` has of the
users what `UserManager` is proved to keep: whose a session is, and the order in
which a removal takes the user out, frees its id and leaves its canals. `ThreadSystem` has of
the two tasks only how long they keep a thread; that the update task comes round
again and again (`QueuedIsTaken`) is what the fairness of `UserManager` rests on.
`UserManager` and `ApplicationManager` treat their tables as maps: that `UIDSet`
is one is what `SetIsMap` says, and `TableIsMap` proves. `Commands` and `NecterePrompt` are a
composition: a request of a client is an event in the queue of its session, its
treatment *is* the action of `CanalManager` (not a copy of it), and the answer
travels back in the other queue. The script modules are layers of one world
value `w`, each an operator library over it, and only `Interpreter` has
variables and actions: the engine has one thread, so a call is a step.

Conventions:

- *Threads are sets of actions.* `NetworkThread` and `UpdateThread` are disjuncts
  of `Next`. What one thread does in one critical section is one action; what
  another thread can see the middle of is one action per visible step (the loop
  of `LeaveAllCanal`, `MessageCanal`'s check and use, the five steps of
  `RemoveUserInstant`, the three of a reload).
- *Undefined behaviour* (a data race, a dangling iterator, the use of a deleted
  object) is a value of `status`. Where the build can go on as if nothing had
  happened, both outcomes are modelled; where a state is no longer meaningful,
  nothing is modelled after it. State invariants are claimed until then
  (`Defined => ...`): C++ promises nothing afterwards. What leads there is
  listed below.
- *Answers* are kept in `out` or `answer` for the one step that gives them, so
  that properties can speak of what a user was told.
- *Faulty variants.* A definition whose name ends in what is wrong with it
  (`FreeIDQueuesToo`, `LeaveAllEndKeepLinks`, `TakeNoPop` ...) is not part of any
  specification. It is a plausible mistake in that piece of code, kept next to
  the right one, and `PROJECT.json` names the property that TLC finds violated
  when it is put in its place. So every property is known to depend on the code.

### State and actions against the code

`CanalManager`: `canals`, `dictionary`, `links`, `gen` are `m_Canals`,
`m_CanalDictionary`, `m_ClientLinks`, `m_IDGenerator`. `leaving` is the loop of
`LeaveAllCanal`, during which the mutex is held: `LeaveOne` is its body, which may
delete the canal (`leaving.gone`) and with it the link the loop stands on, and
`LeaveNext` the increment of the iterator that is left dangling, from where on the
behaviour is undefined. Between the two everything is still defined, the canal is
gone, and `MessageCanal`, which takes no lock, may meet that. `peek` is `MessageCanal` between
`HaveCanal` and `GetCanal`, neither of which locks. `RemoveCanal` is the private
`DeleteCanal`, which `DeleteCanal`, `LeaveCanal`, `LeaveAllCanal` and `Update`
share.

`ThreadSystem`: `pc[t]` is where thread `t` stands. A wait on a condition
variable is two steps: the evaluation of the predicate with the mutex held
(`CheckTasks`, `AwaitCheck`, `JoinCheck`), then the sleep (`Sleep`, `AwaitSleep`,
`JoinSleep`); a notification wakes those asleep at that moment; a thread may also
wake unasked. `stop[s]` is how far caller `s` is in `ThreadSystem::Stop`.

`UserManager`: `users`, `toRemove`, `sessions` are `m_Users`, `m_UsersToRemove`,
`m_Sessions`; a user object is named for its connection, so that an id given
twice shows as two objects. `reading` and `writing` are the handlers that have
captured an object and are still to run. A command acts for the id its event
names, which is any id (`AUser.cpp:27`); `strays` remembers the ids that joined a
canal so while nobody had them. `upd.todo` is what the loop of `Update`
has before it, `upd.seen` where its `end()` was.

`ApplicationManager`: `library`, `loaded`, `apps` are `m_LoadedLibrary`,
`m_LoadedApplication`, `m_Applications`; `disk` and `changed` are the files,
which anybody may build anew or remove at any moment; `reload` is a reload under
way, `walk` the update thread in `ApplicationManager::Update`. `LoadAbsent` is the
load of a file that is not there, which looks at a pointer nobody has set
(`DynamicLibrary.hpp:33`).

`UIDSet`: `set.elements` and `set.ptrs` are the two vectors. `Narrow` is the loop
of `Search` with the integer division as it is written, a recursive function of the
two ends; `AtAnEnd` is the comparisons after it.

`Commands`: `toServer[u]` and `toClient[u]` are the two directions of session
`u`'s socket, in order and without loss, as TCP gives them; `Receive` takes the
first event, finds the application and the command for it and runs it. The user
is the one the *event* names (`AUser.cpp:27`), not the session's. `RemoveUser`,
`FreeUserID` and `LeaveCanals` are the steps of `RemoveUserInstant`; the network
thread acts between any two of them, and may give the id to a new session before
its canals are left: `heirs` remembers these. `stopped` is the stop command
carried out; `ServerEnds` is the end of the process, which may never come (finding
2) and without which no connection is closed, because deleting an `AUser` destroys
no socket (`AUser.hpp:9` has no virtual destructor).

`NecterePrompt`: `prompt[c]` holds `m_ID`, `m_Connected`, the canals known from
the last list, and `asked`, what the handler under way waits for. A handler is
split where it blocks in `Receive`; `ReceiveEvent` is what it does with the
event that comes, `ReceiveThrows` what it does when the socket is closed. Who
connects to a server that has stopped, and not ended, waits in its backlog.
The composition leaves `CanalManager!Update` out: by `MarkedInUse`, which is
proved of the composition too, it never has a canal to delete. A user who types
a whole event of its own (`HandleEvent`) may type a "join" or a "message" with it
and strays like one who uses the commands for these.

`Documents`: `doc` is the document, `file` what was saved last. A node is
[name, value, flags, children]; `spare` is whether the vector of children had
room left, which decides whether insertion moves elements by assignment, and so
whether they lose their names (`Assign` does not copy `m_Name`).

`Interpreter`: `w.s[i]` is the *i*-th script made, `w.loaded` the loader's table,
`w.native` the native library; `files` are the files on disk, which may be edited
between two calls. `w.status` says when undefined behaviour has been executed
and which.

## What the runs check

| Run | Instance | Shows |
|---|---|---|
| `id_pool` | 2 holders, ids 1..5 | `Unique`, `FreshNext`, `IdsAccounted`: ids wrap, are freed in every order, and none is in two hands or lost; `SetIsMap`: the table they are kept in answers as a map |
| `canals` | 2 users, 2 names, 3 ids, limits −1 and 1, two passwords | the tables agree at every step, in the middle of `LeaveAllCanal` too; limits hold; a marked canal goes with its last user; an unlocked `MessageCanal` still finds its canal unless `LeaveAllCanal` has just deleted it; nobody is put out by another user's command; `CANAL_DELETED` reaches nobody; `CanalManager` implements `Rooms` |
| `leave_all` | the same with 2 ids | *violated*: finding 1 |
| `threads` | 2 task threads, both callers of `Stop` | a task is in one place; nothing is deleted under a thread that uses it; `NoTaskForgotten`: no task is queued while all who could take it sleep; `EndInSight`: a stopped server has a step left to its end unless a wake-up was lost |
| `shutdown` | 2 task threads, the stop command | *liveness*: queued tasks are taken; only a lost wake-up can keep a stopped server from ending |
| `stop` | as `shutdown` | *violated*: finding 2 |
| `users` | 2 connections, 2 ids | user ids are accounted for; nobody who is gone stays in a canal, and an id nobody has is in one only if an event named it; only users that closed are removed; `ClosedIsRequested`: those that closed have a removal ahead of them; *liveness*: they are removed, unless `clear()` lost the request |
| `rejoin` | 2 connections, 3 ids | *violated*: finding 3 |
| `applications` | 2 libraries, 2 names, 2 plugin ids | the tables agree; no reload leaves half an application; an update that begins during a reload stays out of it |
| `client` | 2 clients over 2 sessions, 1 canal, 4 and 3 lines typed | `RequestsCarryOwnId`: although a failed connection leaves the state of the one before; `InStep`: who has neither joined a canal nor messaged one, and is no heir, never takes an answer for another's; `AnswerComes`: nobody waits for what nobody sends; `Answered` (*liveness*): a handler that asked something ends, unless the server is stopped |
| `script` | 13 file systems of 3 scripts (chains, diamonds, circles, forked circles, broken files, two spellings of a path), one linker, one caster, one native function or global | `SearchFindsSeen`: a search finds what is in reach and leaves every lock open; `EndlessNeedsFork`; `FreedNeedsFailure`; `CompiledIsUnambiguous`; `LoadOutcomeIsFinal` |
| `data` | 3 documents, 4 keys, 8 values, 3 arrays, 2 changes, pretty and compact | `JsonFaithful`, `XmlFaithful`: a document comes back *if and only if* it is of the kind the format can carry; `AddIsFound`; `PutIsFound`: what replaces or precedes a child, and what remains after a removal |

Three of these properties name what the code loses, because a weaker claim is
false. `JsonPortable` and `XmlPortable` (in `Documents`) are the documents that
survive a save and a load, among those the instance builds: JSON gives up arrays
of values, empty arrays, nulls with a value, values with a `\` in front of what
the printer or the reader takes for an escape, and names, which are printed
unescaped (`Dp/Json.cpp:128`), with a quote or with a `\` in front of what the
reader takes for one; XML gives up upper case names, values beside tags, values
that begin with a blank or an entity and all entities but the first.
`EndlessNeedsFork` says that a search or a compilation that never ends needs two
imports that lead back to a script: a refused `TreeLocker` still unlocks when it
is destroyed (`Script.hpp:65`), so the second way finds the lock open.

### Bounds, and why they are enough

- *Ids.* `IdSpace` is 2^16 in the code. With 5 (`id_pool`) the counter passes its
  end and ids come back in every order; the theorems hold for every `IdSpace`.
  The managers get one id more than what they hold at once, so that an id is
  free, given again, and met by somebody who still has it in hand. `Spare` in a
  guard is the bound "an id is left": the code has no answer for a generator
  that has run out, and 65536 live users or canals are out of scope.
- *Canals.* Two users are enough for every pair (leaver, other member); two
  names for a user in a canal that is deleted and another one that is not; the
  limit 1 makes a canal full with one user, −1 is no limit.
- *Threads.* Two task threads is the number a machine with six hardware threads
  gets, and the smallest with one thread left for the updates once the network
  task has taken its own. The two tasks are all the server ever adds.
- *Users.* Two connections over two ids: the second use of an id overlaps the
  removal of its first owner, and each property speaks of one user and one that
  gets in its way.
- *Clients.* `Lines` is the bound: what a client may type as its first line, its
  second and so on. The first one types any two lines, a third that acts on a canal
  or reads, and connects again; the second connects, joins and sends a message.
  That is a connection, what makes a client a member, what gets out of step, and
  one more connection, which may be given the id whose canals are being left. A
  message of the second reaches the first in the middle of a request only when the
  first has joined, or is heir to a member's id.
- *Documents.* Two changes on roots that already have three children: an addition
  and a removal in the middle of one another. Values hold each character that a
  printer or a reader treats apart; so do names, for the quote and the `\`.
- *Scripts.* Three scripts make every shape of two ways back; `StackDepth` 9 is
  more than any search visits in a tree of three whose locks work, so a search
  that goes deeper does not end. Two of the properties (`SearchFindsSeen`,
  `CompiledIsUnambiguous`) are evaluated for every name and every script.
- *Applications.* Two libraries under the same name or different names; an update
  walk over the base application and both.

`CHECK_DEADLOCK FALSE` is given for every instance but `id_pool`: a server that was
stopped, that has crashed or has executed undefined behaviour takes no further
step. Symmetry is used only in runs without liveness, and only between users and
names (`canals`), libraries and names (`applications`) and holders (`id_pool`),
which the modules treat alike.

### Fairness

`ThreadSystem!Fairness`: weak fairness for the steps of each thread, which is what
the operating system gives, and for a `Stop` that was called. Nobody has to call
`Stop`, the network has no step it must take, and no condition variable has to
wake anybody unasked. Mutexes need no strong fairness here: `TaskMutexFree` is
false only between the predicate and the sleep or the take, and another task
thread that asks for it comes back to it from its own loop; TLC finds `QueuedIsTaken` with weak
fairness alone. `UserManager!FairSpec` assumes only that the update thread keeps
going, as `QueuedIsTaken` says; no client has to do anything. `NecterePrompt!SpecPrompt`
assumes that a client reads what has come, that the network thread treats what a
session has sent, and that a departure begun is finished; nobody has to type a
line, close a session or connect.

## What is proved

TLAPS proves, for every value of the constants:

- `IDPoolProofs`: `IdsUnique`, `IdsFresh` and `IdsAccountedTheorem`, from `Accounted`: the ids below the
  counter are exactly those held or queued, each once. Uniqueness alone is not
  inductive, since a generator whose queue held an id in use would break it in
  the next step. `IDGeneratorProofs` has the lemmas (what `GenerateID` and
  `FreeID` do to the queue and the counter, wrap-around included, and that a set
  of naturals has a least member) that the other proofs cite.
- `IDPoolProofs` on the table: `TableIsMap`, that `UIDSet` is a map, and `TableIds`,
  that ids stay unique, fresh and accounted for beside it. The invariant is
  `TableInv`: the two vectors are of one order, strictly sorted by id, hold
  elements of those who hold their ids, and every id in use is there. While the
  id sought lies strictly between the two ends the integer quotient in `Search`
  is 0, so each round moves the left end on by one or finds the id; so the loop
  stops at the first position whose id is not below the one sought. That
  position is the least of a set, which gives what an induction over the vector
  would. Where the loop stops, `AtAnEnd` finds the id if it is there and `Add`
  inserts it where the vector stays sorted; that `Add` never refuses a new id is
  `IdsFresh`.
- `CanalManagerProofs`: `LinksTheorem`, `NamesTheorem`, `LimitTheorem`,
  `MarkedTheorem`, `CanalIdsTheorem`, `CheckedCanalTheorem`. They stand on one
  inductive invariant `IInv == Defined => Consistent`, where `Consistent` is the
  conjunction of all six with the types. They need each other: that `Update`
  deletes nothing needs `MarkedInUse`; that a deleted canal leaves no link
  behind needs `LinksAreMemberships`; that its name is found needs `NamesAndIds`;
  that `LeaveAllCanal` alone can make the unlocked check of `MessageCanal` stale
  needs that `Update` deletes nothing, and that a canal `LeaveAllCanal` deletes is
  its last step that is defined (`leaving.gone`). The
  only assumptions are those named in the modules (`IdSpaceAssumption`,
  `CanalAssumption`); `LimitTheorem` uses the finiteness of `User`. `CanalTypes`
  is `TypeOK` without a condition: after undefined behaviour nothing says that
  `Update` has no canal to delete, and the generator keeps its type however many
  ids it then gets back, in whatever order (`FreeAll`).
- `ApplicationManagerProofs`: `TablesTheorem`, `WholeTheorem`, `UpdateTheorem` (and
  the types). `WholeBetweenCommands` says nothing of the middle of a reload, so it
  is not inductive; `ReloadAccounted` says for each step of one what its
  application is like (reloading from the first step on, without commands from
  the second), that every other one is whole, and that from the second step on
  Update is not in it, or its behaviour is undefined already. `WalkAccounted` ties
  the undefined cases (`walk.active`) to Update being in the table at all. That
  Update has a next application is the least-number principle, taken from the
  well-foundedness of the naturals. `ApplicationAssumption` asks for a second id
  beside the base application's.
- `CanalStepProofs`: what a step may do. `DeletedToNobodyTheorem` and
  `OnlyOwnDepartureTheorem` take `IInv` before the step and go through the
  handlers; the first rests on `NobodyElseLinked` (who is still linked to a canal
  that nobody but one user is in). `Refinement` shows that `CanalManager`
  implements `Rooms`: every step that is defined is a step of the rooms (a room
  is a canal under its name, its members the users in it) or leaves them alone.
  Both kinds of step need the invariant: that a new canal is a new room needs the
  id to be fresh and the name to be unused in *both* tables, that a departure is
  one member's needs the links to be the memberships. `Quiet` adds that nothing
  happens before the server serves. `LeftAllWhileDefined` is the positive side of
  finding 1: as long as no canal is deleted inside the loop, the log of
  `LeaveAllCanal` is right, since at its end the links of the user that are still
  memberships (`LinksAreMemberships`) are none.
- `ThreadSystemProofs`: `TaskInOnePlaceTheorem`, `NothingOutlivesCleanTheorem` and
  the types. Neither is inductive: that a task is in one place needs to know that
  a thread that has evaluated the predicate is alone with the queue until it
  takes, and that what it saw still holds (`TaskMutex`, without which it takes the
  head of an empty queue); that a task is not there before it is made (`Absent`);
  that the threads `Clean` has joined are gone and those are all of them
  (`Joining`); and, since the stop command is a part of the network task, that
  where a stop is going on a thread is in that task (`StopInNetwork`), so the stop
  command is over when the threads are joined (a stop from the console is not). `ThreadAssumption` says that the thread and task
  names differ and that there are finitely many threads.
- `ThreadSystemProofs` on waiting: `NoTaskForgottenTheorem` and `EndInSightTheorem`.
  The first counts: a thread that takes a task makes the queue shorter by one as
  it ceases to look, and a push adds a task together with the thread that will
  notify. What makes it inductive is `Roles`: which steps each thread may be at,
  that the task threads exist once the server is up, and that one about to sleep
  while the server runs saw an empty queue, which the mutex keeps empty. The
  second rests on `Shutdown` (whoever has cleared `m_Running` had told the server
  to stop before, so the network thread's `run()` returns) and `JoinSeen` (a thread
  that is being joined has set `m_Stopped`, so the join ends).
- `UserManagerProofs`: `UserIdsTheorem`, `LinksTheorem`, `OnlyClosedTheorem` and the
  types. The part that costs is `Requests`: an id in `m_ToRemove`, or in the copy
  `Update` walks, that has not been acted upon names a user whose connection is
  closed, and no two such requests name the same id. It is what makes
  `OnlyClosedRemoved` true although a request is a bare id and ids are reused: an
  id comes free only by acting on the one request that has it. `Removal` says what
  the network thread may see of a removal between two of its lines, and `Objects`
  that a user is found under its own id. `LinksTheorem` makes no assumption on the
  ids that commands name: an id in a canal that has no user, and no removal before
  its `LeaveAllCanal`, is one of `strays`. `ClosedRequestedTheorem` is the converse of
  `OnlyClosedRemoved`: a closed user has a request that is still to be acted
  upon. In the proof the request `Update` stands on no longer counts (`Ahead`, a
  part of `Awaited`), for its id may be free and given out again before the walk
  moves on; and the connection being added is not closed yet (`Asked`).
- `NecterePromptProofs`: `OwnIdTheorem`, `InStepTheorem`, `CanalsWithClients` and
  `SessionsApart`, for any clients, sessions, canals and events, whatever is
  typed. The invariant `PInv` has four parts beside the canals' own `Consistent`
  and the types of what is on the wires (`WireTypes`). `Sessions`: a client's
  session is open and its own, an id nobody has, and that is not being removed, is
  in no canal, and an id that is still being taken out of canals has no owner but
  an heir; without it another client's request could be in the queue, or an old
  membership send events to a new connection. An heir has strayed from the start,
  as finding 3 has it. `KnowsId`: between a connection and
  its greeting `m_ID` may be that of the connection before, but then the handler
  is waiting, sends nothing, and the greeting comes next. `KeepsOut` and `Minds`:
  who has not strayed is in no canal, is not in the middle of a message, and asks
  for neither, so that nothing but an answer can be sent to it. `AtMostOne`: its
  one request, or the one answer to it, is what it waits for; that is `InStep`,
  and with an idle handler nothing is under way. Each command's answer must
  therefore be shown to be one event, to the one who asked, with the code asked
  for (`TreatAnswers`), and everything else the server sends to be sent to a
  member of a canal. `CanalsWithClients` restates the canals' invariants for the server whose requests come
  from clients, through the dispatch. `PromptAssumption` says that a socket's
  marks ("closed", "broken", "backlog") are no users and that a "create" event typed whole
  carries the name of a canal.
- `NecterePromptProofs` on answers: `AnswerComesTheorem`. Its invariant `AInv` adds
  that a client past the greeting has `m_Connected` set, since otherwise it would
  wait for the answer to something `Send` dropped; that the answer
  is there when the request is gone is `TreatAnswers` once more.
- `NecterePromptProofs` on the composition: `PromptIsCanalStep` shows that every step
  of the server with its clients is a step of `CanalManager`'s next-state
  relation or leaves its tables alone and sends nothing of its own (`Silent`: a
  join that is refused for a password no canal has is the exception, and sends an
  error). So what is proved of every step of `CanalManager` holds with clients:
  `RoomsWithClients` and `OwnDepartureWithClients`. `OnlyHeirsHearDeletedTheorem`
  goes beyond `DeletedToNobody`: that only the departing user is notified, and
  that its id has no owner but an heir (`Sessions`), give that no other client
  finds the notice among what it has to read.

### What is only model-checked

Liveness (`QueuedIsTaken`, `StopsOrLosesWakeUp`, `ClosedIsRemoved`, `Answered`)
stays with TLC: the prover has neither fairness nor ENABLED. The safety half of
each is proved: that the task has someone to take it (`NoTaskForgotten`), that a
stopped server is not stuck (`EndInSight`), that the removal is requested
(`ClosedIsRequested`) and that the answer comes (`AnswerComes`); what TLC alone
shows is that fair scheduling then brings it about. Everything about
scripts and documents (`SearchFindsSeen`, `EndlessNeedsFork`, `FreedNeedsFailure`,
`CompiledIsUnambiguous`, `LoadOutcomeIsFinal`, `JsonFaithful`, `XmlFaithful`,
`AddIsFound`, `PutIsFound`) rests on recursion over trees, texts and imports:
those modules use RECURSIVE operators, and what they compute is a matter of
induction over data, both out of the prover's reach. The properties of the three
runs that expect a violation are false, and so not to be proved.

## Where the code and what it says part

1. `leave_all`: the loop of `LeaveAllCanal` erases the link it stands on
   (`CanalManager.cpp:244-251`, `:56`); it may end early, and the log says
   the user "has left all canals" while it still is in one.
2. `stop`: `ThreadSystem::Stop` stores and notifies without the mutexes of the
   waits (`ThreadSystem.cpp:95-97`). The notification can fall between the
   predicate and the sleep; then the user has been told "Server Stopped" and the
   process never ends.
3. `rejoin`: the update thread frees an id before it takes it out of the canals
   (`UserManager.cpp:56-58`). A new user given the id may join in between, is
   put out, and is told it had not joined. An heir that does nothing may as well be
   sent messages of a canal it never joined.

The warning of `Command/ReloadAppCommand.cpp:28`, "Failing to reload app will
result in its unloading", is not what happens when the library has not changed:
the command is answered "Fail" and the application stays (`CanReload`,
`ApplicationManager.cpp:132`).

The models also show how undefined behaviour is reached, which the invariants
exclude by `Defined`: `m_Users` changed by one thread while the other iterates
over it, `m_UsersToRemove` appended to during the walk, a handler that was
pending when its user was deleted, an application unloaded or loaded while
`ApplicationManager::Update` is in the table, the members of a canal copied by
`MessageCanal` while `LeaveAllCanal` removes one, the loop of `LeaveAllCanal` that
goes on from an erased link, the library pointer of a file that is not there, an
exception thrown by a broken
read. And `ClosedIsRemoved` is only true with its second alternative: a request
that arrives between the end of the walk and `clear()` is forgotten, and that
user stays for ever.

What the other models met, and how they treat it:

- *Client.* Joining a canal that is not known waits for an answer to a request
  that was never sent (`NecterePrompt.cpp:320`); a message to a canal that does
  not exist is answered by nothing (`CanalManager.cpp:264`). `Answered` leaves
  these two out by name. It also claims nothing once the server is stopped: the
  process may never end, its sockets then stay open, and a handler waits for ever.
  A client that has joined a canal, or sent it a message, is
  `strayed` until it connects again, and so is one that connects as an heir: `InStep` claims nothing of it, because an
  event of the canal may be taken for an answer, and nothing brings it back in
  step.
- *Scripts.* The library does not compile as it is: `Linker.hpp` and
  `NativeUtils::RegisterLinker` misspell members, which the model reads as the
  ones meant. `Function::AddBody` drops the body. `CompileCasters` erases the
  casters that there are, so a compiled script has none. Functions of imports are
  not checked for duplicates: the check looks at the types twice
  (`Script.cpp:458`). `ParseCast` registers one direction twice. `Reload` reads
  nothing. A path that failed once stays failed. An import that does not compile
  is deleted while others still point to it (`Script.cpp:486`). A callable that
  waits for its linker is deleted by the first look-up, and `RegisterLinker` then
  casts the deleted one. `m_Helper` (`Script.cpp:35`, `Native.cpp:38`,
  `Unit.cpp:15`) is a reference to a temporary.
- *Documents.* Node's assignment does not copy the name (`Dp/Node.cpp:51`), so an
  insertion or a removal in a vector moves values under names that stay.
  `PutIsFound` says when one sees it: a value assigned over another has the names
  of the old one's children, and after the removal of the only child of a name
  that name finds the child behind it. An addition below the *n*-th child of a name
  that has fewer is dropped (`Dp/Node.cpp:120`).

## What is not modelled, and why

- *Windows server* (`Network/Windows*`): built only without Boost, which
  `CMakeLists.txt:25` always defines. *White list, configuration, logger, argument
  parser, template*: no state that changes while the server runs, or output only.
- *Script values* (`Unit`, `Variable`, `CallStack`, the typers): what a call
  computes. A sequential structure of a library that is not built, whose scopes
  nothing opens or closes; `Interpreter` models that an element is found and
  with which types it is called.
- *The wire format*: it copies fields. The version packed in base 100 wraps from
  6.55.36 on (`Network/Helper.cpp:36`), but nothing reads what is decoded.
- *Texts nobody printed*: the readers are run on what the printers print. An
  unclosed XML comment and an attribute without quotes make them run for ever
  (`Dp/Xml.cpp:220`, `:383`), and an unclosed declaration is read past its end
  (`:463`), where the model refuses it.
- *How a line is split into words* (`CommandTreater`): a line is the command it
  stands for.
- *What plugins do* in their commands and handlers, `dlopen`, Boost.Asio, the
  standard library: external, modelled from how the code uses them.
- *Running out of ids*; `Task::Cancel` and `Task::Await`, which nothing calls;
  `CreateNewApplication`, which nothing calls.
- *The mutexes of the logger*: they order lines of a log.

## Plan

Done: identifiers, the table of objects by id, canals, threads, users,
applications, and the clients with the commands and the canals behind them
(modelled, checked and proved: every safety property of their passing runs is a
theorem, and so are their types, which no run checks); documents, and the loading
and compiling of scripts (modelled and checked). What may follow:

1. `LoadOutcomeIsFinal` as a theorem, with the loader's table in a module of its
   own, apart from the recursion of the parser.
2. `Values`: units, variables and call stacks as a heap of owned and borrowed
   units, when the script library is built.
