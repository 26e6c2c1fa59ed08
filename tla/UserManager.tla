---------------------------- MODULE UserManager ----------------------------
(***************************************************************************)
(* The users of a Nectere server, from the connection to the removal:      *)
(* src/Nectere/UserManager.cpp, AUser.cpp, Network/BoostNetworkServer.cpp  *)
(* and Network/BoostNetworkUser.cpp.                                       *)
(*                                                                         *)
(* The network thread runs one handler at a time: a connection, a command, *)
(* the end of a read or of a write, the close of a session, the stop.  The *)
(* update thread runs UserManager::Update, which removes the users that    *)
(* asked for it.  Neither m_Users nor m_UsersToRemove has a mutex, so the  *)
(* steps of Update overlap the handlers.  A conflicting access is undefined *)
(* behaviour, after which nothing is modelled.                             *)
(*                                                                         *)
(* Of CanalManager there is what its invariants promise: the canals each   *)
(* id is in, changed under its mutex.  Passwords, limits and deletions are *)
(* CanalManager's.                                                         *)
(***************************************************************************)
EXTENDS IDGenerator, FiniteSets

CONSTANTS Client,   \* connections; a client that connects again is another one
          Canal,    \* the canals, all of them there
          None

ASSUME UserAssumption == None \notin Client \cup Id

VARIABLES
  users,     \* m_Users: id -> the user object, named for its connection
  gen,       \* m_IDGenerator
  toRemove,  \* m_UsersToRemove
  sessions,  \* BoostNetworkServer::m_Sessions
  conn,      \* connection -> how far its session has got
  id,        \* connection -> AUser::m_ID, or None
  reading,   \* the connections with an async_read under way
  writing,   \* the connections with a write posted or under way
  links,     \* user id -> the canals it is in (m_ClientLinks)
  adding,    \* the connection between GenerateID and m_Users.Add, or None
  net,       \* the network thread: "run", "stopping", "stopped"
  upd,       \* the update thread in UserManager::Update
  answer,    \* the answer the last step gave
  joined,    \* history: connection -> the canals it was told it joined
  strays,    \* history: ids that joined a canal while nobody had them
  lost,      \* history: the requests that clear() threw away unread
  status     \* "defined", "undefined", "ended" by an exception nobody catches

vars == <<users, gen, toRemove, sessions, conn, id, reading, writing, links,
          adding, net, upd, answer, joined, strays, lost, status>>

sessionVars == <<conn, id, reading, writing>>
updateVars == <<toRemove, upd, lost>>

NoAnswer == [to |-> None, code |-> "none", canal |-> None]
Idle == [pc |-> "idle", todo |-> <<>>, seen |-> 0]

Without(f, x) == [y \in DOMAIN f \ {x} |-> f[y]]

Init ==
  /\ users = [i \in {} |-> None]
  /\ gen = NewGenerator(0)
  /\ toRemove = <<>>
  /\ sessions = {}
  /\ conn = [c \in Client |-> "absent"]
  /\ id = [c \in Client |-> None]
  /\ reading = {}
  /\ writing = {}
  /\ links = [i \in Id |-> {}]
  /\ adding = None
  /\ net = "run"
  /\ upd = Idle
  /\ answer = NoAnswer
  /\ joined = [c \in Client |-> {}]
  /\ strays = {}
  /\ lost = {}
  /\ status = "defined"

Defined == status = "defined"

\* The object of c has been created and not deleted yet.
Exists(c) == c = adding \/ \E i \in DOMAIN users : users[i] = c

\* Update is where it writes m_Users, reads it, or walks m_UsersToRemove.
Erasing == upd.pc = "erase"
Ticking == upd.pc = "tick"
Walking == upd.pc \in {"loop", "erase", "free", "leave"}

\* What comes of a data race: it goes unnoticed, or anything.
MayRace(conflict) == status' \in {"defined"} \cup (IF conflict THEN {"undefined"} ELSE {})
MustNot(conflict) == status' = IF conflict THEN "undefined" ELSE "defined"

\* The network thread is free to run a handler.
Handler == Defined /\ net = "run" /\ adding = None
-----------------------------------------------------------------------------
(* Connecting. *)

\* Ids in use, those on their way in and out of m_Users included.
LiveIds ==
  DOMAIN users
    \cup (IF adding = None THEN {} ELSE {id[adding]})
    \cup (IF upd.pc = "free" THEN {Head(upd.todo)} ELSE {})

\* AddUser: the object is created and reads, GenerateID, USER_CONNECTED is
\* posted.  Bound: an id is left.
Accept(c) ==
  /\ Handler /\ conn[c] = "absent"
  /\ Spare(LiveIds, 0)
  /\ conn' = [conn EXCEPT ![c] = "open"]
  /\ id' = [id EXCEPT ![c] = IdFrom(gen)]
  /\ gen' = GenerateID(gen)
  /\ reading' = reading \cup {c}
  /\ writing' = writing \cup {c}
  /\ adding' = c
  /\ answer' = NoAnswer
  /\ UNCHANGED <<users, sessions, links, net, joined, strays, status, updateVars>>

\* m_Users.Add, while Update may be writing it or iterating over it.
AcceptAdd ==
  /\ Defined /\ adding # None
  /\ users' = [i \in DOMAIN users \cup {id[adding]} |->
                 IF i = id[adding] THEN adding ELSE users[i]]
  /\ sessions' = sessions \cup {id[adding]}
  /\ adding' = None
  /\ answer' = NoAnswer
  /\ IF Erasing THEN MustNot(TRUE) ELSE MayRace(Ticking)
  /\ UNCHANGED <<gen, links, net, joined, strays, sessionVars, updateVars>>
-----------------------------------------------------------------------------
(* Commands: the handler of a read that succeeded.  An event names the user it is  *)
(* for, and nobody compares that id with the session's: i is any id.               *)

\* SendEvent posts a write to whoever has the id now.
Posted(ids) == writing' = writing \cup {users[i] : i \in ids \cap DOMAIN users}
UserOf(i) == IF i \in DOMAIN users THEN users[i] ELSE None

\* BoostNetworkUser::Read's handler around the command, which answers user i: it
\* reads on unless the session was closed meanwhile.  m_Users.Get races with
\* Update's Remove.
Command(c, i, code, k, ids) ==
  /\ Handler /\ c \in reading /\ Exists(c)
  /\ Posted(ids)
  /\ reading' = IF conn[c] = "open" THEN reading ELSE reading \ {c}
  /\ answer' = [to |-> UserOf(i), code |-> code, canal |-> k]
  /\ MayRace(Erasing)
  /\ UNCHANGED <<users, gen, sessions, conn, id, adding, net, updateVars>>

Join(c, i, k) ==
  /\ Command(c, i, "joined", k, {i})
  /\ links' = [links EXCEPT ![i] = @ \cup {k}]
  /\ joined' = [d \in Client |-> IF d = UserOf(i) THEN joined[d] \cup {k} ELSE joined[d]]
  /\ strays' = IF i \in DOMAIN users THEN strays ELSE strays \cup {i}

Leave(c, i, k) ==
  /\ k \in links[i]
  /\ Command(c, i, "left", k, {i})
  /\ links' = [links EXCEPT ![i] = @ \ {k}]
  /\ joined' = [d \in Client |-> IF d = UserOf(i) THEN joined[d] \ {k} ELSE joined[d]]
  /\ UNCHANGED strays

\* What LeaveCanal and MessageCanal answer for an id that is not in k.
LeaveRefused(c, i, k) ==
  /\ k \notin links[i]
  /\ Command(c, i, "User has not joined it yet", k, {i})
  /\ UNCHANGED <<links, joined, strays>>

\* MessageCanal, by a member.
Message(c, i, k) ==
  /\ k \in links[i]
  /\ Command(c, i, "message", k, {j \in Id : k \in links[j]} \ {i})
  /\ UNCHANGED <<links, joined, strays>>
-----------------------------------------------------------------------------
(* Closing a session. *)

\* Close: once only, by m_Closed.
Closing(c) == [conn EXCEPT ![c] = IF @ = "open" THEN "closing" ELSE @]

\* A read fails: the connection broke, or the socket was closed.  Its handler
\* reads m_Closed of an object that Update may have deleted.
ReadFails(c) ==
  /\ Handler /\ c \in reading
  /\ reading' = reading \ {c}
  /\ conn' = Closing(c)
  /\ answer' = NoAnswer
  /\ MustNot(~Exists(c))
  /\ UNCHANGED <<users, gen, sessions, id, writing, links, adding, net, joined, strays, updateVars>>

\* The connection breaks between the header and the data of a message: the
\* read of the data throws out of io_context::run(), the task and the thread.
ReadBreaks(c) ==
  /\ Handler /\ c \in reading /\ Exists(c)
  /\ status' = "ended"
  /\ answer' = NoAnswer
  /\ UNCHANGED <<users, gen, sessions, links, adding, net, joined, strays, sessionVars, updateVars>>

\* A posted write is done or fails.  It captures the object as well.
WriteEnds(c) ==
  /\ Handler /\ c \in writing
  /\ writing' = writing \ {c}
  /\ conn' \in {conn, Closing(c)}
  /\ answer' = NoAnswer
  /\ MustNot(~Exists(c))
  /\ UNCHANGED <<users, gen, sessions, id, reading, links, adding, net, joined, strays, updateVars>>

\* Faulty variant: nobody asks for the removal.
CloseHandlerNoRequest(c) ==
  /\ Handler /\ conn[c] = "closing"
  /\ conn' = [conn EXCEPT ![c] = "closed"]
  /\ answer' = NoAnswer
  /\ UNCHANGED <<users, gen, toRemove, sessions, id, reading, writing, links, adding,
                 net, upd, joined, strays, lost, status>>

\* OnClose's handler: the socket is closed, MarkForDelete asks for the removal.
\* emplace_back races with Update's walk.
CloseHandler(c) ==
  /\ Handler /\ conn[c] = "closing"
  /\ conn' = [conn EXCEPT ![c] = "closed"]
  /\ toRemove' = Append(toRemove, id[c])
  /\ answer' = NoAnswer
  /\ MayRace(Walking)
  /\ UNCHANGED <<users, gen, sessions, id, reading, writing, links, adding, net, upd,
                 joined, strays, lost>>
-----------------------------------------------------------------------------
(* Stopping the server: the handler that BoostNetworkServer::Stop posts. *)

StopBegin ==
  /\ Handler
  /\ net' = "stopping"
  /\ answer' = NoAnswer
  /\ UNCHANGED <<users, gen, sessions, links, adding, joined, strays, status, sessionVars, updateVars>>

\* RemoveUserInstant of one session's user, on this thread.
StopRemove(i) ==
  /\ Defined /\ net = "stopping" /\ i \in sessions
  /\ sessions' = sessions \ {i}
  /\ IF i \in DOMAIN users
     THEN /\ users' = Without(users, i)
          /\ gen' = FreeID(gen, i)
          /\ links' = [links EXCEPT ![i] = {}]
          /\ strays' = strays \ {i}
     ELSE UNCHANGED <<users, gen, links, strays>>
  /\ answer' = NoAnswer
  /\ IF Erasing THEN MustNot(TRUE) ELSE MayRace(Ticking)
  /\ UNCHANGED <<adding, net, joined, sessionVars, updateVars>>

StopEnd ==
  /\ Defined /\ net = "stopping" /\ sessions = {}
  /\ net' = "stopped"
  /\ answer' = NoAnswer
  /\ UNCHANGED <<users, gen, sessions, links, adding, joined, strays, status, sessionVars, updateVars>>
-----------------------------------------------------------------------------
(* UserManager::Update. *)

\* The update thread goes from one place to the next; what it leaves alone.
UpdateStep(from, to) ==
  /\ Defined /\ upd.pc = from
  /\ upd' = [upd EXCEPT !.pc = to]
  /\ answer' = NoAnswer
  /\ UNCHANGED <<sessions, adding, net, joined, strays, status, sessionVars>>

\* The loop over m_UsersToRemove: begin() and end() are taken now.
UpdateBegin ==
  /\ Defined /\ upd.pc = "idle"
  /\ upd' = [pc |-> "loop", todo |-> toRemove, seen |-> Len(toRemove)]
  /\ answer' = NoAnswer
  /\ UNCHANGED <<users, gen, toRemove, sessions, links, adding, net, joined, strays, lost, status,
                 sessionVars>>

\* RemoveUserInstant of the next id: m_Users.Remove, unless it is not there ...
RemoveFind ==
  /\ Defined /\ upd.pc = "loop" /\ upd.todo # <<>>
  /\ upd' = IF Head(upd.todo) \in DOMAIN users
            THEN [upd EXCEPT !.pc = "erase"]
            ELSE [upd EXCEPT !.todo = Tail(@)]
  /\ answer' = NoAnswer
  /\ UNCHANGED <<users, gen, toRemove, sessions, links, adding, net, joined, strays, lost, status,
                 sessionVars>>

\* ... deletes the object and erases the entry, ...
RemoveErase ==
  /\ UpdateStep("erase", "free")
  /\ users' = Without(users, Head(upd.todo))
  /\ UNCHANGED <<gen, toRemove, links, lost>>

\* ... frees the id, which a new user may get from here on, ...
RemoveFree ==
  /\ UpdateStep("free", "leave")
  /\ gen' = FreeID(gen, Head(upd.todo))
  /\ UNCHANGED <<users, toRemove, links, lost>>

\* Faulty variant: the canals are not left.
RemoveLeaveNothing ==
  /\ Defined /\ upd.pc = "leave"
  /\ upd' = [upd EXCEPT !.pc = "loop", !.todo = Tail(@)]
  /\ answer' = NoAnswer
  /\ UNCHANGED <<users, gen, toRemove, sessions, links, adding, net, joined, strays, lost, status,
                 sessionVars>>

\* ... and takes the id out of every canal.
RemoveLeave ==
  /\ Defined /\ upd.pc = "leave"
  /\ upd' = [upd EXCEPT !.pc = "loop", !.todo = Tail(@)]
  /\ links' = [links EXCEPT ![Head(upd.todo)] = {}]
  /\ strays' = strays \ {Head(upd.todo)}
  /\ answer' = NoAnswer
  /\ UNCHANGED <<users, gen, toRemove, sessions, adding, net, joined, lost, status, sessionVars>>

\* Faulty variant: the requests are not cleared.
ClearNothing ==
  /\ upd.todo = <<>>
  /\ UpdateStep("loop", "tick")
  /\ UNCHANGED <<users, gen, links, toRemove, lost>>

\* clear(), and with it the requests that came after end() was taken.
Clear ==
  /\ upd.todo = <<>>
  /\ UpdateStep("loop", "tick")
  /\ lost' = lost \cup {toRemove[i] : i \in upd.seen + 1 .. Len(toRemove)}
  /\ toRemove' = <<>>
  /\ UNCHANGED <<users, gen, links>>

\* Every user's Update, the applications' and the canals': nothing of it here.
Tick ==
  /\ UpdateStep("tick", "idle")
  /\ UNCHANGED <<users, gen, toRemove, links, lost>>
-----------------------------------------------------------------------------
NetworkThread ==
  \/ \E c \in Client :
       \/ Accept(c) \/ ReadFails(c) \/ ReadBreaks(c) \/ WriteEnds(c) \/ CloseHandler(c)
       \/ \E i \in Id, k \in Canal :
            Join(c, i, k) \/ Leave(c, i, k) \/ LeaveRefused(c, i, k) \/ Message(c, i, k)
  \/ AcceptAdd
  \/ StopBegin \/ StopEnd
  \/ \E i \in Id : StopRemove(i)

UpdateThread ==
  \/ UpdateBegin \/ RemoveFind \/ RemoveErase \/ RemoveFree \/ RemoveLeave \/ Clear \/ Tick

Next == NetworkThread \/ UpdateThread

Spec == Init /\ [][Next]_vars

\* The update task is taken again and again (ThreadSystem!QueuedIsTaken).
FairSpec == Spec /\ WF_vars(UpdateThread)
-----------------------------------------------------------------------------
TypeOK ==
  /\ DOMAIN users \subseteq Id
  /\ users \in [DOMAIN users -> Client]
  /\ gen \in Generator
  /\ toRemove \in Seq(Id)
  /\ sessions \subseteq Id
  /\ conn \in [Client -> {"absent", "open", "closing", "closed"}]
  /\ id \in [Client -> Id \cup {None}]
  /\ reading \subseteq Client /\ writing \subseteq Client
  /\ links \in [Id -> SUBSET Canal]
  /\ adding \in Client \cup {None}
  /\ net \in {"run", "stopping", "stopped"}
  /\ upd.pc \in {"idle", "loop", "erase", "free", "leave", "tick"}
  /\ upd.todo \in Seq(Id) /\ upd.seen \in Nat
  /\ upd.pc \in {"erase", "free", "leave"} => upd.todo # <<>>
  /\ joined \in [Client -> SUBSET Canal]
  /\ strays \subseteq Id
  /\ lost \subseteq Id
  /\ status \in {"defined", "undefined", "ended"}

\* A user's id is in use from GenerateID to FreeID and by that user alone,
\* whichever thread removes the users and whoever connects meanwhile.
UserIdsAccounted ==
  Defined => /\ Accounted(gen, LiveIds, 0)
             /\ \A i, j \in DOMAIN users : users[i] = users[j] => i = j
             /\ adding # None => id[adding] \notin DOMAIN users

\* Nobody who is gone stays in a canal: an id in a canal is a user's, or that of
\* the user Update is just removing, or an event put it there while nobody had it.
LinksBelongToUsers ==
  Defined => \A i \in Id : links[i] # {} =>
    \/ i \in DOMAIN users \cup strays
    \/ adding # None /\ id[adding] = i
    \/ upd.pc \in {"free", "leave"} /\ Head(upd.todo) = i

\* A request is kept as an id, and acted upon later: it never removes a user
\* that was given the id in the meantime.
OnlyClosedRemoved ==
  [][\A c \in Client : Exists(c) /\ ~Exists(c)' => conn[c] = "closed" \/ net = "stopping"]_vars

\* The removals Update has still to make: what it has not walked over yet, and
\* what came into m_UsersToRemove since it took end().
Awaited ==
  {upd.todo[i] : i \in DOMAIN upd.todo}
    \cup {toRemove[i] : i \in (IF Walking THEN upd.seen + 1 ELSE 1) .. Len(toRemove)}

\* A user whose session is closed has its removal ahead of it, unless clear()
\* threw the request away: no walk skips it, ends before it, or spends it on the
\* user that had the id before.
ClosedIsRequested ==
  Defined /\ net = "run" =>
    \A c \in Client : conn[c] = "closed" /\ Exists(c) => id[c] \in Awaited \cup lost

\* A user whose session is closed is removed, or its request was thrown away
\* by clear(): there is no other way to be left in m_Users.
ClosedIsRemoved ==
  \A c \in Client :
    conn[c] = "closed" ~> ~Exists(c) \/ id[c] \in lost \/ net # "run" \/ ~Defined

\* CanalManager answers "Cannot leave canal: User has not joined it yet" to
\* users that have not joined the canal.
NotJoinedYet ==
  [][answer'.code = "User has not joined it yet" /\ answer'.to # None =>
       answer'.canal \notin joined[answer'.to]]_vars
=============================================================================
