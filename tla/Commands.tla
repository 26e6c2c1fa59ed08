------------------------------ MODULE Commands ------------------------------
(***************************************************************************)
(* What a Nectere server does with the events of its clients: the sessions *)
(* (Network/BoostNetworkUser.cpp), the dispatch (ApplicationManager.cpp,   *)
(* Application.cpp, ACommand.cpp) and the commands of the base application *)
(* (src/Nectere/Command).                                                  *)
(*                                                                         *)
(* The commands on canals are the operations of CanalManager, composed     *)
(* with the rest here.  Of UserManager there is what its invariants        *)
(* promise, a session has an id no other session has, and the removal of a *)
(* user in its three steps: out of the table, its id free, its canals left *)
(* one by one.  Events travel in two first-in first-out queues per         *)
(* session, the two ways of a socket.  Once CanalManager's behaviour is    *)
(* undefined nothing is modelled.                                          *)
(***************************************************************************)
EXTENDS CanalManager

CONSTANTS AuthKey,   \* the key of the configuration
          Plugins    \* the applications loaded at the start: id -> name

ASSUME CommandAssumption ==
  /\ None \notin User
  /\ DOMAIN Plugins \subseteq Nat

VARIABLES
  session,    \* user id -> "free", "open", "closed": waiting to be removed, or
              \* "erased": out of m_Users, its id not free yet
  removing,   \* the user RemoveUserInstant is at, or None
  heirs,      \* history: the sessions that got their id before its last owner
              \* had left all its canals
  auth,       \* the users that have m_Authenticated
  apps,       \* m_Applications, without the base one: id -> name
  toServer,   \* user id -> requests on their way
  toClient,   \* user id -> events on their way
  stopped,    \* the stop command was carried out
  ended       \* the process has ended since: its sockets are closed

canalVars == <<canals, dictionary, links, gen, serving, peek, leaving, out, status>>
userVars == <<session, removing, heirs>>
serverVars == <<userVars, auth, apps, toServer, toClient, stopped, ended>>

Base == 0   \* the id of the application "Nectere"

\* What an event carries: text, or one of the three lists a client reads.
Text == <<"text">>
Echo(data) == <<"echo", data>>

Up == Defined /\ ~stopped
\* The network thread is free to treat an event.
NetworkReady == Up /\ serving /\ peek = None

OnWire(code, error, app, data) == [code |-> code, error |-> error, app |-> app, data |-> data]

\* UserManager::SendEvent, to those who have a session.
SendEvent(ids, e) ==
  toClient' = [u \in User |-> IF u \in ids /\ session[u] = "open"
                              THEN Append(toClient[u], e) ELSE toClient[u]]

Reply(u, code, error, data) == SendEvent({u}, OnWire(code, error, Base, data))

\* The events CanalManager sends in this step, at most one to each user;
\* ListCanal's holds the names and ids.
CanalEvent(e) ==
  OnWire(e.code, e.error, Base,
         IF e.code = "list" THEN <<"canals", dictionary>> ELSE Text)
SendCanalEvents ==
  toClient' = [u \in User |->
                 IF session[u] = "open" /\ \E e \in out' : e.to = u
                 THEN Append(toClient[u], CanalEvent(CHOOSE e \in out' : e.to = u))
                 ELSE toClient[u]]

NoCanalChange ==
  /\ out' = {}
  /\ UNCHANGED <<canals, dictionary, links, gen, serving, peek, leaving, status>>
-----------------------------------------------------------------------------
(* The commands of the base application.  q is the event being treated.      *)

\* UserManager::AuthenticateUser.
AuthCommand(q) ==
  /\ auth' = IF q.data = AuthKey THEN auth \cup {q.user} ELSE auth
  /\ Reply(q.user, "auth", q.data # AuthKey, Text)
  /\ NoCanalChange /\ UNCHANGED <<apps, stopped>>

ApplicationListCommand(q) ==
  /\ Reply(q.user, "apps", FALSE, <<"applications">>)
  /\ NoCanalChange /\ UNCHANGED <<auth, apps, stopped>>

Names == {apps[a] : a \in DOMAIN apps}

\* An application that does not exist is answered as if it did, with text.
CommandListCommand(q) ==
  /\ Reply(q.user, "commands", FALSE,
           IF q.data \in Names \cup {"Nectere"} THEN <<"commands">> ELSE Text)
  /\ NoCanalChange /\ UNCHANGED <<auth, apps, stopped>>

PingCommand(q) ==
  /\ Reply(q.user, "ping", FALSE, Echo(q.data))
  /\ NoCanalChange /\ UNCHANGED <<auth, apps, stopped>>

\* SearchLoadedApplication: the first application of that name.
First(name) == {a \in DOMAIN apps :
                  apps[a] = name /\ \A b \in DOMAIN apps : apps[b] = name => a <= b}

\* The library may have changed: the reload works and may find another name in
\* it, is refused by an application that cannot be reloaded, or unloads it.
ReloadAppCommand(q) ==
  /\ \/ /\ q.data \notin Names
        /\ Reply(q.user, "reload", TRUE, Text) /\ UNCHANGED apps
     \/ \E a \in First(q.data) :
          \/ /\ \E name \in Range(Plugins) : apps' = [apps EXCEPT ![a] = name]
             /\ Reply(q.user, "reload", FALSE, Text)
          \/ /\ apps' \in {apps, Without(apps, a)}
             /\ Reply(q.user, "reload", TRUE, Text)
  /\ NoCanalChange /\ UNCHANGED <<auth, stopped>>

UnloadAppCommand(q) ==
  /\ apps' = [a \in DOMAIN apps \ First(q.data) |-> apps[a]]
  /\ Reply(q.user, "unload", q.data \notin Names, Text)
  /\ NoCanalChange /\ UNCHANGED <<auth, stopped>>

\* The answer is posted before the threads are told to stop; it may still be
\* in the network's queue when it stops.
StopCommand(q) ==
  /\ \/ /\ q.user \in auth
        /\ stopped' = TRUE
        /\ Reply(q.user, "stop", FALSE, Text) \/ UNCHANGED toClient
     \/ q.user \notin auth /\ Reply(q.user, "stop", TRUE, Text) /\ UNCHANGED stopped
  /\ NoCanalChange /\ UNCHANGED <<auth, apps>>

\* Creating and deleting are for authenticated users.
Authenticated(q, Action(_)) ==
  \/ q.user \in auth /\ Action(q) /\ SendCanalEvents
  \/ q.user \notin auth /\ Reply(q.user, q.code, TRUE, Text) /\ NoCanalChange

CreateCanalCommand(q) ==
  /\ LET Create(r) == CreateCanal(r.user, r.data, Empty, -1) IN Authenticated(q, Create)
  /\ UNCHANGED <<auth, apps, stopped>>

DeleteCanalCommand(q) ==
  /\ LET Delete(r) == DeleteCanal(r.user, r.canal) IN Authenticated(q, Delete)
  /\ UNCHANGED <<auth, apps, stopped>>

CanalCommand(Action) == Action /\ SendCanalEvents /\ UNCHANGED <<auth, apps, stopped>>

JoinCanalCommand(q) == CanalCommand(JoinCanal(q.user, q.canal, q.data))
LeaveCanalCommand(q) == CanalCommand(LeaveCanal(q.user, q.canal))
ListCanalCommand(q) == CanalCommand(ListCanal(q.user))
MessageCanalCommand(q) == CanalCommand(MessageCanal(q.user, q.canal))

\* Manager::Start: the commands of the base application.
Registered == {"auth", "apps", "commands", "ping", "reload", "stop", "unload",
               "create", "delete", "join", "leave", "list", "message"}

\* Application::Treat.
Treat(q) ==
  \/ q.code = "auth" /\ AuthCommand(q)
  \/ q.code = "apps" /\ ApplicationListCommand(q)
  \/ q.code = "commands" /\ CommandListCommand(q)
  \/ q.code = "ping" /\ PingCommand(q)
  \/ q.code = "reload" /\ ReloadAppCommand(q)
  \/ q.code = "unload" /\ UnloadAppCommand(q)
  \/ q.code = "stop" /\ StopCommand(q)
  \/ q.code = "create" /\ CreateCanalCommand(q)
  \/ q.code = "delete" /\ DeleteCanalCommand(q)
  \/ q.code = "join" /\ JoinCanalCommand(q)
  \/ q.code = "leave" /\ LeaveCanalCommand(q)
  \/ q.code = "list" /\ ListCanalCommand(q)
  \/ q.code = "message" /\ MessageCanalCommand(q)

\* IsEventAllowed: only CommandListCommand looks at the data.  Plugins are
\* taken to have no command of their own.
IsEventAllowed(q) ==
  q.app = Base /\ q.code \in Registered /\ (q.code = "commands" => q.data # Empty)

\* What is not allowed comes back marked as an error: no such application, no
\* such event, misformated data.
Refuse(q) ==
  /\ SendEvent({q.user}, OnWire(q.code, TRUE, q.app, Text))
  /\ NoCanalChange /\ UNCHANGED <<auth, apps, stopped>>

\* BoostNetworkUser::Read, AUser::Send and ApplicationManager::Receive: who
\* asks is what the event says, not whose socket it came through.
Receive(u) ==
  /\ NetworkReady /\ session[u] = "open" /\ toServer[u] # <<>>
  /\ LET q == Head(toServer[u]) IN
       \/ IsEventAllowed(q) /\ Treat(q)
       \/ ~IsEventAllowed(q) /\ Refuse(q)
  /\ toServer' = [toServer EXCEPT ![u] = Tail(@)]
  /\ UNCHANGED <<userVars, ended>>

\* The rest of MessageCanal.
SendMessage ==
  /\ Up /\ MessageSend /\ SendCanalEvents
  /\ UNCHANGED <<userVars, auth, apps, toServer, stopped, ended>>
-----------------------------------------------------------------------------
(* Sessions. *)

\* AcceptSession and AddUser: the first event on the socket is USER_CONNECTED.
\* m_Authenticated is never initialised.
AcceptSession(u) ==
  /\ NetworkReady /\ session[u] = "free"
  /\ session' = [session EXCEPT ![u] = "open"]
  /\ heirs' = IF removing = u THEN heirs \cup {u} ELSE heirs \ {u}
  /\ auth' \in {auth, auth \cup {u}}
  /\ toClient' = [toClient EXCEPT ![u] = <<OnWire("connected", FALSE, Base, <<"id", u>>)>>]
  /\ toServer' = [toServer EXCEPT ![u] = <<>>]
  /\ NoCanalChange /\ UNCHANGED <<removing, apps, stopped, ended>>

\* BoostNetworkUser::OnClose, once a read or a write fails.
OnClose(u) ==
  /\ NetworkReady /\ session[u] = "open"
  /\ session' = [session EXCEPT ![u] = "closed"]
  /\ toServer' = [toServer EXCEPT ![u] = <<>>]
  /\ toClient' = [toClient EXCEPT ![u] = <<>>]
  /\ NoCanalChange /\ UNCHANGED <<removing, heirs, auth, apps, stopped, ended>>

\* RemoveUserInstant, called by Update: the user leaves the table ...
RemoveUser(u) ==
  /\ Up /\ removing = None /\ session[u] = "closed"
  /\ session' = [session EXCEPT ![u] = "erased"]
  /\ removing' = u
  /\ auth' = auth \ {u}
  /\ NoCanalChange /\ UNCHANGED <<heirs, apps, toServer, toClient, stopped, ended>>

\* ... its id is free again ...
FreeUserID ==
  /\ Up /\ removing # None /\ session[removing] = "erased"
  /\ session' = [session EXCEPT ![removing] = "free"]
  /\ NoCanalChange
  /\ UNCHANGED <<removing, heirs, auth, apps, toServer, toClient, stopped, ended>>

\* ... and only then its canals are left.
LeaveCanals ==
  /\ Up /\ removing # None /\ session[removing] # "erased"
  /\ \/ LeaveAllCanal(removing) /\ UNCHANGED removing
     \/ (\E c \in Id : LeaveOne(c)) /\ UNCHANGED removing
     \/ LeaveNext /\ UNCHANGED removing
     \/ LeaveAllEnd /\ removing' = None
  /\ SendCanalEvents
  /\ UNCHANGED <<session, heirs, auth, apps, toServer, stopped, ended>>

\* The process of a stopped server may end, if its threads do; its sockets are
\* closed then, and not by the stop.
ServerEnds ==
  /\ Defined /\ stopped /\ ~ended
  /\ ended' = TRUE
  /\ NoCanalChange /\ UNCHANGED <<userVars, auth, apps, toServer, toClient, stopped>>

InitServer ==
  /\ Init
  /\ session = [u \in User |-> "free"]
  /\ removing = None
  /\ heirs = {}
  /\ auth = {}
  /\ apps = Plugins
  /\ toServer = [u \in User |-> <<>>]
  /\ toClient = [u \in User |-> <<>>]
  /\ stopped = FALSE
  /\ ended = FALSE

\* Manager::Start: the configured canals, then the server.
StartServer ==
  /\ StartServing \/ \E name \in CanalName : Configure(name, Empty, -1)
  /\ UNCHANGED serverVars
=============================================================================
