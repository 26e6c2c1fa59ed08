---------------------------- MODULE NecterePrompt ----------------------------
(***************************************************************************)
(* The command line client: src/NectereClient/NecterePrompt.cpp, on top of *)
(* the server of Commands.                                                 *)
(*                                                                         *)
(* A client is one thread.  A line typed runs a handler, which sends its   *)
(* request and blocks in Receive until the next event comes, whatever that *)
(* event is: nothing ties an answer to its request.  A handler is two or   *)
(* more steps here, one up to each Receive.  Receive throws when the       *)
(* socket is closed or its peer gone; only HandleConnect and HandleEvent   *)
(* catch.                                                                  *)
(***************************************************************************)
EXTENDS Commands

CONSTANTS Client,      \* the clients
          Events,      \* lines "event": records [app, code, data]
          Queries,     \* names asked for by "query"
          Keys,        \* keys given to "auth", the empty one included
          Pings,       \* texts given to "ping"
          Addresses,   \* client -> whom it may connect to: "server",
                       \* "dropped" for one that does not talk to it, "nobody"
          Lines        \* bound: client -> the commands its user may type as
                       \* the first line, the second one, ...

ASSUME PromptAssumption ==
  /\ {"closed", "broken", "backlog"} \cap User = {}
  /\ \A ev \in Events : ev.code = "create" => ev.data \in CanalName

VARIABLES
  prompt,   \* client -> its fields, and the Receive it blocks in
  socket,   \* client -> the session its socket belongs to, "closed", "broken":
            \* open, but the other end is gone, or "backlog": nobody accepts it
  strayed,  \* history: the clients that on this connection joined a canal or sent
            \* it a message, or tried to, or are heirs of one that may be in canals
  typed     \* client -> how many lines its user has typed

clientVars == <<prompt, socket, strayed, typed>>
allVars == <<canalVars, serverVars, clientVars>>

NoCanals == [n \in {} |-> 0]
Nothing == [code |-> "none", name |-> Empty]

\* handler: what is done with the next event; asked: what it is taken to
\* answer; then: what follows UpdateCanalList.
NewPrompt == [running |-> TRUE, connected |-> FALSE, id |-> None, canals |-> NoCanals,
              handler |-> "none", asked |-> "none", then |-> Nothing]

InitPrompt ==
  /\ InitServer
  /\ prompt = [c \in Client |-> NewPrompt]
  /\ socket = [c \in Client |-> "closed"]
  /\ strayed = {}
  /\ typed = [c \in Client |-> 0]

\* The client waits for a line, and this is the one.
Ready(c, line) ==
  /\ Defined
  /\ prompt[c].running /\ prompt[c].handler = "none"
  /\ typed[c] < Len(Lines[c]) /\ line \in Lines[c][typed[c] + 1]
  /\ typed' = [typed EXCEPT ![c] = @ + 1]

Becomes(c, p) == prompt' = [prompt EXCEPT ![c] = p]
WithSocket(c, s) == socket' = [socket EXCEPT ![c] = s]

Idle(p) == [p EXCEPT !.handler = "none", !.asked = "none", !.then = Nothing]
Waits(p, handler, asked) == [p EXCEPT !.handler = handler, !.asked = asked]

\* An exception that nobody catches.
Ended(p) == [Idle(p) EXCEPT !.running = FALSE, !.connected = FALSE]
Ends(c) == Becomes(c, Ended(prompt[c])) /\ WithSocket(c, "closed")

NoServerChange == NoCanalChange /\ UNCHANGED serverVars
NoServerChangeBut == NoCanalChange /\ UNCHANGED <<userVars, auth, apps, stopped, ended>>

Linked(c) == socket[c] \in User
\* Stopping closes no connection: deleting an AUser does not destroy the socket.
PeerGone(c) ==
  \/ socket[c] = "broken"
  \/ ended /\ (Linked(c) \/ socket[c] = "backlog")
\* The other end does not read.
Unread(c) == socket[c] \in {"broken", "backlog"} \/ (Linked(c) /\ stopped)

\* OnStop.
OnStop(c, p) == Becomes(c, [p EXCEPT !.connected = FALSE]) /\ WithSocket(c, "closed")

Request(c, app, code, canal, data) ==
  [app |-> app, code |-> code, canal |-> canal, data |-> data, user |-> prompt[c].id]

\* Send succeeds: nothing at all without m_Connected, lost if nobody reads.
Sent(c, q) ==
  \/ /\ prompt[c].connected /\ Linked(c) /\ ~stopped
     /\ toServer' = [toServer EXCEPT ![socket[c]] = Append(@, q)]
     /\ UNCHANGED toClient
  \/ /\ ~prompt[c].connected \/ Unread(c)
     /\ UNCHANGED <<toServer, toClient>>

\* Send throws.
SendFails(c) == prompt[c].connected /\ (PeerGone(c) \/ socket[c] = "closed")

\* A handler up to its first Receive.
Ask(c, q, handler) ==
  /\ \/ Sent(c, q) /\ Becomes(c, Waits(prompt[c], handler, q.code)) /\ UNCHANGED socket
     \/ SendFails(c) /\ Ends(c) /\ UNCHANGED <<toServer, toClient>>
  /\ NoServerChangeBut /\ UNCHANGED strayed
-----------------------------------------------------------------------------
(* The lines. *)

\* Faulty variant: a client that was connected keeps its id.
ConnectedKeepsId(p, e) ==
  [Idle(p) EXCEPT !.connected = TRUE, !.id = IF p.connected THEN p.id ELSE e.data[2]]

\* HandleConnect once the first event is there.
Connected(p, e) == [Idle(p) EXCEPT !.connected = TRUE, !.id = e.data[2]]

\* HandleConnect.  boost::asio::connect closes the socket first.  m_Connected,
\* m_ID and m_Canals stay as they were until the first event.
HandleConnect(c, address) ==
  /\ Ready(c, "connect")
  /\ \/ /\ address = "nobody" \/ (address = "server" /\ stopped)
        /\ WithSocket(c, "closed") /\ NoServerChange /\ UNCHANGED <<prompt, strayed>>
     \/ /\ \/ address = "dropped" /\ WithSocket(c, "broken")
           \/ address = "server" /\ stopped /\ ~ended /\ WithSocket(c, "backlog")
        /\ NoServerChange
        /\ Becomes(c, Waits(prompt[c], "connect", "connected")) /\ UNCHANGED strayed
     \/ \E u \in User :
          /\ address = "server"
          /\ AcceptSession(u)
          /\ WithSocket(c, u)
          /\ Becomes(c, Waits(prompt[c], "connect", "connected"))
          /\ strayed' = IF u \in heirs' THEN strayed \cup {c} ELSE strayed \ {c}

\* HandleStop: the socket is closed without waiting for the answer.
HandleStop(c) ==
  /\ Ready(c, "stop")
  /\ \/ Sent(c, Request(c, Base, "stop", 0, Empty)) /\ OnStop(c, prompt[c])
     \/ SendFails(c) /\ Ends(c) /\ UNCHANGED <<toServer, toClient>>
  /\ NoServerChangeBut /\ UNCHANGED strayed

HandleDisconnect(c) ==
  /\ Ready(c, "disconnect") /\ OnStop(c, prompt[c])
  /\ NoServerChange /\ UNCHANGED strayed

\* Prompt::Stop, behind "quit" and "exit".
Quit(c) ==
  /\ Ready(c, "quit") /\ OnStop(c, [prompt[c] EXCEPT !.running = FALSE])
  /\ NoServerChange /\ UNCHANGED strayed

HandleList(c) == Ready(c, "list") /\ Ask(c, Request(c, Base, "apps", 0, Empty), "json")
HandleQuery(c, app) == Ready(c, "query") /\ Ask(c, Request(c, Base, "commands", 0, app), "json")
HandleAuth(c, key) == Ready(c, "auth") /\ Ask(c, Request(c, Base, "auth", 0, key), "print")
HandlePing(c, text) == Ready(c, "ping") /\ Ask(c, Request(c, Base, "ping", 0, text), "print")

\* HandleEvent: any code to any application; an exception is caught.
HandleEvent(c, ev) ==
  /\ Ready(c, "event")
  /\ \/ /\ Sent(c, Request(c, ev.app, ev.code, 0, ev.data))
        /\ Becomes(c, Waits(prompt[c], "event", ev.code))
        /\ strayed' = IF ev.code \in {"message", "join"} THEN strayed \cup {c} ELSE strayed
     \/ SendFails(c) /\ UNCHANGED <<toServer, toClient, prompt, strayed>>
  /\ NoServerChangeBut /\ UNCHANGED socket

\* HandleAwait: reads without having asked.
HandleAwait(c) ==
  /\ Ready(c, "await") /\ Becomes(c, Waits(prompt[c], "print", "none"))
  /\ NoServerChange /\ UNCHANGED <<socket, strayed>>

\* UpdateCanalList up to its Receive, and what its caller does afterwards.
UpdateCanalList(c, p, then) ==
  /\ \/ /\ Sent(c, Request(c, Base, "list", 0, Empty))
        /\ Becomes(c, [Waits(p, "canals", "list") EXCEPT !.then = then])
        /\ UNCHANGED socket
     \/ SendFails(c) /\ Ends(c) /\ UNCHANGED <<toServer, toClient>>
  /\ NoServerChangeBut

\* HandleCanalMsg, Join, Leave and Delete all start with the list.
HandleCanal(c, code, name) ==
  /\ Ready(c, code)
  /\ UpdateCanalList(c, prompt[c], [code |-> code, name |-> name])
  /\ strayed' = IF code \in {"message", "join"} THEN strayed \cup {c} ELSE strayed

HandleCanalCreate(c, name) ==
  Ready(c, "create") /\ Ask(c, Request(c, Base, "create", 0, name), "created")
-----------------------------------------------------------------------------
(* Receive returns the next event ... *)

\* read_json and get_child: what the list handlers find in an answer.
Readable(e, asked) == e.data[1] = IF asked = "apps" THEN "applications" ELSE asked

\* The event is taken; the handler goes on to p after sending the requests.
\* They are lost if nobody reads them, and sending throws without a peer.
Take(c, p, requests) ==
  /\ toClient' = [toClient EXCEPT ![socket[c]] = Tail(@)]
  /\ \/ /\ ~stopped \/ requests = <<>>
        /\ toServer' = [toServer EXCEPT ![socket[c]] = @ \o requests]
        /\ Becomes(c, p) /\ UNCHANGED socket
     \/ /\ stopped /\ requests # <<>>
        /\ UNCHANGED toServer
        /\ \/ Becomes(c, p) /\ UNCHANGED socket
           \/ ended /\ Ends(c)

TakeAndEnd(c) ==
  /\ toClient' = [toClient EXCEPT ![socket[c]] = Tail(@)]
  /\ Ends(c) /\ UNCHANGED toServer

\* Faulty variants: a handler forgets the answer; it receives for an unknown
\* canal as well, as HandleCanalJoin does.
AfterListNoReceive(c, p) ==
  \/ p.then.code = "none" /\ Take(c, Idle(p), <<>>)
  \/ /\ p.then.code # "none" /\ p.then.name \in DOMAIN p.canals
     /\ Take(c, Idle(p), <<Request(c, Base, p.then.code, p.canals[p.then.name], Empty)>>)
  \/ p.then.code # "none" /\ p.then.name \notin DOMAIN p.canals /\ Take(c, Idle(p), <<>>)
AfterListReceives(c, p) ==
  LET known == p.then.name \in DOMAIN p.canals IN
  \/ p.then.code = "none" /\ Take(c, Idle(p), <<>>)
  \/ /\ p.then.code # "none" /\ known
     /\ Take(c, Waits(Idle(p), "print", p.then.code),
             <<Request(c, Base, p.then.code, p.canals[p.then.name], Empty)>>)
  \/ p.then.code # "none" /\ ~known /\ Take(c, Waits(Idle(p), "print", p.then.code), <<>>)

\* What follows UpdateCanalList in the handler that called it, with the list
\* known by now.  HandleCanalJoin receives even when it has sent nothing.
AfterList(c, p) ==
  LET known == p.then.name \in DOMAIN p.canals
      request == Request(c, Base, p.then.code, p.canals[p.then.name], Empty)
  IN \/ p.then.code = "none" /\ Take(c, Idle(p), <<>>)
     \/ p.then.code = "message" /\ known /\ Take(c, Idle(p), <<request>>)
     \/ /\ p.then.code \in {"join", "leave", "delete"} /\ known
        /\ Take(c, Waits(Idle(p), "print", p.then.code), <<request>>)
     \/ p.then.code = "join" /\ ~known /\ Take(c, Waits(Idle(p), "print", "none"), <<>>)
     \/ p.then.code \in {"message", "leave", "delete"} /\ ~known /\ Take(c, Idle(p), <<>>)

\* The handler that waits, given the event.
Handle(c, e, p) ==
  \/ p.handler = "connect" /\ Take(c, Connected(p, e), <<>>)
  \/ p.handler \in {"print", "event"} /\ Take(c, Idle(p), <<>>)
  \/ p.handler = "json" /\ (e.error \/ Readable(e, p.asked)) /\ Take(c, Idle(p), <<>>)
  \/ p.handler = "json" /\ ~(e.error \/ Readable(e, p.asked)) /\ TakeAndEnd(c)
  \/ /\ p.handler = "created"
     /\ Take(c, Waits(p, "canals", "list"), <<Request(c, Base, "list", 0, Empty)>>)
  \/ p.handler = "canals" /\ e.error /\ AfterList(c, p)
  \/ /\ p.handler = "canals" /\ ~e.error /\ Readable(e, "canals")
     /\ AfterList(c, [p EXCEPT !.canals = e.data[2]])
  \/ p.handler = "canals" /\ ~e.error /\ ~Readable(e, "canals") /\ TakeAndEnd(c)

ReceiveEvent(c) ==
  /\ Defined /\ prompt[c].handler # "none"
  /\ Linked(c) /\ toClient[socket[c]] # <<>>
  /\ Handle(c, Head(toClient[socket[c]]), prompt[c])
  /\ NoServerChangeBut /\ UNCHANGED <<strayed, typed>>

\* ... or throws.
ReceiveThrows(c) ==
  /\ Defined /\ prompt[c].handler # "none"
  /\ socket[c] = "closed" \/ PeerGone(c)
  /\ \/ prompt[c].handler \in {"connect", "event"} /\ Becomes(c, Idle(prompt[c])) /\ UNCHANGED socket
     \/ prompt[c].handler \notin {"connect", "event"} /\ Ends(c)
  /\ NoServerChange /\ UNCHANGED <<strayed, typed>>
-----------------------------------------------------------------------------
Type(c) ==
  \/ \E address \in Addresses[c] : HandleConnect(c, address)
  \/ HandleStop(c) \/ HandleDisconnect(c) \/ Quit(c)
  \/ HandleList(c) \/ HandleAwait(c)
  \/ \E app \in Queries : HandleQuery(c, app)
  \/ \E key \in Keys : HandleAuth(c, key)
  \/ \E text \in Pings : HandlePing(c, text)
  \/ \E ev \in Events : HandleEvent(c, ev)
  \/ \E name \in CanalName :
       \/ HandleCanalCreate(c, name)
       \/ \E code \in {"message", "join", "leave", "delete"} : HandleCanal(c, code, name)

ServerStep ==
  /\ \/ StartServer
     \/ \E u \in User :
          \/ Receive(u)
          \/ (\A c \in Client : socket[c] # u) /\ OnClose(u)
          \/ RemoveUser(u)
     \/ FreeUserID
     \/ LeaveCanals
     \/ SendMessage
     \/ ServerEnds
  /\ UNCHANGED clientVars

NextPrompt ==
  \/ ServerStep
  \/ \E c \in Client : Type(c) \/ ReceiveEvent(c) \/ ReceiveThrows(c)

\* A client reads what has come, the network thread treats what each session
\* has sent and finishes what it began, the update thread leaves the canals it
\* has begun to leave; nobody has to type, to close a session, or to end.
SpecPrompt ==
  /\ InitPrompt /\ [][NextPrompt]_allVars
  /\ \A c \in Client : WF_allVars(ReceiveEvent(c) \/ ReceiveThrows(c))
  /\ \A u \in User : WF_allVars(Receive(u) /\ UNCHANGED clientVars)
  /\ WF_allVars((SendMessage \/ LeaveCanals) /\ UNCHANGED clientVars)
-----------------------------------------------------------------------------
(* Properties. *)

\* The server takes the user of an event from the event itself, whatever the
\* session: an honest client's requests bear the id of the session they come
\* through, although m_ID is only set by the first event after a connection and
\* m_Connected survives a connection that failed.
RequestsCarryOwnId ==
  \A u \in User : \A i \in DOMAIN toServer[u] : toServer[u][i].user = u

\* What is on its way from and to a client.
Pending(c) == toServer[socket[c]] \o toClient[socket[c]]

\* A client that has neither joined a canal nor sent one a message is in step
\* with the server: the only event there can be is the one that answers what it
\* waits for, so each answer goes to the handler that asked.  Not so for the heir
\* of an id whose last owner had not left its canals: their events reach it.
InStep ==
  \A c \in Client :
    Up /\ Linked(c) /\ c \notin strayed =>
      /\ Len(Pending(c)) <= 1
      /\ \A i \in DOMAIN Pending(c) : Pending(c)[i].code = prompt[c].asked

\* Nobody waits for what nobody sends: while the server is up, a handler that
\* asked something has an event there to read, or the server has a request of its
\* session to treat that makes it send one.  Only a canal message is not answered.
AnswerComes ==
  \A c \in Client :
    Up /\ Linked(c) /\ prompt[c].asked \notin {"none", "message"} =>
      \/ toClient[socket[c]] # <<>>
      \/ \E i \in DOMAIN toServer[socket[c]] : toServer[socket[c]][i].code # "message"

\* A handler that has asked something ends, if only by an exception, unless the
\* server is stopped, which answers nothing and leaves the connections open.  Two
\* never do of themselves: HandleCanalJoin for a canal it does not know, which
\* asked nothing, and HandleEvent with a canal message, which nobody answers.
Answered ==
  \A c \in Client :
    prompt[c].asked \notin {"none", "message"} ~>
      prompt[c].asked \in {"none", "message"} \/ stopped \/ ~Defined
=============================================================================
