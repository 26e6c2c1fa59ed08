------------------------ MODULE NecterePromptProofs ------------------------
(***************************************************************************)
(* An honest client's requests bear its own id, and one that keeps out of  *)
(* the canals is in step with the server: for any clients, whatever their  *)
(* users type, and for as long as they like.  The canals' own invariants   *)
(* are proved of the server with its clients on the way: the requests that *)
(* reach CanalManager here are those it was proved for, and what it does   *)
(* about them is what it promises.  Who asks something has an answer       *)
(* coming, and only an heir can be told that a canal is gone.              *)
(***************************************************************************)
EXTENDS NecterePrompt, CanalStepProofs

\* What is on the wires.
App == {Base} \cup {ev.app : ev \in Events}
Code == Registered \cup {"connected", "deleted"} \cup {ev.code : ev \in Events}
Datum == Queries \cup Keys \cup Pings \cup CanalName \cup {Empty} \cup {ev.data : ev \in Events}
Dictionary == UNION {[D -> Id] : D \in SUBSET CanalName}
Content == {Text, <<"applications">>, <<"commands">>} \cup {Echo(d) : d \in Datum}
           \cup {<<"id", u>> : u \in User} \cup {<<"canals", d>> : d \in Dictionary}

ToServer ==
  {q \in [app : App, code : Code, canal : Id, data : Datum, user : User \cup {None}] :
     q.code = "create" => q.data \in CanalName}
ToClient == [code : Code, error : BOOLEAN, app : App, data : Content]

Prompt ==
  [running : BOOLEAN, connected : BOOLEAN, id : User \cup {None}, canals : Dictionary,
   handler : {"none", "connect", "print", "event", "json", "created", "canals"},
   asked : Code \cup {"none"},
   then : [code : {"none", "message", "join", "leave", "delete"}, name : CanalName \cup {Empty}]]

WireTypes ==
  /\ toServer \in [User -> Seq(ToServer)]
  /\ toClient \in [User -> Seq(ToClient)]
  /\ session \in [User -> {"free", "open", "closed", "erased"}]
  /\ removing \in User \cup {None}
  /\ socket \in [Client -> User \cup {"closed", "broken", "backlog"}]
  /\ prompt \in [Client -> Prompt]
  /\ stopped \in BOOLEAN /\ (ended => stopped)

\* A session has one client at most.  A user that is being removed may have given
\* its id to an heir before its canals are left; no other free id is in a canal.
Sessions ==
  /\ \A c \in Client : Linked(c) => session[socket[c]] = "open"
  /\ \A c, d \in Client : Linked(c) /\ Linked(d) /\ socket[c] = socket[d] => c = d
  /\ leaving # None => removing = leaving.user
  /\ removing # None /\ session[removing] = "erased" => leaving = None
  /\ \A u \in User : session[u] = "free" /\ removing # u => links[u] = {}
  /\ \A u \in User : session[u] = "open" /\ u \notin heirs => removing # u

Greeting(u) == OnWire("connected", FALSE, Base, <<"id", u>>)

\* The id a client believes to have is its session's once it has read the
\* greeting; until then that is what comes next.
KnowsId(c) ==
  Linked(c) =>
    /\ prompt[c].handler # "connect" /\ ~stopped => prompt[c].id = socket[c]
    /\ prompt[c].handler = "connect" =>
         toClient[socket[c]] # <<>> /\ Head(toClient[socket[c]]) = Greeting(socket[c])

Social == {"join", "message"}

\* A handler leaves nothing behind, and who asks a canal anything has strayed.
Minds(p, strays) ==
  /\ p.handler = "none" => p.asked = "none" /\ p.then = Nothing
  /\ p.asked \in Social \/ p.then.code \in Social => strays

\* A client that has not strayed is in no canal and asks nothing of one.
KeepsOut(c) ==
  /\ Minds(prompt[c], c \in strayed)
  /\ Linked(c) /\ c \notin strayed =>
       links[socket[c]] = {} /\ (peek # None => peek.user # socket[c])

\* Its request or its answer is under way, nothing else.
AtMostOne(c) ==
  LET s == toServer[socket[c]]
      t == toClient[socket[c]]
  IN /\ s = <<>> \/ (t = <<>> /\ Len(s) = 1 /\ Head(s).code = prompt[c].asked)
     /\ t = <<>> \/ (s = <<>> /\ Len(t) = 1 /\ Head(t).code = prompt[c].asked)
     /\ prompt[c].handler = "none" => s = <<>> /\ t = <<>>

Steady(c) ==
  /\ KnowsId(c) /\ KeepsOut(c)
  /\ Linked(c) /\ c \notin strayed /\ ~stopped => AtMostOne(c)

Good == Consistent /\ WireTypes /\ Sessions /\ \A c \in Client : Steady(c)

PInv == RequestsCarryOwnId /\ (Defined => Good)
-----------------------------------------------------------------------------
(* The canals. *)

LEMMA UserIsNoMark == \A u \in User : u # "closed" /\ u # "broken" /\ u # "backlog"
BY PromptAssumption

\* A step that leaves the canals alone.
LEMMA NoChangeKeeps ==
  ASSUME Consistent, Defined, NoCanalChange
  PROVE  Consistent' /\ Defined'
<1>1. out' \subseteq Event /\ serving' \in BOOLEAN /\ (serving => serving')
  BY Facts DEF NoCanalChange
<1>2. UNCHANGED <<canals, dictionary, links, gen, peek, leaving, status>>
  BY DEF NoCanalChange
<1>3. QED
  BY <1>1, <1>2, ReadOnly DEF Defined

LEMMA JoinKeeps ==
  ASSUME Consistent, Defined, NEW u \in User, NEW c \in Id, NEW password, JoinCanal(u, c, password)
  PROVE  Consistent'
<1>1. CASE password \in Password
  BY <1>1, JoinCanalConsistent
<1>2. CASE password \notin Password
  <2>1. ~CanJoin(c, password)
    BY <1>2, Facts DEF CanJoin, Canal
  <2>2. out' = {Error(u, 0, "join")} /\ UNCHANGED <<canals, dictionary, links, gen, serving, peek, leaving, status>>
    BY <2>1 DEF JoinCanal
  <2>3. out' \subseteq Event /\ serving' \in BOOLEAN
    BY <2>2, Facts, AnswersAreEvents
  <2>4. QED
    BY <2>2, <2>3, ReadOnly
<1>3. QED
  BY <1>1, <1>2

\* The commands that reach CanalManager.
LEMMA TreatConsistent ==
  ASSUME Consistent, Defined, NEW q \in ToServer, q.user \in User, Treat(q), Defined'
  PROVE  Consistent'
<1>1. q.canal \in Id /\ (q.code = "create" => q.data \in CanalName)
  BY DEF ToServer
<1>2. Empty \in Password /\ -1 \in Limit
  BY CanalAssumption
<1>3. CASE NoCanalChange
  BY <1>3, NoChangeKeeps
<1>4. CASE q.code = "create" /\ CreateCanalCommand(q)
  <2>1. NoCanalChange \/ CreateCanal(q.user, q.data, Empty, -1)
    BY <1>4 DEF CreateCanalCommand, Authenticated
  <2>2. QED
    BY <1>1, <1>2, <1>4, <2>1, NoChangeKeeps, CreateCanalConsistent
<1>5. CASE DeleteCanalCommand(q)
  <2>1. NoCanalChange \/ DeleteCanal(q.user, q.canal)
    BY <1>5 DEF DeleteCanalCommand, Authenticated
  <2>2. QED
    BY <1>1, <2>1, NoChangeKeeps, DeleteCanalConsistent
<1>6. CASE JoinCanalCommand(q)
  BY <1>1, <1>6, JoinKeeps DEF JoinCanalCommand, CanalCommand
<1>7. CASE LeaveCanalCommand(q)
  BY <1>1, <1>7, LeaveCanalConsistent DEF LeaveCanalCommand, CanalCommand
<1>8. CASE ListCanalCommand(q)
  <2>1. ListCanal(q.user)
    BY <1>8 DEF ListCanalCommand, CanalCommand
  <2>2. out' \subseteq Event /\ serving' \in BOOLEAN
    BY <2>1, Facts, AnswersAreEvents DEF ListCanal
  <2>3. QED
    BY <2>1, <2>2, ReadOnly DEF ListCanal
<1>9. CASE MessageCanalCommand(q)
  BY <1>1, <1>9, MessageConsistent DEF MessageCanalCommand, CanalCommand
<1>10. QED
  BY <1>3, <1>4, <1>5, <1>6, <1>7, <1>8, <1>9
     DEF Treat, AuthCommand, ApplicationListCommand, CommandListCommand, PingCommand,
         ReloadAppCommand, UnloadAppCommand, StopCommand
-----------------------------------------------------------------------------
(* Sending events. *)

GetsEvent(u, e) == toClient'[u] = Append(toClient[u], e)

LEMMA OnWires ==
  ASSUME NEW code \in Code, NEW error \in BOOLEAN, NEW app \in App, NEW data \in Content
  PROVE  OnWire(code, error, app, data) \in ToClient /\ OnWire(code, error, app, data).code = code
BY DEF OnWire, ToClient

LEMMA Contents ==
  /\ Text \in Content /\ <<"applications">> \in Content /\ <<"commands">> \in Content
  /\ \A d \in Datum : Echo(d) \in Content
  /\ \A u \in User : <<"id", u>> \in Content
  /\ \A d \in Dictionary : <<"canals", d>> \in Content
BY DEF Content

LEMMA Codes == Registered \subseteq Code /\ "connected" \in Code /\ "deleted" \in Code /\ Base \in App
BY DEF Code, App

LEMMA SendEventGives ==
  ASSUME toClient \in [User -> Seq(ToClient)], NEW ids, NEW e \in ToClient, SendEvent(ids, e)
  PROVE  /\ toClient' \in [User -> Seq(ToClient)]
         /\ \A v \in User : toClient'[v] = toClient[v] \/ (v \in ids /\ GetsEvent(v, e))
BY DEF SendEvent, GetsEvent

LEMMA SendCanalEventsGives ==
  ASSUME toClient \in [User -> Seq(ToClient)], TypeOK, out' \subseteq Event, SendCanalEvents
  PROVE  /\ toClient' \in [User -> Seq(ToClient)]
         /\ \A v \in User : toClient'[v] = toClient[v]
              \/ \E e \in out' : e.to = v /\ session[v] = "open" /\ CanalEvent(e) \in ToClient
                                 /\ CanalEvent(e).code = e.code /\ GetsEvent(v, CanalEvent(e))
<1>1. dictionary \in Dictionary
  BY DEF TypeOK, Dictionary
<1>2. ASSUME NEW e \in Event PROVE CanalEvent(e) \in ToClient /\ CanalEvent(e).code = e.code
  <2>1. e.code \in Code /\ e.error \in BOOLEAN
    BY Codes DEF Event, Registered
  <2>2. (IF e.code = "list" THEN <<"canals", dictionary>> ELSE Text) \in Content
    BY <1>1, Contents
  <2>3. QED
    BY <2>1, <2>2, OnWires, Codes DEF CanalEvent
<1>3. ASSUME NEW v \in User
      PROVE  toClient'[v] = toClient[v]
              \/ \E e \in out' : e.to = v /\ session[v] = "open" /\ CanalEvent(e) \in ToClient
                                 /\ CanalEvent(e).code = e.code /\ GetsEvent(v, CanalEvent(e))
  <2>1. CASE session[v] = "open" /\ \E e \in out' : e.to = v
    <3> DEFINE e == CHOOSE x \in out' : x.to = v
    <3>1. e \in out' /\ e.to = v
      BY <2>1
    <3>2. toClient'[v] = Append(toClient[v], CanalEvent(e))
      BY <2>1 DEF SendCanalEvents
    <3> HIDE DEF e
    <3>3. QED
      BY <1>2, <2>1, <3>1, <3>2 DEF GetsEvent
  <2>2. CASE ~(session[v] = "open" /\ \E e \in out' : e.to = v)
    BY <2>2 DEF SendCanalEvents
  <2>3. QED
    BY <2>1, <2>2
<1>4. toClient' \in [User -> Seq(ToClient)]
  <2>1. \A v \in User : toClient'[v] \in Seq(ToClient)
    <3> SUFFICES ASSUME NEW v \in User PROVE toClient'[v] \in Seq(ToClient)
      OBVIOUS
    <3>1. toClient[v] \in Seq(ToClient)
      OBVIOUS
    <3>2. ASSUME NEW e \in ToClient, GetsEvent(v, e) PROVE toClient'[v] \in Seq(ToClient)
      BY <3>1, <3>2 DEF GetsEvent
    <3>3. QED
      BY <1>3, <3>1, <3>2
  <2>2. toClient' = [v \in User |-> toClient'[v]]
    BY DEF SendCanalEvents
  <2>3. QED
    BY <2>1, <2>2
<1>5. QED
  BY <1>3, <1>4

\* An event goes to the user that asked, or to one that is in a canal.
Meant(u, code) == \A e \in out' : (e.to = u /\ e.code = code) \/ links[e.to] # {}

LEMMA NoticesAreMeant ==
  ASSUME NEW c, NEW e \in Notices(c) PROVE links[e.to] # {}
BY DEF Notices, Answer

LEMMA AnswerIs ==
  ASSUME NEW u, NEW c, NEW code
  PROVE  /\ Answer(u, c, code).to = u /\ Answer(u, c, code).code = code
         /\ Error(u, c, code).to = u /\ Error(u, c, code).code = code
BY DEF Answer, Error

LEMMA CanalsMean ==
  ASSUME NEW u \in User
  PROVE  /\ \A name : CreateCanal(u, name, Empty, -1) => Meant(u, "create")
         /\ \A c : DeleteCanal(u, c) => Meant(u, "delete")
         /\ \A c, password : JoinCanal(u, c, password) => Meant(u, "join")
         /\ \A c : LeaveCanal(u, c) => Meant(u, "leave")
         /\ \A c : MessageCanal(u, c) => Meant(u, "message")
         /\ ListCanal(u) => Meant(u, "list")
<1>1. ASSUME NEW name, CreateCanal(u, name, Empty, -1) PROVE Meant(u, "create")
  BY <1>1, AnswerIs DEF CreateCanal, Meant
<1>2. ASSUME NEW c, DeleteCanal(u, c) PROVE Meant(u, "delete")
  <2>1. \A e \in out' : e \in Notices(c) \/ e = Answer(u, c, "delete") \/ e = Error(u, c, "delete")
    BY <1>2 DEF DeleteCanal
  <2>2. QED
    BY <2>1, NoticesAreMeant, AnswerIs DEF Meant
<1>3. ASSUME NEW c, NEW password, JoinCanal(u, c, password) PROVE Meant(u, "join")
  BY <1>3, AnswerIs DEF JoinCanal, Meant
<1>4. ASSUME NEW c, LeaveCanal(u, c) PROVE Meant(u, "leave")
  <2>1. \A e \in out' : e \in Notices(c) \/ e = Answer(u, c, "leave") \/ e = Error(u, c, "leave")
    BY <1>4 DEF LeaveCanal
  <2>2. QED
    BY <2>1, NoticesAreMeant, AnswerIs DEF Meant
<1>5. ASSUME NEW c, MessageCanal(u, c) PROVE Meant(u, "message")
  BY <1>5 DEF MessageCanal, Meant
<1>6. ListCanal(u) => Meant(u, "list")
  BY AnswerIs DEF ListCanal, Meant
<1>7. QED
  BY <1>1, <1>2, <1>3, <1>4, <1>5, <1>6

Answers(q) ==
  /\ toClient' \in [User -> Seq(ToClient)]
  /\ \A v \in User : toClient'[v] = toClient[v]
       \/ \E e \in ToClient : GetsEvent(v, e) /\ ((v = q.user /\ e.code = q.code) \/ links[v] # {})

LEMMA CanalAnswers ==
  ASSUME Consistent, out' \subseteq Event, toClient \in [User -> Seq(ToClient)],
         NEW q \in ToServer, SendCanalEvents, Meant(q.user, q.code)
  PROVE  Answers(q)
<1>1. TypeOK
  BY DEF Consistent
<1>2. QED
  BY <1>1, SendCanalEventsGives DEF Answers, Meant

LEMMA ReplyAnswers ==
  ASSUME toClient \in [User -> Seq(ToClient)], NEW q \in ToServer, NEW error \in BOOLEAN,
         NEW app \in App, NEW data \in Content,
         SendEvent({q.user}, OnWire(q.code, error, app, data))
  PROVE  Answers(q)
<1> DEFINE e == OnWire(q.code, error, app, data)
<1>1. q.code \in Code
  BY DEF ToServer
<1>2. e \in ToClient /\ e.code = q.code
  BY <1>1, OnWires
<1> HIDE DEF e
<1>3. /\ toClient' \in [User -> Seq(ToClient)]
      /\ \A v \in User : toClient'[v] = toClient[v] \/ (v \in {q.user} /\ GetsEvent(v, e))
  BY <1>2, SendEventGives DEF e
<1>4. QED
  BY <1>2, <1>3 DEF Answers

LEMMA RefuseAnswers ==
  ASSUME toClient \in [User -> Seq(ToClient)], NEW q \in ToServer, Refuse(q)
  PROVE  Answers(q)
<1>1. q.app \in App
  BY DEF ToServer
<1>2. QED
  BY <1>1, ReplyAnswers, Contents DEF Refuse

LEMMA TreatAnswers ==
  ASSUME Consistent, out' \subseteq Event, toClient \in [User -> Seq(ToClient)],
         NEW q \in ToServer, q.user \in User, Treat(q)
  PROVE  Answers(q)
<1>1. q.data \in Datum /\ Base \in App
  BY Codes DEF ToServer
<1>2. ASSUME NEW error \in BOOLEAN, NEW data \in Content, Reply(q.user, q.code, error, data)
      PROVE  Answers(q)
  BY <1>1, <1>2, ReplyAnswers DEF Reply
<1>3. (q.data # AuthKey) \in BOOLEAN /\ (q.data \notin Names) \in BOOLEAN
  OBVIOUS
<1>4. CASE q.code = "auth" /\ AuthCommand(q)
  BY <1>2, <1>3, <1>4, Contents DEF AuthCommand
<1>5. CASE q.code = "apps" /\ ApplicationListCommand(q)
  BY <1>2, <1>5, Contents DEF ApplicationListCommand
<1>6. CASE q.code = "commands" /\ CommandListCommand(q)
  <2>1. (IF q.data \in Names \cup {"Nectere"} THEN <<"commands">> ELSE Text) \in Content
    BY Contents
  <2>2. QED
    BY <1>2, <1>6, <2>1 DEF CommandListCommand
<1>7. CASE q.code = "ping" /\ PingCommand(q)
  BY <1>1, <1>2, <1>7, Contents DEF PingCommand
<1>8. CASE q.code = "reload" /\ ReloadAppCommand(q)
  BY <1>2, <1>8, Contents DEF ReloadAppCommand
<1>9. CASE q.code = "unload" /\ UnloadAppCommand(q)
  BY <1>2, <1>3, <1>9, Contents DEF UnloadAppCommand
<1>10. CASE q.code = "stop" /\ StopCommand(q)
  <2>1. CASE UNCHANGED toClient
    BY <2>1 DEF Answers
  <2>2. QED
    BY <1>2, <1>10, <2>1, Contents DEF StopCommand
<1>11. CASE q.code = "create" /\ CreateCanalCommand(q)
  <2>1. \/ CreateCanal(q.user, q.data, Empty, -1) /\ SendCanalEvents
        \/ Reply(q.user, q.code, TRUE, Text)
    BY <1>11 DEF CreateCanalCommand, Authenticated
  <2>2. QED
    BY <1>2, <1>11, <2>1, CanalsMean, CanalAnswers, Contents
<1>12. CASE q.code = "delete" /\ DeleteCanalCommand(q)
  <2>1. \/ DeleteCanal(q.user, q.canal) /\ SendCanalEvents
        \/ Reply(q.user, q.code, TRUE, Text)
    BY <1>12 DEF DeleteCanalCommand, Authenticated
  <2>2. QED
    BY <1>2, <1>12, <2>1, CanalsMean, CanalAnswers, Contents
<1>13. CASE q.code = "join" /\ JoinCanalCommand(q)
  BY <1>13, CanalsMean, CanalAnswers DEF JoinCanalCommand, CanalCommand
<1>14. CASE q.code = "leave" /\ LeaveCanalCommand(q)
  BY <1>14, CanalsMean, CanalAnswers DEF LeaveCanalCommand, CanalCommand
<1>15. CASE q.code = "list" /\ ListCanalCommand(q)
  BY <1>15, CanalsMean, CanalAnswers DEF ListCanalCommand, CanalCommand
<1>16. CASE q.code = "message" /\ MessageCanalCommand(q)
  BY <1>16, CanalsMean, CanalAnswers DEF MessageCanalCommand, CanalCommand
<1>17. QED
  BY <1>4, <1>5, <1>6, <1>7, <1>8, <1>9, <1>10, <1>11, <1>12, <1>13, <1>14, <1>15, <1>16
     DEF Treat

\* Who is in a canal, and whose message is half sent, once q has been treated.
LEMMA TreatLinks ==
  ASSUME Consistent, Defined, NEW q, q.user \in User, Treat(q) \/ Refuse(q)
  PROVE  /\ \A v \in User : links[v] = {} /\ (v # q.user \/ q.code # "join") => links'[v] = {}
         /\ UNCHANGED leaving
         /\ \/ UNCHANGED peek
            \/ q.code = "message" /\ (peek' = None \/ peek'.user = q.user)
<1>1. links \in [User -> SUBSET Id]
  BY Facts
<1>2. CASE UNCHANGED <<links, leaving, peek>>
  BY <1>2
<1>3. ASSUME NEW c, DeleteCanal(q.user, c) \/ LeaveCanal(q.user, c)
      PROVE  UNCHANGED <<leaving, peek>> /\ \A v \in User : links'[v] \subseteq links[v]
  <2>1. CASE DeleteCanal(q.user, c)
    BY <1>1, <2>1 DEF DeleteCanal, RemoveCanal
  <2>2. CASE LeaveCanal(q.user, c)
    BY <1>1, <2>2 DEF LeaveCanal, RemoveCanal
  <2>3. QED
    BY <1>3, <2>1, <2>2
<1>4. CASE q.code = "join" /\ JoinCanalCommand(q)
  <2>1. JoinCanal(q.user, q.canal, q.data)
    BY <1>4 DEF JoinCanalCommand, CanalCommand
  <2>2. UNCHANGED <<leaving, peek>> /\ \A v \in User : v # q.user => links'[v] = links[v]
    BY <1>1, <2>1 DEF JoinCanal
  <2>3. QED
    BY <1>4, <2>2
<1>5. CASE q.code = "message" /\ MessageCanalCommand(q)
  <2>1. MessageCanal(q.user, q.canal)
    BY <1>5 DEF MessageCanalCommand, CanalCommand
  <2>2. UNCHANGED <<links, leaving>> /\ (peek' = None \/ peek' = [user |-> q.user, canal |-> q.canal])
    BY <2>1 DEF MessageCanal
  <2>3. QED
    BY <1>5, <2>2
<1>6. CASE CreateCanalCommand(q)
  BY <1>2, <1>6 DEF CreateCanalCommand, Authenticated, CreateCanal, NoCanalChange
<1>7. CASE ListCanalCommand(q)
  BY <1>2, <1>7 DEF ListCanalCommand, CanalCommand, ListCanal
<1>8. CASE DeleteCanalCommand(q)
  BY <1>2, <1>3, <1>8 DEF DeleteCanalCommand, Authenticated, NoCanalChange
<1>9. CASE LeaveCanalCommand(q)
  BY <1>3, <1>9 DEF LeaveCanalCommand, CanalCommand
<1>10. QED
  BY <1>2, <1>4, <1>5, <1>6, <1>7, <1>8, <1>9
     DEF Treat, Refuse, NoCanalChange, AuthCommand, ApplicationListCommand, CommandListCommand,
         PingCommand, ReloadAppCommand, UnloadAppCommand, StopCommand
-----------------------------------------------------------------------------
(* What others do to a client. *)

\* What has come or gone on the wires of session u, c being its client.
Moves(c, u) ==
  \/ toServer'[u] = toServer[u] /\ toClient'[u] = toClient[u]
  \/ toServer'[u] = toServer[u] /\ c \in strayed /\ \E e \in ToClient : GetsEvent(u, e)
  \/ /\ toServer[u] # <<>> /\ toServer'[u] = Tail(toServer[u])
     /\ \/ toClient'[u] = toClient[u]
        \/ \E e \in ToClient : GetsEvent(u, e) /\ (c \in strayed \/ e.code = Head(toServer[u]).code)

LEMMA QueueFacts ==
  ASSUME NEW S, NEW s \in Seq(S)
  PROVE  /\ Len(s) \in Nat /\ (s = <<>> <=> Len(s) = 0)
         /\ s # <<>> => Head(s) \in S /\ Tail(s) \in Seq(S) /\ Len(Tail(s)) = Len(s) - 1
         /\ \A e \in S : /\ Append(s, e) \in Seq(S) /\ Append(s, e) # <<>>
                         /\ Len(Append(s, e)) = Len(s) + 1
                         /\ s # <<>> => Head(Append(s, e)) = Head(s)
                         /\ s = <<>> => Head(Append(s, e)) = e
<1>1. Len(s) \in Nat /\ (s = <<>> <=> Len(s) = 0)
  OBVIOUS
<1>2. ASSUME s # <<>> PROVE Head(s) \in S /\ Tail(s) \in Seq(S) /\ Len(Tail(s)) = Len(s) - 1
  <2>1. Len(s) >= 1
    BY <1>1, <1>2
  <2>2. QED
    BY <1>2, <2>1
<1>3. ASSUME NEW e \in S
      PROVE  /\ Append(s, e) \in Seq(S) /\ Append(s, e) # <<>>
             /\ Len(Append(s, e)) = Len(s) + 1
             /\ s # <<>> => Head(Append(s, e)) = Head(s)
             /\ s = <<>> => Head(Append(s, e)) = e
  <2>1. Append(s, e) \in Seq(S) /\ Len(Append(s, e)) = Len(s) + 1
    OBVIOUS
  <2>2. Append(s, e) # <<>>
    BY <1>1, <2>1
  <2>3. Head(Append(s, e)) = Append(s, e)[1]
    BY <2>1, <2>2
  <2>4. s # <<>> => Head(s) = s[1] /\ 1 \in 1 .. Len(s)
    BY <1>1
  <2>5. \A i \in 1 .. Len(s) : Append(s, e)[i] = s[i]
    OBVIOUS
  <2>6. s = <<>> => Append(s, e)[1] = e
    OBVIOUS
  <2>7. QED
    BY <2>1, <2>2, <2>3, <2>4, <2>5, <2>6
<1>4. QED
  BY <1>1, <1>2, <1>3

LEMMA SteadyKept ==
  ASSUME WireTypes, WireTypes', NEW c \in Client, Steady(c),
         prompt'[c] = prompt[c], socket'[c] = socket[c], c \in strayed' <=> c \in strayed,
         stopped => stopped',
         Linked(c) => Moves(c, socket[c]),
         Linked(c) /\ c \notin strayed =>
           links'[socket[c]] = {} /\ (peek' # None => peek'.user # socket[c])
  PROVE  Steady(c)'
<1> DEFINE u == socket[c]
           s == toServer[u]
           t == toClient[u]
<1>1. Linked(c)' <=> Linked(c)
  BY DEF Linked
<1>2. KeepsOut(c)'
  BY <1>1 DEF KeepsOut, Steady, Minds, Linked
<1>3. CASE ~Linked(c)
  BY <1>1, <1>2, <1>3 DEF Steady, KnowsId
<1>4. CASE Linked(c)
  <2>1. s \in Seq(ToServer) /\ t \in Seq(ToClient) /\ toServer'[u] \in Seq(ToServer)
        /\ toClient'[u] \in Seq(ToClient)
    BY <1>4 DEF WireTypes, Linked
  <2>2. /\ t # <<>> => toClient'[u] # <<>> /\ Head(toClient'[u]) = Head(t)
    <3>1. toClient'[u] = t \/ \E e \in ToClient : toClient'[u] = Append(t, e)
      BY <1>4 DEF Moves, GetsEvent
    <3>2. \A e \in ToClient :
            Append(t, e) # <<>> /\ (t # <<>> => Head(Append(t, e)) = Head(t))
      <4> HIDE DEF t
      <4>1. t \in Seq(ToClient)
        BY <2>1
      <4>2. QED
        BY <4>1, QueueFacts
    <3>3. CASE toClient'[u] = t
      BY <3>3
    <3>4. CASE \E e \in ToClient : toClient'[u] = Append(t, e)
      <4> HIDE DEF t, u
      <4>1. PICK e \in ToClient : toClient'[u] = Append(t, e)
        BY <3>4
      <4>2. Append(t, e) # <<>> /\ (t # <<>> => Head(Append(t, e)) = Head(t))
        BY <3>2
      <4>3. QED
        BY <4>1, <4>2
    <3>5. QED
      BY <3>1, <3>3, <3>4
  <2>3. KnowsId(c)'
    BY <1>1, <1>4, <2>2 DEF KnowsId, Steady, Linked
  <2>4. ASSUME c \notin strayed, ~stopped' PROVE AtMostOne(c)'
    <3>1. ~stopped /\ AtMostOne(c)
      BY <1>4, <2>4 DEF Steady
    <3>2. CASE toServer'[u] = s /\ toClient'[u] = t
      BY <3>1, <3>2 DEF AtMostOne
    <3>3. CASE /\ s # <<>> /\ toServer'[u] = Tail(s)
               /\ \/ toClient'[u] = t
                  \/ \E e \in ToClient : GetsEvent(u, e) /\ e.code = Head(s).code
      <4>1. t = <<>> /\ Len(s) = 1 /\ Head(s).code = prompt[c].asked /\ prompt[c].handler # "none"
        BY <3>1, <3>3 DEF AtMostOne
      <4>2. toServer'[u] = <<>>
        <5>1. toServer'[u] \in Seq(ToServer) /\ Len(toServer'[u]) = 0
          BY <2>1, <3>3, <4>1
        <5>2. QED
          BY <5>1
      <4>3. toClient'[u] = <<>> \/ (Len(toClient'[u]) = 1 /\ Head(toClient'[u]).code = prompt[c].asked)
        <5>1. ASSUME NEW e \in ToClient, GetsEvent(u, e), e.code = Head(s).code
              PROVE  Len(toClient'[u]) = 1 /\ Head(toClient'[u]).code = prompt[c].asked
          <6>1. toClient'[u] = Append(t, e)
            BY <5>1 DEF GetsEvent
          <6>2. Len(Append(t, e)) = 1 /\ Head(Append(t, e)) = e
            BY <2>1, <4>1
          <6>3. QED
            BY <4>1, <5>1, <6>1, <6>2
        <5>2. QED
          BY <3>3, <4>1, <5>1
      <4>4. QED
        BY <4>1, <4>2, <4>3 DEF AtMostOne
    <3>4. QED
      BY <1>4, <2>4, <3>2, <3>3 DEF Moves
  <2>5. QED
    BY <1>2, <2>3, <2>4 DEF Steady
<1>5. QED
  BY <1>3, <1>4
-----------------------------------------------------------------------------
(* The server's steps. *)

\* Nobody who keeps out of the canals is in the way of a step of the server.
LEMMA ServerKeeps ==
  ASSUME Good, UNCHANGED clientVars, Consistent', WireTypes', Sessions', stopped => stopped',
         \A c \in Client : Linked(c) => Moves(c, socket[c]),
         \A c \in Client : Linked(c) /\ c \notin strayed =>
           links'[socket[c]] = {} /\ (peek' # None => peek'.user # socket[c])
  PROVE  Good'
<1>1. ASSUME NEW c \in Client PROVE Steady(c)'
  <2>1. WireTypes /\ Steady(c)
    BY DEF Good
  <2>2. prompt'[c] = prompt[c] /\ socket'[c] = socket[c] /\ (c \in strayed' <=> c \in strayed)
    BY DEF clientVars
  <2>3. QED
    BY <2>1, <2>2, SteadyKept
<1>2. QED
  BY <1>1 DEF Good

LEMMA OwnRequests ==
  ASSUME RequestsCarryOwnId, NEW u \in User, toServer[u] \in Seq(ToServer), toServer[u] # <<>>,
         toServer' = [toServer EXCEPT ![u] = Tail(@)], toServer \in [User -> Seq(ToServer)]
  PROVE  Head(toServer[u]).user = u /\ RequestsCarryOwnId'
<1> DEFINE s == toServer[u]
<1>1. Len(s) \in Nat /\ Len(s) >= 1 /\ DOMAIN s = 1 .. Len(s) /\ Head(s) = s[1]
  BY QueueFacts
<1>2. s[1].user = u
  BY <1>1 DEF RequestsCarryOwnId
<1>3. \A i \in 1 .. Len(s) - 1 : Tail(s)[i] = s[i + 1] /\ i + 1 \in 1 .. Len(s)
  BY <1>1
<1>4. DOMAIN Tail(s) = 1 .. Len(s) - 1
  BY <1>1
<1>5. \A i \in DOMAIN Tail(s) : Tail(s)[i].user = u
  BY <1>1, <1>3, <1>4 DEF RequestsCarryOwnId
<1>6. toServer'[u] = Tail(s) /\ \A v \in User : v # u => toServer'[v] = toServer[v]
  OBVIOUS
<1>7. QED
  BY <1>1, <1>2, <1>5, <1>6 DEF RequestsCarryOwnId

\* The client of session u, unless it has strayed, has asked what is in the way.
LEMMA AskedByKeeper ==
  ASSUME Good, Up, NEW c \in Client, Linked(c), c \notin strayed, toServer[socket[c]] # <<>>
  PROVE  Head(toServer[socket[c]]).code \notin Social
BY DEF Good, Steady, AtMostOne, KeepsOut, Minds, Up

LEMMA ReceiveKeeps ==
  ASSUME PInv, NEW u \in User, Receive(u), UNCHANGED clientVars
  PROVE  PInv'
<1> DEFINE q == Head(toServer[u])
<1>1. /\ Up /\ Defined /\ Good /\ session[u] = "open" /\ toServer[u] # <<>>
      /\ Treat(q) \/ Refuse(q)
      /\ toServer' = [toServer EXCEPT ![u] = Tail(@)] /\ UNCHANGED <<session, removing, heirs, ended>>
  BY DEF Receive, NetworkReady, Up, PInv, userVars
<1>2. toServer \in [User -> Seq(ToServer)] /\ toClient \in [User -> Seq(ToClient)] /\ Consistent
  BY <1>1 DEF Good, WireTypes
<1>3. q \in ToServer /\ q.user = u /\ RequestsCarryOwnId'
  BY <1>1, <1>2, QueueFacts, OwnRequests DEF PInv
<1> HIDE DEF q
<1>4. ASSUME Defined' PROVE Good'
  <2>1. Consistent'
    BY <1>1, <1>2, <1>3, <1>4, TreatConsistent, NoChangeKeeps DEF Refuse
  <2>2. out' \subseteq Event
    BY <2>1 DEF Consistent, TypeOK
  <2>3. Answers(q)
    BY <1>1, <1>2, <1>3, <2>2, TreatAnswers, RefuseAnswers
  <2>4. /\ \A v \in User : links[v] = {} /\ (v # u \/ q.code # "join") => links'[v] = {}
        /\ UNCHANGED leaving
        /\ \/ UNCHANGED peek
           \/ q.code = "message" /\ (peek' = None \/ peek'.user = u)
    BY <1>1, <1>2, <1>3, TreatLinks
  <2>5. stopped' \in BOOLEAN /\ (stopped => stopped')
    BY <1>1 DEF Treat, Refuse, AuthCommand, ApplicationListCommand, CommandListCommand,
         PingCommand, ReloadAppCommand, UnloadAppCommand, StopCommand, CreateCanalCommand,
         DeleteCanalCommand, JoinCanalCommand, LeaveCanalCommand, ListCanalCommand,
         MessageCanalCommand, CanalCommand, Up, Good, WireTypes
  <2>6. toServer' \in [User -> Seq(ToServer)]
    BY <1>1, <1>2, QueueFacts
  <2>7. WireTypes'
    BY <1>1, <2>3, <2>5, <2>6 DEF Good, WireTypes, Answers, clientVars
  <2>8. Sessions'
    BY <1>1, <2>4 DEF Good, Sessions, clientVars, Linked
  <2>9. ASSUME NEW c \in Client, Linked(c) PROVE Moves(c, socket[c])
    <3>1. c \notin strayed => links[socket[c]] = {}
      BY <1>1, <2>9 DEF Good, Steady, KeepsOut
    <3>2. socket[c] \in User
      BY <2>9 DEF Linked
    <3>3. toClient'[socket[c]] = toClient[socket[c]]
            \/ \E e \in ToClient : /\ GetsEvent(socket[c], e)
                                  /\ \/ socket[c] = u /\ e.code = q.code
                                     \/ c \in strayed
      BY <1>3, <2>3, <3>1, <3>2 DEF Answers
    <3>4. CASE socket[c] = u
      <4>1. toServer'[socket[c]] = Tail(toServer[socket[c]])
        BY <1>1, <1>2, <3>4
      <4>2. CASE toClient'[socket[c]] = toClient[socket[c]]
        BY <1>1, <3>4, <4>1, <4>2 DEF Moves
      <4>3. CASE toClient'[socket[c]] # toClient[socket[c]]
        <5>1. PICK e \in ToClient : GetsEvent(socket[c], e) /\ (c \in strayed \/ e.code = q.code)
          BY <3>3, <4>3
        <5>2. QED
          BY <1>1, <3>4, <4>1, <5>1 DEF Moves, q
      <4>4. QED
        BY <4>2, <4>3
    <3>5. CASE socket[c] # u
      <4>1. toServer'[socket[c]] = toServer[socket[c]]
        BY <1>1, <1>2, <3>2, <3>5
      <4>2. CASE toClient'[socket[c]] = toClient[socket[c]]
        BY <4>1, <4>2 DEF Moves
      <4>3. CASE toClient'[socket[c]] # toClient[socket[c]]
        <5>1. c \in strayed /\ \E e \in ToClient : GetsEvent(socket[c], e)
          BY <3>3, <3>5, <4>3
        <5>2. QED
          BY <4>1, <5>1 DEF Moves
      <4>4. QED
        BY <4>2, <4>3
    <3>6. QED
      BY <3>4, <3>5
  <2>10. ASSUME NEW c \in Client, Linked(c), c \notin strayed
         PROVE  links'[socket[c]] = {} /\ (peek' # None => peek'.user # socket[c])
    <3>1. /\ links[socket[c]] = {} /\ (peek # None => peek.user # socket[c])
          /\ socket[c] \in User
      BY <1>1, <2>10 DEF Good, Steady, KeepsOut, Linked
    <3>2. socket[c] = u => q.code \notin Social
      BY <1>1, <2>10, AskedByKeeper DEF q
    <3>3. QED
      BY <2>4, <3>1, <3>2 DEF Social
  <2>11. QED
    BY <1>1, <2>1, <2>5, <2>7, <2>8, <2>9, <2>10, ServerKeeps
<1>5. QED
  BY <1>3, <1>4 DEF PInv

LEMMA OnCloseKeeps ==
  ASSUME PInv, NEW u \in User, \A c \in Client : socket[c] # u, OnClose(u), UNCHANGED clientVars
  PROVE  PInv'
<1>1. /\ Defined /\ Good /\ Consistent /\ UNCHANGED <<removing, heirs, ended, stopped>>
      /\ session[u] = "open" /\ session' = [session EXCEPT ![u] = "closed"]
      /\ toServer' = [toServer EXCEPT ![u] = <<>>] /\ toClient' = [toClient EXCEPT ![u] = <<>>]
      /\ NoCanalChange /\ UNCHANGED <<links, leaving, peek>>
  BY DEF OnClose, NetworkReady, Up, PInv, Good, NoCanalChange
<1>2. WireTypes
  BY <1>1 DEF Good
<1>3. RequestsCarryOwnId'
  BY <1>1, <1>2 DEF PInv, RequestsCarryOwnId, WireTypes
<1>4. Consistent'
  BY <1>1, NoChangeKeeps
<1>5. WireTypes'
  BY <1>1, <1>2 DEF WireTypes, clientVars
<1>6. Sessions'
  <2>1. session'[u] = "closed" /\ \A v \in User : v # u => session'[v] = session[v]
    BY <1>1, <1>2 DEF WireTypes
  <2>3. socket' = socket /\ \A c \in Client : Linked(c)' <=> Linked(c)
    BY DEF clientVars, Linked
  <2>4. \A c \in Client : Linked(c) => session[socket[c]] = "open" /\ socket[c] \in User /\ socket[c] # u
    BY <1>1 DEF Good, Sessions, Linked
  <2>5. (\A c \in Client : Linked(c) => session[socket[c]] = "open")'
    BY <2>1, <2>3, <2>4
  <2>6. /\ (leaving # None => removing = leaving.user)'
        /\ (removing # None /\ session[removing] = "erased" => leaving = None)'
    BY <1>1, <1>2, <2>1 DEF Good, Sessions, WireTypes
  <2>7. /\ (\A v \in User : session[v] = "free" /\ removing # v => links[v] = {})'
        /\ (\A v \in User : session[v] = "open" /\ v \notin heirs => removing # v)'
    BY <1>1, <2>1 DEF Good, Sessions
  <2>8. (\A c, d \in Client : Linked(c) /\ Linked(d) /\ socket[c] = socket[d] => c = d)'
    BY <1>1, <2>3 DEF Good, Sessions
  <2>9. QED
    BY <2>5, <2>6, <2>7, <2>8 DEF Sessions
<1>7. \A c \in Client : Linked(c) => Moves(c, socket[c])
  BY <1>1, <1>2 DEF Moves, Linked, WireTypes
<1>8. \A c \in Client : Linked(c) /\ c \notin strayed =>
        links'[socket[c]] = {} /\ (peek' # None => peek'.user # socket[c])
  BY <1>1 DEF Good, Steady, KeepsOut
<1>9. QED
  BY <1>1, <1>3, <1>4, <1>5, <1>6, <1>7, <1>8, ServerKeeps DEF PInv

\* A step that is about sessions only, of users no client is linked to.
LEMMA SessionsKeep ==
  ASSUME PInv, Defined, NoCanalChange, UNCHANGED clientVars, UNCHANGED <<toServer, toClient, stopped>>,
         WireTypes', Sessions'
  PROVE  PInv'
<1>1. Good /\ Consistent
  BY DEF PInv, Good
<1>2. Consistent' /\ Defined'
  BY <1>1, NoChangeKeeps
<1>3. \A c \in Client : Linked(c) => Moves(c, socket[c])
  BY DEF Moves
<1>4. \A c \in Client : Linked(c) /\ c \notin strayed =>
        links'[socket[c]] = {} /\ (peek' # None => peek'.user # socket[c])
  BY <1>1 DEF Good, Steady, KeepsOut, NoCanalChange
<1>5. RequestsCarryOwnId'
  BY DEF PInv, RequestsCarryOwnId
<1>6. QED
  BY <1>1, <1>2, <1>3, <1>4, <1>5, ServerKeeps DEF PInv

LEMMA RemoveUserKeeps ==
  ASSUME PInv, NEW u \in User, RemoveUser(u), UNCHANGED clientVars
  PROVE  PInv'
<1>1. /\ Defined /\ Good /\ NoCanalChange /\ removing = None /\ session[u] = "closed"
      /\ session' = [session EXCEPT ![u] = "erased"] /\ removing' = u
      /\ UNCHANGED <<toServer, toClient, stopped, ended, heirs, links, leaving>>
  BY DEF RemoveUser, Up, PInv, NoCanalChange
<1>2. WireTypes /\ Sessions
  BY <1>1 DEF Good
<1>3. WireTypes'
  BY <1>1, <1>2 DEF WireTypes, clientVars
<1>4. leaving = None
  <2>1. leaving \in [user : User, todo : SUBSET Id, gone : SUBSET Id] \cup {None}
    BY <1>1, Facts DEF Good
  <2>2. QED
    BY <1>1, <1>2, <2>1, CommandAssumption DEF Sessions
<1>5. session'[u] = "erased" /\ \A v \in User : v # u => session'[v] = session[v]
  BY <1>1, <1>2 DEF WireTypes
<1>6. socket' = socket /\ \A c \in Client : Linked(c)' <=> Linked(c)
  BY DEF clientVars, Linked
<1>7. \A c \in Client : Linked(c) => socket[c] # u /\ socket[c] \in User
  BY <1>1, <1>2 DEF Sessions, Linked
<1>8. \A v \in User : v # u => v # None
  BY CommandAssumption
<1>9. Sessions'
  BY <1>1, <1>2, <1>4, <1>5, <1>6, <1>7, <1>8 DEF Sessions
<1>10. QED
  BY <1>1, <1>3, <1>9, SessionsKeep

LEMMA FreeUserIDKeeps ==
  ASSUME PInv, FreeUserID, UNCHANGED clientVars
  PROVE  PInv'
<1>1. /\ Defined /\ Good /\ NoCanalChange /\ removing # None /\ session[removing] = "erased"
      /\ session' = [session EXCEPT ![removing] = "free"]
      /\ UNCHANGED <<toServer, toClient, stopped, ended, removing, heirs, links, leaving>>
  BY DEF FreeUserID, Up, PInv, NoCanalChange
<1>2. WireTypes /\ Sessions /\ removing \in User
  BY <1>1 DEF Good, WireTypes
<1>3. WireTypes'
  BY <1>1, <1>2 DEF WireTypes, clientVars
<1>4. session'[removing] = "free" /\ \A v \in User : v # removing => session'[v] = session[v]
  BY <1>1, <1>2 DEF WireTypes
<1>5. socket' = socket /\ \A c \in Client : Linked(c)' <=> Linked(c)
  BY DEF clientVars, Linked
<1>6. \A c \in Client : Linked(c) => socket[c] # removing /\ socket[c] \in User
  BY <1>1, <1>2 DEF Sessions, Linked
<1>7. Sessions'
  BY <1>1, <1>2, <1>4, <1>5, <1>6 DEF Sessions
<1>8. QED
  BY <1>1, <1>3, <1>7, SessionsKeep

LEMMA ServerEndsKeeps ==
  ASSUME PInv, ServerEnds, UNCHANGED clientVars
  PROVE  PInv'
<1>1. /\ Defined /\ Good /\ NoCanalChange /\ stopped
      /\ UNCHANGED <<toServer, toClient, stopped, session, removing, heirs, links, leaving>>
  BY DEF ServerEnds, PInv, NoCanalChange, userVars
<1>2. WireTypes' /\ Sessions'
  BY <1>1 DEF Good, WireTypes, Sessions, clientVars, Linked
<1>3. QED
  BY <1>1, <1>2, SessionsKeep

\* A step of CanalManager's that tells only those who are in a canal, or whose
\* message is half sent.
LEMMA TellsKeep ==
  ASSUME Good, Consistent', UNCHANGED <<clientVars, session, toServer, stopped, ended>>,
         removing' \in User \cup {None}, SendCanalEvents, Sessions',
         \A e \in out' : links[e.to] # {} \/ (peek # None /\ peek.user = e.to),
         \A v \in User : links[v] = {} => links'[v] = {},
         peek' = peek \/ peek' = None
  PROVE  Good'
<1>1. TypeOK /\ WireTypes /\ out' \subseteq Event
  BY DEF Good, Consistent, TypeOK
<1>2. /\ toClient' \in [User -> Seq(ToClient)]
      /\ \A v \in User : toClient'[v] = toClient[v]
           \/ \E e \in out' : e.to = v /\ CanalEvent(e) \in ToClient /\ GetsEvent(v, CanalEvent(e))
  BY <1>1, SendCanalEventsGives DEF WireTypes
<1>3. WireTypes'
  BY <1>1, <1>2 DEF WireTypes, clientVars
<1>4. ASSUME NEW c \in Client, Linked(c) PROVE Moves(c, socket[c])
  <2>1. c \notin strayed => links[socket[c]] = {} /\ (peek # None => peek.user # socket[c])
    BY <1>4 DEF Good, Steady, KeepsOut
  <2>2. QED
    BY <1>2, <1>4, <2>1 DEF Moves, Linked
<1>5. \A c \in Client : Linked(c) /\ c \notin strayed =>
        links'[socket[c]] = {} /\ (peek' # None => peek'.user # socket[c])
  BY DEF Good, Steady, KeepsOut, Linked
<1>6. QED
  BY <1>3, <1>4, <1>5, ServerKeeps

LEMMA SendMessageKeeps ==
  ASSUME PInv, SendMessage, UNCHANGED clientVars
  PROVE  PInv'
<1>1. /\ Defined /\ Good /\ Consistent /\ MessageSend /\ SendCanalEvents
      /\ UNCHANGED <<session, removing, heirs, toServer, stopped, ended, links, leaving>>
      /\ peek # None /\ peek' = None /\ removing \in User \cup {None}
  BY DEF SendMessage, Up, PInv, Good, MessageSend, userVars, WireTypes
<1>2. RequestsCarryOwnId'
  BY <1>1 DEF PInv, RequestsCarryOwnId
<1>3. ASSUME Defined' PROVE Good'
  <2>1. Consistent'
    BY <1>1, <1>3, MessageSendConsistent
  <2>2. Sessions'
    BY <1>1 DEF Good, Sessions, clientVars, Linked
  <2>3. ASSUME peek.canal \in DOMAIN canals
        PROVE  \A e \in out' : links[e.to] # {} \/ peek.user = e.to
    <3>1. canals' = canals
      BY <1>1, <2>3 DEF MessageSend
    <3>2. \A v \in User : v \in canals[peek.canal].users => links[v] # {}
      BY <1>1, <2>3 DEF Consistent, LinksAreMemberships, LinkedTo, Defined
    <3>3. canals[peek.canal].users \subseteq User
      BY <1>1, <2>3, Facts DEF Canal
    <3>4. \A e \in out' : \/ e = Error(peek.user, peek.canal, "message")
                          \/ \E v \in canals[peek.canal].users : e = Answer(v, peek.canal, "message")
      BY <1>1, <3>1 DEF MessageSend
    <3>5. QED
      BY <3>2, <3>3, <3>4, AnswerIs
  <2>4. ASSUME peek.canal \notin DOMAIN canals
        PROVE  \A e \in out' : peek.user = e.to
    <3>1. canals' = With(canals, peek.canal, DefaultCanal)
      BY <1>1, <2>4 DEF MessageSend
    <3>2. canals'[peek.canal].users = {}
      BY <3>1 DEF With, DefaultCanal, NewCanal
    <3>3. out' = {Error(peek.user, peek.canal, "message")}
      BY <1>1, <3>2 DEF MessageSend
    <3>4. QED
      BY <3>3, AnswerIs
  <2>7. \A e \in out' : links[e.to] # {} \/ (peek # None /\ peek.user = e.to)
    BY <1>1, <2>3, <2>4
  <2>8. QED
    BY <1>1, <2>1, <2>2, <2>7, TellsKeep
<1>4. QED
  BY <1>2, <1>3 DEF PInv

LEMMA LeaveCanalsKeeps ==
  ASSUME PInv, LeaveCanals, UNCHANGED clientVars
  PROVE  PInv'
<1>1. /\ Defined /\ Good /\ Consistent /\ SendCanalEvents
      /\ UNCHANGED <<session, heirs, toServer, stopped, ended>>
      /\ removing \in User /\ session[removing] # "erased"
  BY DEF LeaveCanals, Up, PInv, Good, WireTypes
<1>2. RequestsCarryOwnId'
  BY <1>1 DEF PInv, RequestsCarryOwnId
<1>3. /\ links \in [User -> SUBSET Id]
      /\ leaving \in [user : User, todo : SUBSET Id, gone : SUBSET Id] \cup {None}
      /\ None \notin [user : User, todo : SUBSET Id, gone : SUBSET Id]
  BY <1>1, Facts, CanalAssumption
<1>4. Sessions /\ WireTypes
  BY <1>1 DEF Good
<1>5. ASSUME Defined' PROVE Good'
  <2>1. CASE LeaveAllCanal(removing) /\ UNCHANGED removing
    <3>1. /\ leaving = None /\ leaving' = [user |-> removing, todo |-> links[removing], gone |-> {}]
          /\ out' = {} /\ UNCHANGED <<links, peek>>
      BY <2>1 DEF LeaveAllCanal, MutexFree
    <3>2. Consistent'
      BY <1>1, <2>1, LeaveAllCanalConsistent
    <3>3. Sessions'
      BY <1>1, <1>4, <2>1, <3>1 DEF Sessions, clientVars, Linked
    <3>4. QED
      BY <1>1, <2>1, <3>1, <3>2, <3>3, TellsKeep
  <2>2. CASE LeaveAllEnd /\ removing' = None
    <3>1. /\ leaving # None /\ leaving' = None /\ out' = {} /\ peek' = peek
          /\ links' = [links EXCEPT ![leaving.user] = {}]
      BY <2>2 DEF LeaveAllEnd, MutexFree
    <3>2. leaving.user \in User /\ leaving.user = removing
      BY <1>3, <1>4, <3>1 DEF Sessions
    <3>3. Consistent'
      BY <1>1, <2>2, LeaveAllEndConsistent
    <3>4. Sessions'
      <4>1. links'[removing] = {} /\ \A v \in User : v # removing => links'[v] = links[v]
        BY <1>3, <3>1, <3>2
      <4>2. \A v \in User : v # None
        BY CommandAssumption
      <4>3. QED
        BY <1>1, <1>4, <2>2, <3>1, <4>1, <4>2 DEF Sessions, clientVars, Linked
    <3>5. \A v \in User : links[v] = {} => links'[v] = {}
      BY <1>3, <3>1
    <3>6. QED
      BY <1>1, <2>2, <3>1, <3>3, <3>4, <3>5, TellsKeep
  <2>3. CASE LeaveNext
    BY <1>5, <2>3 DEF LeaveNext, Defined
  <2>4. ASSUME NEW c \in Id, LeaveOne(c), UNCHANGED removing PROVE Good'
    <3>1. /\ leaving # None /\ peek' = peek
          /\ out' \subseteq Notices(c)
          /\ \A v \in User : links'[v] \subseteq links[v]
      BY <1>3, <2>4 DEF LeaveOne, RemoveCanal, MutexFree
    <3>2. Consistent'
      BY <1>1, <1>5, <2>4, LeaveOneConsistent
    <3>3. leaving'.user = leaving.user
      <4>1. leaving \in [user : User, todo : SUBSET Id, gone : SUBSET Id]
        BY <1>3, <3>1
      <4>2. QED
        BY <2>4, <4>1 DEF LeaveOne
    <3>4. Sessions'
      BY <1>1, <1>4, <2>4, <3>1, <3>3 DEF Sessions, clientVars, Linked
    <3>5. \A e \in out' : links[e.to] # {}
      BY <3>1, NoticesAreMeant
    <3>6. \A v \in User : links[v] = {} => links'[v] = {}
      BY <3>1
    <3>7. QED
      BY <1>1, <2>4, <3>1, <3>2, <3>4, <3>5, <3>6, TellsKeep
  <2>5. QED
    BY <2>1, <2>2, <2>3, <2>4 DEF LeaveCanals
<1>6. QED
  BY <1>2, <1>5 DEF PInv

LEMMA StartServerKeeps ==
  ASSUME PInv, StartServer, UNCHANGED clientVars
  PROVE  PInv'
<1>1. UNCHANGED <<session, removing, heirs, toServer, toClient, stopped, ended, links, leaving, peek, status>>
  BY DEF StartServer, StartServing, Configure, serverVars, userVars
<1>2. RequestsCarryOwnId'
  BY <1>1 DEF PInv, RequestsCarryOwnId
<1>3. ASSUME Defined' PROVE Good'
  <2>1. Defined /\ Good /\ Consistent
    BY <1>1, <1>3 DEF Defined, PInv, Good
  <2>2. Next
    BY CanalAssumption DEF StartServer, Next, Boot
  <2>3. Consistent'
    BY <1>3, <2>1, <2>2, NextConsistent
  <2>4. WireTypes' /\ Sessions'
    BY <1>1, <2>1 DEF Good, WireTypes, Sessions, clientVars, Linked
  <2>5. \A c \in Client : Linked(c) => Moves(c, socket[c])
    BY <1>1 DEF Moves
  <2>6. \A c \in Client : Linked(c) /\ c \notin strayed =>
          links'[socket[c]] = {} /\ (peek' # None => peek'.user # socket[c])
    BY <1>1, <2>1 DEF Good, Steady, KeepsOut
  <2>7. QED
    BY <1>1, <2>1, <2>3, <2>4, <2>5, <2>6, ServerKeeps
<1>4. QED
  BY <1>2, <1>3 DEF PInv

LEMMA ServerStepKeeps ==
  ASSUME PInv, ServerStep
  PROVE  PInv'
<1>1. UNCHANGED clientVars
  BY DEF ServerStep
<1>2. QED
  BY <1>1, StartServerKeeps, ReceiveKeeps, OnCloseKeeps, RemoveUserKeeps, FreeUserIDKeeps,
     LeaveCanalsKeeps, SendMessageKeeps, ServerEndsKeeps DEF ServerStep
-----------------------------------------------------------------------------
(* A client's prompt. *)

Handler == {"none", "connect", "print", "event", "json", "created", "canals"}

LEMMA PromptFields ==
  ASSUME NEW p \in Prompt
  PROVE  /\ p.id \in User \cup {None} /\ p.canals \in Dictionary /\ p.handler \in Handler
         /\ p.asked \in Code \cup {"none"}
         /\ p.then.code \in {"none", "message", "join", "leave", "delete"}
         /\ p.then.name \in CanalName \cup {Empty}
BY DEF Prompt, Handler

LEMMA IdleIs ==
  ASSUME NEW p \in Prompt
  PROVE  /\ Idle(p) \in Prompt /\ Idle(p).handler = "none" /\ Idle(p).id = p.id
         /\ \A strays : Minds(Idle(p), strays)
<1>1. Nothing \in [code : {"none", "message", "join", "leave", "delete"}, name : CanalName \cup {Empty}]
  BY DEF Nothing
<1>2. Idle(p) \in Prompt /\ Idle(p).handler = "none" /\ Idle(p).id = p.id
      /\ Idle(p).asked = "none" /\ Idle(p).then = Nothing
  BY <1>1 DEF Idle, Prompt
<1>3. "none" \notin Social /\ Nothing.code \notin Social
  BY DEF Social, Nothing
<1>4. QED
  BY <1>2, <1>3 DEF Minds

LEMMA WaitsIs ==
  ASSUME NEW p \in Prompt, NEW handler \in Handler, NEW asked \in Code \cup {"none"}
  PROVE  LET w == Waits(p, handler, asked)
         IN  /\ w \in Prompt /\ w.handler = handler /\ w.asked = asked
             /\ w.then = p.then /\ w.id = p.id /\ w.canals = p.canals
BY DEF Waits, Prompt, Handler

LEMMA EndedIs ==
  ASSUME NEW p \in Prompt
  PROVE  /\ Ended(p) \in Prompt /\ Ended(p).handler = "none"
         /\ \A strays : Minds(Ended(p), strays)
<1>1. Idle(p) \in Prompt
  BY IdleIs
<1>2. /\ Ended(p) \in Prompt /\ Ended(p).handler = Idle(p).handler
      /\ Ended(p).asked = Idle(p).asked /\ Ended(p).then = Idle(p).then
  BY <1>1 DEF Ended, Prompt
<1>3. QED
  BY <1>2, IdleIs DEF Minds
-----------------------------------------------------------------------------
(* The clients' steps. *)

\* A client's step that opens no session disturbs no other client.
LEMMA ClientKeeps ==
  ASSUME PInv, Defined, NEW c \in Client, NEW p \in Prompt, NEW s \in {socket[c], "closed", "broken", "backlog"},
         prompt' = [prompt EXCEPT ![c] = p], socket' = [socket EXCEPT ![c] = s],
         \A d \in Client : d # c => (d \in strayed' <=> d \in strayed),
         NoCanalChange, UNCHANGED <<session, removing, heirs, ended, stopped>>,
         toServer' \in [User -> Seq(ToServer)], toClient' \in [User -> Seq(ToClient)],
         \A u \in User : ~Linked(c) \/ u # socket[c] =>
           toServer'[u] = toServer[u] /\ toClient'[u] = toClient[u],
         Linked(c) => \A i \in DOMAIN toServer'[socket[c]] : toServer'[socket[c]][i].user = socket[c],
         Steady(c)'
  PROVE  PInv'
<1>1. Good /\ Consistent /\ WireTypes /\ RequestsCarryOwnId
  BY DEF PInv, Good
<1>2. RequestsCarryOwnId'
  BY <1>1 DEF RequestsCarryOwnId
<1>3. Consistent' /\ Defined'
  BY <1>1, NoChangeKeeps
<1>4. s \in User \cup {"closed", "broken", "backlog"}
  BY <1>1 DEF WireTypes
<1>5. WireTypes'
  BY <1>1, <1>4 DEF WireTypes
<1>6. UNCHANGED <<links, leaving, peek>>
  BY DEF NoCanalChange
<1>7. /\ socket'[c] = s /\ prompt'[c] = p
      /\ \A d \in Client : d # c => socket'[d] = socket[d] /\ prompt'[d] = prompt[d]
  BY <1>1 DEF WireTypes
<1>8. \A d \in Client : Linked(d)' => Linked(d) /\ socket'[d] = socket[d]
  BY <1>7, UserIsNoMark DEF Linked
<1>9. Sessions'
  <2>1. (\A d \in Client : Linked(d) => session[socket[d]] = "open")'
    BY <1>1, <1>8 DEF Good, Sessions
  <2>2. (\A d, e \in Client : Linked(d) /\ Linked(e) /\ socket[d] = socket[e] => d = e)'
    BY <1>1, <1>8 DEF Good, Sessions
  <2>3. /\ (leaving # None => removing = leaving.user)'
        /\ (removing # None /\ session[removing] = "erased" => leaving = None)'
    BY <1>1, <1>6 DEF Good, Sessions
  <2>4. /\ (\A u \in User : session[u] = "free" /\ removing # u => links[u] = {})'
        /\ (\A u \in User : session[u] = "open" /\ u \notin heirs => removing # u)'
    BY <1>1, <1>6 DEF Good, Sessions
  <2>5. QED
    BY <2>1, <2>2, <2>3, <2>4 DEF Sessions
<1>10. ASSUME NEW d \in Client, d # c PROVE Steady(d)'
  <2>1. Steady(d)
    BY <1>1 DEF Good
  <2>2. Linked(d) => Moves(d, socket[d])
    <3>1. Linked(d) => socket[d] \in User /\ (~Linked(c) \/ socket[d] # socket[c])
      BY <1>1, <1>10 DEF Good, Sessions, Linked
    <3>2. QED
      BY <3>1 DEF Moves
  <2>3. Linked(d) /\ d \notin strayed =>
          links'[socket[d]] = {} /\ (peek' # None => peek'.user # socket[d])
    BY <1>6, <2>1 DEF Steady, KeepsOut
  <2>4. prompt'[d] = prompt[d] /\ socket'[d] = socket[d] /\ (d \in strayed' <=> d \in strayed)
    BY <1>7, <1>10
  <2>5. QED
    BY <1>1, <1>5, <2>1, <2>2, <2>3, <2>4, SteadyKept
<1>11. QED
  BY <1>2, <1>3, <1>5, <1>9, <1>10 DEF PInv, Good

\* A client without a session need only have left nothing behind.
LEMMA UnlinkedSteady ==
  ASSUME NEW c \in Client, NEW p, prompt'[c] = p, socket'[c] \notin User, Minds(p, c \in strayed')
  PROVE  Steady(c)'
BY DEF Steady, KnowsId, KeepsOut, Linked, Minds

\* The queues of a client's session, and whose requests are in them.
LEMMA QueuesAre ==
  ASSUME PInv, Defined, NEW c \in Client
  PROVE  /\ toServer \in [User -> Seq(ToServer)] /\ toClient \in [User -> Seq(ToClient)]
         /\ prompt \in [Client -> Prompt] /\ prompt[c] \in Prompt
         /\ socket \in [Client -> User \cup {"closed", "broken", "backlog"}]
         /\ Linked(c) => /\ socket[c] \in User
                         /\ toServer[socket[c]] \in Seq(ToServer)
                         /\ toClient[socket[c]] \in Seq(ToClient)
                         /\ \A i \in DOMAIN toServer[socket[c]] : toServer[socket[c]][i].user = socket[c]
         /\ Steady(c)
         /\ \A u \in User : \A i \in DOMAIN toServer[u] : toServer[u][i].user = u
BY DEF PInv, Good, WireTypes, Linked, RequestsCarryOwnId

\* The socket goes, whatever has been sent or read before.
LEMMA HangsUp ==
  ASSUME PInv, Defined, NEW c \in Client, NEW p \in Prompt, NEW s \in {"closed", "broken", "backlog"},
         Becomes(c, p), WithSocket(c, s), Minds(p, c \in strayed'),
         \A d \in Client : d # c => (d \in strayed' <=> d \in strayed),
         NoCanalChange, UNCHANGED <<session, removing, heirs, ended, stopped>>,
         toServer' \in [User -> Seq(ToServer)], toClient' \in [User -> Seq(ToClient)],
         \A u \in User : ~Linked(c) \/ u # socket[c] =>
           toServer'[u] = toServer[u] /\ toClient'[u] = toClient[u],
         Linked(c) => \A i \in DOMAIN toServer'[socket[c]] : toServer'[socket[c]][i].user = socket[c]
  PROVE  PInv'
<1>1. prompt' = [prompt EXCEPT ![c] = p] /\ socket' = [socket EXCEPT ![c] = s]
  BY DEF Becomes, WithSocket
<1>2. prompt'[c] = p /\ socket'[c] = s
  BY <1>1, QueuesAre
<1>3. s \notin User
  BY UserIsNoMark
<1>4. Steady(c)'
  BY <1>2, <1>3, UnlinkedSteady
<1>5. s \in {socket[c], "closed", "broken", "backlog"}
  OBVIOUS
<1>6. QED
  BY <1>1, <1>4, <1>5, ClientKeeps

LEMMA HangsUpQuietly ==
  ASSUME PInv, Defined, NEW c \in Client, NEW p \in Prompt, NEW s \in {"closed", "broken", "backlog"},
         Becomes(c, p), WithSocket(c, s), Minds(p, c \in strayed'),
         \A d \in Client : d # c => (d \in strayed' <=> d \in strayed),
         NoCanalChange, UNCHANGED <<session, removing, heirs, ended, stopped, toServer, toClient>>
  PROVE  PInv'
<1>1. /\ toServer' \in [User -> Seq(ToServer)] /\ toClient' \in [User -> Seq(ToClient)]
      /\ Linked(c) => \A i \in DOMAIN toServer'[socket[c]] : toServer'[socket[c]][i].user = socket[c]
  BY QueuesAre
<1>2. QED
  BY <1>1, HangsUp

LEMMA RequestIs ==
  ASSUME PInv, Defined, NEW c \in Client, NEW app \in App, NEW code \in Code, NEW canal \in Id,
         NEW data \in Datum, code = "create" => data \in CanalName
  PROVE  LET q == Request(c, app, code, canal, data)
         IN q \in ToServer /\ q.user = prompt[c].id /\ q.code = code
<1>1. prompt[c].id \in User \cup {None}
  BY QueuesAre, PromptFields
<1>2. QED
  BY <1>1 DEF Request, ToServer

LEMMA AppendOwn ==
  ASSUME NEW s \in Seq(ToServer), NEW q \in ToServer, NEW u, q.user = u,
         \A i \in DOMAIN s : s[i].user = u
  PROVE  \A i \in DOMAIN Append(s, q) : Append(s, q)[i].user = u
<1>1. DOMAIN Append(s, q) = 1 .. Len(s) + 1 /\ DOMAIN s = 1 .. Len(s) /\ Len(s) \in Nat
  OBVIOUS
<1>2. Append(s, q)[Len(s) + 1] = q /\ \A i \in 1 .. Len(s) : Append(s, q)[i] = s[i]
  OBVIOUS
<1>3. QED
  BY <1>1, <1>2

LEMMA SentGives ==
  ASSUME PInv, Defined, NEW c \in Client, prompt[c].handler # "connect",
         NEW q \in ToServer, q.user = prompt[c].id, Sent(c, q)
  PROVE  /\ toServer' \in [User -> Seq(ToServer)] /\ toClient' \in [User -> Seq(ToClient)]
         /\ toClient' = toClient
         /\ \A u \in User : ~Linked(c) \/ u # socket[c] => toServer'[u] = toServer[u]
         /\ Linked(c) => \A i \in DOMAIN toServer'[socket[c]] : toServer'[socket[c]][i].user = socket[c]
         /\ Linked(c) => \/ toServer'[socket[c]] = toServer[socket[c]]
                         \/ toServer'[socket[c]] = Append(toServer[socket[c]], q)
<1>1. CASE Linked(c) /\ ~stopped /\ toServer' = [toServer EXCEPT ![socket[c]] = Append(@, q)]
           /\ UNCHANGED toClient
  <2>1. prompt[c].id = socket[c] /\ toServer'[socket[c]] = Append(toServer[socket[c]], q)
    BY <1>1, QueuesAre DEF Steady, KnowsId
  <2>2. Append(toServer[socket[c]], q) \in Seq(ToServer)
    BY <1>1, QueuesAre, QueueFacts
  <2>3. \A i \in DOMAIN toServer'[socket[c]] : toServer'[socket[c]][i].user = socket[c]
    BY <1>1, <2>1, QueuesAre, AppendOwn
  <2>4. QED
    BY <1>1, <2>1, <2>2, <2>3, QueuesAre
<1>2. CASE UNCHANGED <<toServer, toClient>>
  BY <1>2, QueuesAre
<1>3. QED
  BY <1>1, <1>2 DEF Sent

\* A handler that has sent its request, or found that it could not, waits.
LEMMA WaitingKeeps ==
  ASSUME PInv, Defined, NEW c \in Client, prompt[c].handler = "none",
         NEW q \in ToServer, q.user = prompt[c].id, Sent(c, q),
         NEW p \in Prompt, p.id = prompt[c].id, p.handler \notin {"none", "connect"},
         p.asked = q.code, Becomes(c, p), UNCHANGED socket,
         \A d \in Client : d # c => (d \in strayed' <=> d \in strayed),
         c \in strayed => c \in strayed', Minds(p, c \in strayed'),
         NoCanalChange, UNCHANGED <<session, removing, heirs, ended, stopped>>
  PROVE  PInv'
<1>1. /\ toServer' \in [User -> Seq(ToServer)] /\ toClient' \in [User -> Seq(ToClient)]
      /\ toClient' = toClient
      /\ \A u \in User : ~Linked(c) \/ u # socket[c] => toServer'[u] = toServer[u]
      /\ Linked(c) => \A i \in DOMAIN toServer'[socket[c]] : toServer'[socket[c]][i].user = socket[c]
      /\ Linked(c) => \/ toServer'[socket[c]] = toServer[socket[c]]
                      \/ toServer'[socket[c]] = Append(toServer[socket[c]], q)
  BY SentGives
<1>2. /\ prompt' = [prompt EXCEPT ![c] = p] /\ prompt'[c] = p
      /\ socket' = [socket EXCEPT ![c] = socket[c]] /\ socket'[c] = socket[c]
  BY QueuesAre DEF Becomes
<1>3. Linked(c)' <=> Linked(c)
  BY <1>2 DEF Linked
<1>4. Steady(c) /\ UNCHANGED <<links, peek>>
  BY QueuesAre DEF NoCanalChange
<1>5. KnowsId(c)'
  BY <1>2, <1>3, <1>4 DEF Steady, KnowsId
<1>6. KeepsOut(c)'
  BY <1>2, <1>3, <1>4 DEF Steady, KeepsOut
<1>7. ASSUME Linked(c), c \notin strayed, ~stopped PROVE AtMostOne(c)'
  <2>1. toServer[socket[c]] = <<>> /\ toClient[socket[c]] = <<>>
    BY <1>4, <1>7 DEF Steady, AtMostOne
  <2>2. CASE toServer'[socket[c]] = <<>>
    BY <1>1, <1>2, <2>1, <2>2 DEF AtMostOne
  <2>3. CASE toServer'[socket[c]] = Append(<<>>, q)
    <3>1. Append(<<>>, q) # <<>> /\ Len(Append(<<>>, q)) = 1 /\ Head(Append(<<>>, q)) = q
      OBVIOUS
    <3>2. /\ toClient'[socket'[c]] = <<>> /\ toServer'[socket'[c]] = Append(<<>>, q)
          /\ prompt'[c].asked = q.code /\ prompt'[c].handler # "none"
      BY <1>1, <1>2, <2>1, <2>3
    <3> HIDE <1>1, <1>2, <2>1, <2>3
    <3>3. QED
      BY <3>1, <3>2 DEF AtMostOne
  <2>4. QED
    BY <1>1, <1>7, <2>1, <2>2, <2>3
<1>8. Steady(c)'
  BY <1>3, <1>5, <1>6, <1>7 DEF Steady
<1>9. QED
  BY <1>1, <1>2, <1>8, ClientKeeps

\* An exception ends the client before anything is sent.
LEMMA EndsQuietly ==
  ASSUME PInv, Defined, NEW c \in Client, Ends(c), NoCanalChange,
         \A d \in Client : d # c => (d \in strayed' <=> d \in strayed),
         UNCHANGED <<session, removing, heirs, ended, stopped, toServer, toClient>>
  PROVE  PInv'
<1>1. Ended(prompt[c]) \in Prompt /\ Minds(Ended(prompt[c]), c \in strayed')
  BY QueuesAre, EndedIs
<1>2. QED
  BY <1>1, HangsUpQuietly DEF Ends

LEMMA AskKeeps ==
  ASSUME PInv, Defined, NEW c \in Client, prompt[c].handler = "none",
         NEW q \in ToServer, q.user = prompt[c].id, q.code \notin Social,
         NEW handler \in Handler \ {"none", "connect"}, Ask(c, q, handler)
  PROVE  PInv'
<1>1. prompt[c] \in Prompt /\ Minds(prompt[c], c \in strayed)
  BY QueuesAre DEF Steady, KeepsOut
<1>2. NoCanalChange /\ UNCHANGED <<session, removing, heirs, ended, stopped, strayed>>
  BY DEF Ask, NoServerChangeBut, userVars
<1>3. CASE Sent(c, q) /\ Becomes(c, Waits(prompt[c], handler, q.code)) /\ UNCHANGED socket
  <2> DEFINE p == Waits(prompt[c], handler, q.code)
  <2>1. q.code \in Code \cup {"none"} /\ handler \in Handler
    BY DEF ToServer
  <2>2. p \in Prompt /\ p.handler = handler /\ p.asked = q.code /\ p.then = prompt[c].then
        /\ p.id = prompt[c].id
    BY <1>1, <2>1, WaitsIs
  <2> HIDE DEF p
  <2>3. Minds(p, c \in strayed')
    BY <1>1, <1>2, <2>2 DEF Minds, Social, Nothing
  <2>4. QED
    BY <1>2, <1>3, <2>2, <2>3, WaitingKeeps DEF p
<1>4. CASE Ends(c) /\ UNCHANGED <<toServer, toClient>>
  BY <1>2, <1>4, EndsQuietly
<1>5. QED
  BY <1>3, <1>4 DEF Ask
-----------------------------------------------------------------------------
(* The lines. *)

LEMMA LineFacts ==
  ASSUME PInv, NEW c \in Client, NEW line, Ready(c, line)
  PROVE  /\ Defined /\ prompt[c].handler = "none" /\ prompt[c] \in Prompt
         /\ Minds(prompt[c], c \in strayed) /\ prompt[c].then = Nothing
BY QueuesAre DEF Ready, Steady, KeepsOut, Minds

\* HandleStop, HandleDisconnect, Quit: m_Connected and m_Running say nothing
\* about what is asked.
LEMMA SwitchedOff ==
  ASSUME NEW p \in Prompt, NEW strays, Minds(p, strays)
  PROVE  LET q == [p EXCEPT !.connected = FALSE]
             r == [[p EXCEPT !.running = FALSE] EXCEPT !.connected = FALSE]
         IN q \in Prompt /\ Minds(q, strays) /\ r \in Prompt /\ Minds(r, strays)
BY DEF Prompt, Minds

LEMMA ZeroIsId == 0 \in Id
BY IdSpaceAssumption DEF Id

LEMMA RegisteredCodes ==
  /\ \A code \in Registered : code \in Code
  /\ Base \in App /\ Empty \in Datum
  /\ \A app \in Queries : app \in Datum
  /\ \A key \in Keys : key \in Datum
  /\ \A text \in Pings : text \in Datum
  /\ \A name \in CanalName : name \in Datum
  /\ \A ev \in Events : ev.app \in App /\ ev.code \in Code /\ ev.data \in Datum
BY DEF Code, App, Datum

LEMMA StopKeeps ==
  ASSUME PInv, NEW c \in Client, HandleStop(c)
  PROVE  PInv'
<1>1. /\ Defined /\ prompt[c].handler = "none" /\ prompt[c] \in Prompt
      /\ Minds(prompt[c], c \in strayed)
  BY LineFacts DEF HandleStop
<1>2. NoCanalChange /\ UNCHANGED <<session, removing, heirs, ended, stopped, strayed>>
  BY DEF HandleStop, NoServerChangeBut, userVars
<1> DEFINE q == Request(c, Base, "stop", 0, Empty)
<1>3. q \in ToServer /\ q.user = prompt[c].id
  <2>1. "stop" \in Code
    BY RegisteredCodes DEF Registered
  <2>2. QED
    BY <1>1, <2>1, RequestIs, RegisteredCodes, ZeroIsId
<1> HIDE DEF q
<1>4. CASE Sent(c, q) /\ OnStop(c, prompt[c])
  <2> DEFINE p == [prompt[c] EXCEPT !.connected = FALSE]
  <2>1. p \in Prompt /\ Minds(p, c \in strayed')
    BY <1>1, <1>2, SwitchedOff
  <2>2. Becomes(c, p) /\ WithSocket(c, "closed")
    BY <1>4 DEF OnStop
  <2> HIDE DEF p
  <2>3. /\ toServer' \in [User -> Seq(ToServer)] /\ toClient' \in [User -> Seq(ToClient)]
        /\ toClient' = toClient
        /\ \A u \in User : ~Linked(c) \/ u # socket[c] => toServer'[u] = toServer[u]
        /\ Linked(c) => \A i \in DOMAIN toServer'[socket[c]] : toServer'[socket[c]][i].user = socket[c]
    BY <1>1, <1>3, <1>4, SentGives
  <2>4. QED
    BY <1>1, <1>2, <2>1, <2>2, <2>3, HangsUp
<1>5. CASE Ends(c) /\ UNCHANGED <<toServer, toClient>>
  BY <1>1, <1>2, <1>5, EndsQuietly
<1>6. QED
  BY <1>4, <1>5 DEF HandleStop, q

LEMMA OffKeeps ==
  ASSUME PInv, NEW c \in Client, HandleDisconnect(c) \/ Quit(c)
  PROVE  PInv'
<1>1. /\ Defined /\ prompt[c] \in Prompt /\ Minds(prompt[c], c \in strayed)
  BY LineFacts DEF HandleDisconnect, Quit
<1>2. NoCanalChange /\ UNCHANGED <<session, removing, heirs, ended, stopped, toServer, toClient, strayed>>
  BY DEF HandleDisconnect, Quit, NoServerChange, serverVars, userVars
<1>3. PICK p \in Prompt : Minds(p, c \in strayed') /\ Becomes(c, p) /\ WithSocket(c, "closed")
  BY <1>1, <1>2, SwitchedOff DEF HandleDisconnect, Quit, OnStop
<1>4. QED
  BY <1>1, <1>2, <1>3, HangsUpQuietly

LEMMA AwaitKeeps ==
  ASSUME PInv, NEW c \in Client, HandleAwait(c)
  PROVE  PInv'
<1>1. /\ Defined /\ prompt[c].handler = "none" /\ prompt[c] \in Prompt
      /\ Minds(prompt[c], c \in strayed) /\ prompt[c].then = Nothing
  BY LineFacts DEF HandleAwait
<1> DEFINE p == Waits(prompt[c], "print", "none")
<1>2. /\ NoCanalChange /\ UNCHANGED <<session, removing, heirs, ended, stopped, toServer, toClient, strayed, socket>>
      /\ prompt' = [prompt EXCEPT ![c] = p]
  BY DEF HandleAwait, NoServerChange, serverVars, userVars, Becomes
<1>3. p \in Prompt /\ p.handler = "print" /\ p.asked = "none" /\ p.then = Nothing /\ p.id = prompt[c].id
  BY <1>1, WaitsIs DEF Handler
<1>4. Minds(p, c \in strayed)
  BY <1>3 DEF Minds, Social, Nothing
<1> HIDE DEF p
<1>5. prompt'[c] = p /\ socket' = [socket EXCEPT ![c] = socket[c]] /\ Steady(c)
      /\ UNCHANGED <<links, peek>>
  BY <1>1, <1>2, QueuesAre DEF NoCanalChange
<1>6. Steady(c)'
  <2>1. KnowsId(c)'
    BY <1>1, <1>2, <1>3, <1>5 DEF Steady, KnowsId, Linked
  <2>2. KeepsOut(c)'
    BY <1>2, <1>4, <1>5 DEF Steady, KeepsOut, Linked
  <2>3. Linked(c) /\ c \notin strayed /\ ~stopped => AtMostOne(c)'
    BY <1>1, <1>2, <1>5 DEF Steady, AtMostOne
  <2>4. QED
    BY <1>2, <2>1, <2>2, <2>3 DEF Steady, Linked
<1>7. QED
  BY <1>1, <1>2, <1>3, <1>5, <1>6, QueuesAre, ClientKeeps

LEMMA AskingKeeps ==
  ASSUME PInv, NEW c \in Client,
         \/ HandleList(c)
         \/ \E app \in Queries : HandleQuery(c, app)
         \/ \E key \in Keys : HandleAuth(c, key)
         \/ \E text \in Pings : HandlePing(c, text)
         \/ \E name \in CanalName : HandleCanalCreate(c, name)
  PROVE  PInv'
<1>1. Defined /\ prompt[c].handler = "none"
  BY LineFacts DEF HandleList, HandleQuery, HandleAuth, HandlePing, HandleCanalCreate
<1>2. ASSUME NEW code \in {"apps", "commands", "auth", "ping", "create"}, NEW data \in Datum,
             code = "create" => data \in CanalName, NEW handler \in {"json", "print", "created"},
             Ask(c, Request(c, Base, code, 0, data), handler)
      PROVE  PInv'
  <2> DEFINE q == Request(c, Base, code, 0, data)
  <2>1. code \in Code /\ code \notin Social
    BY RegisteredCodes DEF Registered, Social
  <2>2. q \in ToServer /\ q.user = prompt[c].id /\ q.code = code
    BY <1>1, <1>2, <2>1, RequestIs, RegisteredCodes, ZeroIsId
  <2>3. handler \in Handler \ {"none", "connect"}
    BY DEF Handler
  <2>4. Ask(c, q, handler)
    BY <1>2
  <2> HIDE DEF q
  <2>5. QED
    BY <1>1, <2>1, <2>2, <2>3, <2>4, AskKeeps
<1>3. CASE HandleList(c)
  BY <1>2, <1>3, RegisteredCodes DEF HandleList
<1>4. ASSUME NEW app \in Queries, HandleQuery(c, app) PROVE PInv'
  BY <1>2, <1>4, RegisteredCodes DEF HandleQuery
<1>5. ASSUME NEW key \in Keys, HandleAuth(c, key) PROVE PInv'
  BY <1>2, <1>5, RegisteredCodes DEF HandleAuth
<1>6. ASSUME NEW text \in Pings, HandlePing(c, text) PROVE PInv'
  BY <1>2, <1>6, RegisteredCodes DEF HandlePing
<1>7. ASSUME NEW name \in CanalName, HandleCanalCreate(c, name) PROVE PInv'
  BY <1>2, <1>7, RegisteredCodes DEF HandleCanalCreate
<1>8. QED
  BY <1>3, <1>4, <1>5, <1>6, <1>7

LEMMA EventKeeps ==
  ASSUME PInv, NEW c \in Client, NEW ev \in Events, HandleEvent(c, ev)
  PROVE  PInv'
<1>1. /\ Defined /\ prompt[c].handler = "none" /\ prompt[c] \in Prompt
      /\ Minds(prompt[c], c \in strayed) /\ prompt[c].then = Nothing
  BY LineFacts DEF HandleEvent
<1>2. NoCanalChange /\ UNCHANGED <<session, removing, heirs, ended, stopped, socket>>
  BY DEF HandleEvent, NoServerChangeBut, userVars
<1> DEFINE q == Request(c, ev.app, ev.code, 0, ev.data)
<1>3. q \in ToServer /\ q.user = prompt[c].id /\ q.code = ev.code
  BY <1>1, RequestIs, RegisteredCodes, ZeroIsId, PromptAssumption
<1>4. CASE /\ Sent(c, q) /\ Becomes(c, Waits(prompt[c], "event", ev.code))
           /\ strayed' = IF ev.code \in {"message", "join"} THEN strayed \cup {c} ELSE strayed
  <2> DEFINE p == Waits(prompt[c], "event", ev.code)
  <2>1. p \in Prompt /\ p.handler = "event" /\ p.asked = ev.code /\ p.then = Nothing
        /\ p.id = prompt[c].id
    <3>1. ev.code \in Code \cup {"none"} /\ "event" \in Handler
      BY RegisteredCodes DEF Handler
    <3>2. QED
      BY <1>1, <3>1, WaitsIs
  <2> HIDE DEF p, q
  <2>2. /\ Minds(p, c \in strayed') /\ (c \in strayed => c \in strayed')
        /\ \A d \in Client : d # c => (d \in strayed' <=> d \in strayed)
    BY <1>4, <2>1 DEF Minds, Social, Nothing
  <2>3. QED
    BY <1>1, <1>2, <1>3, <1>4, <2>1, <2>2, WaitingKeeps DEF p
<1>5. CASE UNCHANGED <<toServer, toClient, prompt, strayed>>
  <2>1. /\ prompt' = [prompt EXCEPT ![c] = prompt[c]] /\ socket' = [socket EXCEPT ![c] = socket[c]]
    BY <1>1, <1>2, <1>5, QueuesAre
  <2>2. UNCHANGED <<links, peek>> /\ Steady(c)
    BY <1>1, <1>2, QueuesAre DEF NoCanalChange
  <2>3. Steady(c)'
    BY <1>2, <1>5, <2>2 DEF Steady, KnowsId, KeepsOut, Minds, AtMostOne, Linked
  <2>4. QED
    BY <1>1, <1>2, <1>5, <2>1, <2>3, QueuesAre, ClientKeeps
<1>6. QED
  BY <1>4, <1>5 DEF HandleEvent, q

LEMMA CanalLineKeeps ==
  ASSUME PInv, NEW c \in Client, NEW name \in CanalName,
         NEW code \in {"message", "join", "leave", "delete"}, HandleCanal(c, code, name)
  PROVE  PInv'
<1>1. /\ Defined /\ prompt[c].handler = "none" /\ prompt[c] \in Prompt
  BY LineFacts DEF HandleCanal
<1>2. NoCanalChange /\ UNCHANGED <<session, removing, heirs, ended, stopped>>
  BY DEF HandleCanal, UpdateCanalList, NoServerChangeBut, userVars
<1>3. /\ strayed' = IF code \in {"message", "join"} THEN strayed \cup {c} ELSE strayed
      /\ \A d \in Client : d # c => (d \in strayed' <=> d \in strayed)
      /\ c \in strayed => c \in strayed'
  BY DEF HandleCanal
<1> DEFINE q == Request(c, Base, "list", 0, Empty)
           w == Waits(prompt[c], "canals", "list")
           p == [w EXCEPT !.then = [code |-> code, name |-> name]]
<1>4. q \in ToServer /\ q.user = prompt[c].id /\ q.code = "list" /\ "list" \in Code
  <2>1. "list" \in Code
    BY RegisteredCodes DEF Registered
  <2>2. QED
    BY <1>1, <2>1, RequestIs, RegisteredCodes, ZeroIsId
<1>5. w \in Prompt /\ w.handler = "canals" /\ w.asked = "list" /\ w.id = prompt[c].id
  <2>1. "list" \in Code \cup {"none"} /\ "canals" \in Handler
    BY <1>4 DEF Handler
  <2>2. QED
    BY <1>1, <2>1, WaitsIs
<1> HIDE DEF q, w
<1>6. p \in Prompt /\ p.handler = "canals" /\ p.asked = "list" /\ p.id = prompt[c].id
      /\ p.then.code = code
  BY <1>5 DEF Prompt
<1> HIDE DEF p
<1>7. Minds(p, c \in strayed')
  BY <1>3, <1>6 DEF Minds, Social
<1>8. CASE Sent(c, q) /\ Becomes(c, p) /\ UNCHANGED socket
  BY <1>1, <1>2, <1>3, <1>4, <1>6, <1>7, <1>8, WaitingKeeps
<1>9. CASE Ends(c) /\ UNCHANGED <<toServer, toClient>>
  BY <1>1, <1>2, <1>3, <1>9, EndsQuietly
<1>10. QED
  BY <1>8, <1>9 DEF HandleCanal, UpdateCanalList, p, q, w

LEMMA AcceptKeeps ==
  ASSUME PInv, NEW c \in Client, NEW u \in User, Ready(c, "connect"), AcceptSession(u),
         WithSocket(c, u), Becomes(c, Waits(prompt[c], "connect", "connected")),
         strayed' = IF u \in heirs' THEN strayed \cup {c} ELSE strayed \ {c}
  PROVE  PInv'
<1> DEFINE p == Waits(prompt[c], "connect", "connected")
<1>1. /\ Defined /\ prompt[c] \in Prompt /\ prompt[c].then = Nothing
      /\ Good /\ Consistent /\ WireTypes /\ RequestsCarryOwnId
  BY LineFacts DEF PInv, Good
<1>2. /\ p \in Prompt /\ p.handler = "connect" /\ p.asked = "connected" /\ p.then = Nothing
  <2>1. "connected" \in Code \cup {"none"} /\ "connect" \in Handler
    BY Codes DEF Handler
  <2>2. QED
    BY <1>1, <2>1, WaitsIs
<1> HIDE DEF p
<1>3. /\ peek = None /\ session[u] = "free"
      /\ heirs' = IF removing = u THEN heirs \cup {u} ELSE heirs \ {u}
      /\ session' = [session EXCEPT ![u] = "open"]
      /\ toClient' = [toClient EXCEPT ![u] = <<Greeting(u)>>]
      /\ toServer' = [toServer EXCEPT ![u] = <<>>]
      /\ UNCHANGED <<removing, links, leaving, peek, stopped, ended>> /\ NoCanalChange
  BY DEF AcceptSession, NetworkReady, Greeting, NoCanalChange
<1>4. Consistent' /\ Defined'
  BY <1>1, <1>3, NoChangeKeeps
<1>5. RequestsCarryOwnId'
  BY <1>1, <1>3 DEF RequestsCarryOwnId, WireTypes
<1>6. /\ prompt' = [prompt EXCEPT ![c] = p] /\ socket' = [socket EXCEPT ![c] = u]
      /\ prompt'[c] = p /\ socket'[c] = u
      /\ \A d \in Client : d # c => socket'[d] = socket[d] /\ prompt'[d] = prompt[d]
  BY <1>1 DEF Becomes, WithSocket, WireTypes, p
<1>7. Greeting(u) \in ToClient /\ Greeting(u).code = "connected"
  BY Contents, Codes, OnWires DEF Greeting
<1>8. WireTypes'
  <2>1. <<Greeting(u)>> \in Seq(ToClient) /\ <<>> \in Seq(ToServer)
    BY <1>7
  <2>2. QED
    BY <1>1, <1>2, <1>3, <1>6, <2>1 DEF WireTypes
<1>9. \A d \in Client : Linked(d) => socket[d] # u /\ socket[d] \in User /\ session[socket[d]] = "open"
  BY <1>1, <1>3 DEF Good, Sessions, Linked
<1>10. session'[u] = "open" /\ \A v \in User : v # u => session'[v] = session[v]
  BY <1>1, <1>3 DEF WireTypes
<1>11. u \notin heirs' => links[u] = {}
  BY <1>1, <1>3 DEF Good, Sessions
<1>12. Sessions'
  <2>1. \A d \in Client : Linked(d)' => d = c \/ (d # c /\ Linked(d) /\ socket'[d] = socket[d])
    BY <1>6 DEF Linked
  <2>2. (\A d \in Client : Linked(d) => session[socket[d]] = "open")'
    BY <1>6, <1>9, <1>10, <2>1
  <2>3. (\A d, e \in Client : Linked(d) /\ Linked(e) /\ socket[d] = socket[e] => d = e)'
    BY <1>1, <1>6, <1>9, <2>1 DEF Good, Sessions
  <2>4. /\ (leaving # None => removing = leaving.user)'
        /\ (removing # None /\ session[removing] = "erased" => leaving = None)'
    BY <1>1, <1>3, <1>10 DEF Good, Sessions, WireTypes
  <2>5. /\ (\A v \in User : session[v] = "free" /\ removing # v => links[v] = {})'
        /\ (\A v \in User : session[v] = "open" /\ v \notin heirs => removing # v)'
    BY <1>1, <1>3, <1>10 DEF Good, Sessions
  <2>6. QED
    BY <2>2, <2>3, <2>4, <2>5 DEF Sessions
<1>13. ASSUME NEW d \in Client, d # c PROVE Steady(d)'
  <2>1. Steady(d)
    BY <1>1 DEF Good
  <2>2. Linked(d) => Moves(d, socket[d])
    <3>1. Linked(d) => toServer'[socket[d]] = toServer[socket[d]] /\ toClient'[socket[d]] = toClient[socket[d]]
      BY <1>1, <1>3, <1>9 DEF WireTypes
    <3>2. QED
      BY <3>1 DEF Moves
  <2>3. Linked(d) /\ d \notin strayed =>
          links'[socket[d]] = {} /\ (peek' # None => peek'.user # socket[d])
    BY <1>3, <2>1 DEF Steady, KeepsOut
  <2>4. prompt'[d] = prompt[d] /\ socket'[d] = socket[d] /\ (d \in strayed' <=> d \in strayed)
    BY <1>6, <1>13
  <2>5. QED
    BY <1>1, <1>3, <1>8, <2>1, <2>2, <2>3, <2>4, SteadyKept
<1>14. Steady(c)'
  <2>1. toClient'[u] = <<Greeting(u)>> /\ toServer'[u] = <<>>
    BY <1>1, <1>3 DEF WireTypes
  <2>2. <<Greeting(u)>> # <<>> /\ Head(<<Greeting(u)>>) = Greeting(u) /\ Len(<<Greeting(u)>>) = 1
    OBVIOUS
  <2>3. KnowsId(c)'
    BY <1>2, <1>6, <2>1, <2>2 DEF KnowsId, Greeting
  <2>4. Minds(p, c \in strayed')
    BY <1>2 DEF Minds, Social, Nothing
  <2>5. KeepsOut(c)'
    BY <1>3, <1>6, <1>11, <2>4 DEF KeepsOut
  <2>6. AtMostOne(c)'
    <3>1. /\ toClient'[socket'[c]] = <<Greeting(u)>> /\ toServer'[socket'[c]] = <<>>
          /\ prompt'[c].asked = Greeting(u).code /\ prompt'[c].handler # "none"
      BY <1>2, <1>6, <1>7, <2>1
    <3> HIDE <1>1, <1>2, <1>3, <1>6, <2>1
    <3>2. QED
      BY <2>2, <3>1 DEF AtMostOne
  <2>7. QED
    BY <2>3, <2>5, <2>6 DEF Steady
<1>15. QED
  BY <1>4, <1>5, <1>8, <1>12, <1>13, <1>14 DEF PInv, Good

LEMMA ConnectKeeps ==
  ASSUME PInv, NEW c \in Client, NEW address, HandleConnect(c, address)
  PROVE  PInv'
<1>1. /\ Defined /\ prompt[c] \in Prompt /\ prompt[c].then = Nothing
      /\ Minds(prompt[c], c \in strayed)
  BY LineFacts DEF HandleConnect
<1>2. CASE WithSocket(c, "closed") /\ NoServerChange /\ UNCHANGED <<prompt, strayed>>
  <2>1. Becomes(c, prompt[c])
    BY <1>1, <1>2, QueuesAre DEF Becomes
  <2>2. QED
    BY <1>1, <1>2, <2>1, HangsUpQuietly DEF NoServerChange, serverVars, userVars
<1>3. CASE /\ WithSocket(c, "broken") \/ WithSocket(c, "backlog")
           /\ NoServerChange
           /\ Becomes(c, Waits(prompt[c], "connect", "connected")) /\ UNCHANGED strayed
  <2> DEFINE p == Waits(prompt[c], "connect", "connected")
  <2>1. "connected" \in Code \cup {"none"} /\ "connect" \in Handler
    BY Codes DEF Handler
  <2>2. p \in Prompt /\ p.handler = "connect" /\ p.asked = "connected" /\ p.then = Nothing
    BY <1>1, <2>1, WaitsIs
  <2> HIDE DEF p
  <2>3. Minds(p, c \in strayed')
    BY <2>2 DEF Minds, Social, Nothing
  <2>4. QED
    BY <1>1, <1>3, <2>2, <2>3, HangsUpQuietly DEF NoServerChange, serverVars, userVars, p
<1>4. CASE \E u \in User : /\ AcceptSession(u) /\ WithSocket(c, u)
                           /\ Becomes(c, Waits(prompt[c], "connect", "connected"))
                           /\ strayed' = IF u \in heirs' THEN strayed \cup {c} ELSE strayed \ {c}
  BY <1>4, AcceptKeeps DEF HandleConnect
<1>5. QED
  BY <1>2, <1>3, <1>4 DEF HandleConnect
-----------------------------------------------------------------------------
(* Receive. *)

\* Only a stopped server's process ends.
LEMMA EndedIsStopped ==
  ASSUME PInv, Defined, ended
  PROVE  stopped
BY DEF PInv, Good, WireTypes

LEMMA ThrowKeeps ==
  ASSUME PInv, NEW c \in Client, ReceiveThrows(c)
  PROVE  PInv'
<1>1. /\ Defined /\ prompt[c] \in Prompt /\ Steady(c)
      /\ NoCanalChange /\ UNCHANGED <<session, removing, heirs, ended, stopped, toServer, toClient, strayed, links, peek>>
      /\ Linked(c) => stopped
  BY QueuesAre, UserIsNoMark, EndedIsStopped
     DEF ReceiveThrows, NoServerChange, NoCanalChange, serverVars, userVars, PeerGone, Linked
<1>2. CASE Becomes(c, Idle(prompt[c])) /\ UNCHANGED socket
  <2> DEFINE p == Idle(prompt[c])
  <2>1. p \in Prompt /\ p.handler = "none" /\ Minds(p, c \in strayed)
    BY <1>1, IdleIs
  <2>2. /\ prompt' = [prompt EXCEPT ![c] = p] /\ prompt'[c] = p
        /\ socket' = [socket EXCEPT ![c] = socket[c]] /\ socket'[c] = socket[c]
    BY <1>1, <1>2, QueuesAre DEF Becomes
  <2> HIDE DEF p
  <2>3. Steady(c)'
    BY <1>1, <2>1, <2>2 DEF Steady, KnowsId, KeepsOut, Linked
  <2>4. QED
    BY <1>1, <2>1, <2>2, <2>3, QueuesAre, ClientKeeps
<1>3. CASE Ends(c)
  BY <1>1, <1>3, EndsQuietly
<1>4. QED
  BY <1>2, <1>3 DEF ReceiveThrows

\* The event read is gone, and nothing else at the client's end of its session.
LEMMA ReadGives ==
  ASSUME PInv, Defined, NEW c \in Client, Linked(c), toClient[socket[c]] # <<>>,
         toClient' = [toClient EXCEPT ![socket[c]] = Tail(@)]
  PROVE  /\ toClient' \in [User -> Seq(ToClient)] /\ toClient'[socket[c]] = Tail(toClient[socket[c]])
         /\ \A u \in User : u # socket[c] => toClient'[u] = toClient[u]
BY QueuesAre, QueueFacts

LEMMA TakeAndEndKeeps ==
  ASSUME PInv, Defined, NEW c \in Client, Linked(c), toClient[socket[c]] # <<>>,
         toClient' = [toClient EXCEPT ![socket[c]] = Tail(@)], Ends(c), UNCHANGED toServer,
         NoCanalChange, UNCHANGED <<session, removing, heirs, ended, stopped, strayed>>
  PROVE  PInv'
<1>1. Ended(prompt[c]) \in Prompt /\ Minds(Ended(prompt[c]), c \in strayed')
  BY QueuesAre, EndedIs
<1>2. /\ toClient' \in [User -> Seq(ToClient)]
      /\ \A u \in User : u # socket[c] => toClient'[u] = toClient[u]
  BY ReadGives
<1>3. /\ toServer' \in [User -> Seq(ToServer)]
      /\ \A i \in DOMAIN toServer'[socket[c]] : toServer'[socket[c]][i].user = socket[c]
  BY QueuesAre
<1>4. QED
  BY <1>1, <1>2, <1>3, HangsUp DEF Ends

LEMMA TailOfOne == ASSUME NEW S, NEW s \in Seq(S), Len(s) = 1 PROVE Tail(s) = <<>>
<1>1. Tail(s) \in Seq(S) /\ Len(Tail(s)) = 0
  <2>1. s # <<>>
    OBVIOUS
  <2>2. QED
    BY <2>1, QueueFacts
<1>2. QED
  BY <1>1, QueueFacts

\* The event is read, and the handler ends or goes on with a request of its own.
LEMMA TakeKeeps ==
  ASSUME PInv, Defined, NEW c \in Client, Linked(c), toClient[socket[c]] # <<>>,
         prompt[c].handler # "none",
         NEW p \in Prompt, p.handler # "connect", ~stopped => p.id = socket[c],
         Minds(p, c \in strayed),
         NEW requests,
         \/ requests = <<>>
         \/ \E q \in ToServer :
              /\ requests = <<q>> /\ q.user = prompt[c].id /\ prompt[c].handler # "connect"
              /\ c \notin strayed => q.code = p.asked /\ p.handler # "none",
         Take(c, p, requests), NoCanalChange, UNCHANGED <<session, removing, heirs, ended, stopped, strayed>>
  PROVE  PInv'
<1> DEFINE u == socket[c]
           s == toServer[u]
           t == toClient[u]
<1>1. toClient' = [toClient EXCEPT ![u] = Tail(@)]
  BY DEF Take
<1>2. CASE Ends(c) /\ UNCHANGED toServer
  BY <1>1, <1>2, TakeAndEndKeeps
<1>3. CASE Becomes(c, p) /\ UNCHANGED socket
  <2>1. /\ s \in Seq(ToServer) /\ t \in Seq(ToClient) /\ u \in User /\ Steady(c)
        /\ UNCHANGED <<links, peek>>
    BY QueuesAre DEF NoCanalChange
  <2>2. /\ toClient' \in [User -> Seq(ToClient)] /\ toClient'[u] = Tail(t)
        /\ \A v \in User : v # u => toClient'[v] = toClient[v]
    BY <1>1, ReadGives
  <2>3. \/ UNCHANGED toServer
        \/ ~stopped /\ \E q \in ToServer :
             /\ requests = <<q>> /\ q.user = prompt[c].id /\ prompt[c].handler # "connect"
             /\ c \notin strayed => q.code = p.asked /\ p.handler # "none"
             /\ toServer' = [toServer EXCEPT ![u] = Append(@, q)]
    <3>1. CASE toServer' = [toServer EXCEPT ![u] = @ \o requests] /\ (~stopped \/ requests = <<>>)
      <4>1. CASE requests = <<>>
        <5>1. s \o requests = s
          BY <2>1, <4>1
        <5>2. QED
          BY <2>1, <3>1, <5>1, QueuesAre
      <4>2. ASSUME NEW q \in ToServer, requests = <<q>> PROVE s \o requests = Append(s, q)
        BY <2>1, <4>2
      <4>3. CASE requests # <<>>
        <5>1. PICK q \in ToServer :
                /\ requests = <<q>> /\ q.user = prompt[c].id /\ prompt[c].handler # "connect"
                /\ c \notin strayed => q.code = p.asked /\ p.handler # "none"
          BY <4>3
        <5>2. toServer' = [toServer EXCEPT ![u] = Append(@, q)]
          BY <2>1, <3>1, <4>2, <5>1
        <5>3. QED
          BY <3>1, <4>3, <5>1, <5>2
      <4>4. QED
        BY <4>1, <4>3
    <3>2. QED
      BY <3>1 DEF Take
  <2>4. /\ prompt' = [prompt EXCEPT ![c] = p] /\ prompt'[c] = p
        /\ socket' = [socket EXCEPT ![c] = socket[c]] /\ socket'[c] = socket[c]
    BY <1>3, QueuesAre DEF Becomes
  <2>5. Linked(c)'
    BY <2>4 DEF Linked
  <2>6. KnowsId(c)' /\ KeepsOut(c)'
    BY <2>1, <2>4, <2>5 DEF Steady, KnowsId, KeepsOut
  <2>7. \A i \in DOMAIN s : s[i].user = u
    BY QueuesAre
  <2>8. CASE UNCHANGED toServer
    <3>1. ASSUME c \notin strayed, ~stopped PROVE AtMostOne(c)'
      <4>1. s = <<>> /\ Len(t) = 1
        BY <2>1, <3>1 DEF Steady, AtMostOne
      <4>2. Tail(t) = <<>>
        BY <2>1, <4>1, TailOfOne
      <4>3. QED
        BY <2>2, <2>4, <2>8, <4>1, <4>2 DEF AtMostOne
    <3>2. Steady(c)'
      BY <2>5, <2>6, <3>1 DEF Steady
    <3>3. QED
      BY <2>2, <2>4, <2>7, <2>8, <3>2, QueuesAre, ClientKeeps
  <2>9. ASSUME ~stopped, NEW q \in ToServer, q.user = prompt[c].id, prompt[c].handler # "connect",
               c \notin strayed => q.code = p.asked /\ p.handler # "none",
               toServer' = [toServer EXCEPT ![u] = Append(@, q)]
        PROVE  PInv'
    <3>1. /\ toServer'[u] = Append(s, q) /\ \A v \in User : v # u => toServer'[v] = toServer[v]
          /\ toServer' \in [User -> Seq(ToServer)]
      BY <2>1, <2>9, QueuesAre, QueueFacts
    <3>2. q.user = u
      BY <2>1, <2>9 DEF Steady, KnowsId
    <3>3. \A i \in DOMAIN toServer'[u] : toServer'[u][i].user = u
      BY <2>1, <2>7, <3>1, <3>2, AppendOwn
    <3>4. ASSUME c \notin strayed, ~stopped PROVE AtMostOne(c)'
      <4>1. s = <<>> /\ Len(t) = 1
        BY <2>1, <3>4 DEF Steady, AtMostOne
      <4>2. Tail(t) = <<>> /\ Len(Append(<<>>, q)) = 1 /\ Head(Append(<<>>, q)) = q
        BY <2>1, <4>1, TailOfOne
      <4>3. /\ toClient'[socket'[c]] = <<>> /\ toServer'[socket'[c]] = Append(<<>>, q)
            /\ prompt'[c].asked = q.code /\ prompt'[c].handler # "none"
        BY <2>2, <2>4, <2>9, <3>1, <3>4, <4>1, <4>2
      <4> HIDE <1>1, <2>2, <2>4, <2>9, <3>1, <4>1
      <4>4. QED
        BY <4>2, <4>3 DEF AtMostOne
    <3>5. Steady(c)'
      BY <2>5, <2>6, <3>4 DEF Steady
    <3>6. QED
      BY <2>2, <2>4, <3>1, <3>3, <3>5, ClientKeeps
  <2>10. QED
    BY <2>3, <2>8, <2>9
<1>4. QED
  BY <1>2, <1>3 DEF Take

\* What follows the list: the canals it names are known by their ids.
LEMMA AfterListKeeps ==
  ASSUME PInv, Defined, NEW c \in Client, Linked(c), toClient[socket[c]] # <<>>,
         prompt[c].handler = "canals",
         NEW p \in Prompt, p.id = prompt[c].id, p.then = prompt[c].then,
         AfterList(c, p), NoCanalChange, UNCHANGED <<session, removing, heirs, ended, stopped, strayed>>
  PROVE  PInv'
<1> DEFINE name == p.then.name
           code == p.then.code
           known == name \in DOMAIN p.canals
           request == Request(c, Base, code, p.canals[name], Empty)
<1>1. ~stopped => p.id = socket[c]
  BY QueuesAre DEF Steady, KnowsId
<1>2. code \in Social => c \in strayed
  BY QueuesAre DEF Steady, KeepsOut, Minds
<1>3. Idle(p) \in Prompt /\ Idle(p).handler = "none" /\ Idle(p).id = p.id
      /\ Minds(Idle(p), c \in strayed)
  BY IdleIs
<1>4. ASSUME NEW asked \in {"none", "join", "leave", "delete"}, asked \in Social => c \in strayed
      PROVE  LET w == Waits(Idle(p), "print", asked)
             IN w \in Prompt /\ w.handler = "print" /\ w.asked = asked /\ w.id = p.id
                /\ Minds(w, c \in strayed)
  <2> DEFINE w == Waits(Idle(p), "print", asked)
  <2>1. asked \in Code \cup {"none"} /\ "print" \in Handler
    BY RegisteredCodes DEF Registered, Handler
  <2>2. w \in Prompt /\ w.handler = "print" /\ w.asked = asked /\ w.id = p.id /\ w.then = Idle(p).then
    BY <1>3, <2>1, WaitsIs
  <2>3. w.then.code \notin Social
    BY <1>3, <2>2 DEF Minds, Nothing, Social
  <2> HIDE DEF w
  <2>4. QED
    BY <1>4, <2>2, <2>3 DEF Minds, w
<1>5. ASSUME code \in {"message", "join", "leave", "delete"}, known
      PROVE  request \in ToServer /\ request.user = prompt[c].id /\ request.code = code
  <2>1. p.canals[name] \in Id
    BY <1>5, PromptFields DEF Dictionary
  <2>2. code \in Code
    BY <1>5, RegisteredCodes DEF Registered
  <2>3. QED
    BY <1>5, <2>1, <2>2, RequestIs, RegisteredCodes
<1> HIDE DEF request
<1>6. ASSUME Take(c, Idle(p), <<>>) PROVE PInv'
  BY <1>1, <1>3, <1>6, TakeKeeps
<1>7. CASE code = "message" /\ known /\ Take(c, Idle(p), <<request>>)
  BY <1>1, <1>2, <1>3, <1>5, <1>7, TakeKeeps DEF Social
<1>8. CASE /\ code \in {"join", "leave", "delete"} /\ known
           /\ Take(c, Waits(Idle(p), "print", code), <<request>>)
  <2> DEFINE w == Waits(Idle(p), "print", code)
  <2>1. w \in Prompt /\ w.handler = "print" /\ w.asked = code /\ w.id = p.id
        /\ Minds(w, c \in strayed)
    BY <1>2, <1>4, <1>8
  <2>2. Take(c, w, <<request>>)
    BY <1>8
  <2> HIDE DEF w
  <2>3. QED
    BY <1>1, <1>5, <1>8, <2>1, <2>2, TakeKeeps
<1>9. CASE code = "join" /\ Take(c, Waits(Idle(p), "print", "none"), <<>>)
  <2> DEFINE w == Waits(Idle(p), "print", "none")
  <2>1. w \in Prompt /\ w.handler = "print" /\ w.id = p.id /\ Minds(w, c \in strayed)
    BY <1>4 DEF Social
  <2>2. Take(c, w, <<>>)
    BY <1>9
  <2> HIDE DEF w
  <2>3. QED
    BY <1>1, <2>1, <2>2, TakeKeeps
<1>10. QED
  BY <1>6, <1>7, <1>8, <1>9 DEF AfterList, request

LEMMA ReceiveEventKeeps ==
  ASSUME PInv, NEW c \in Client, ReceiveEvent(c)
  PROVE  PInv'
<1> DEFINE e == Head(toClient[socket[c]])
           p == prompt[c]
<1>1. /\ Defined /\ Linked(c) /\ toClient[socket[c]] # <<>> /\ p.handler # "none"
      /\ Handle(c, e, p) /\ NoCanalChange /\ UNCHANGED <<session, removing, heirs, ended, stopped, strayed>>
  BY DEF ReceiveEvent, NoServerChangeBut, userVars
<1>2. p \in Prompt /\ Steady(c) /\ e \in ToClient
  BY <1>1, QueuesAre, QueueFacts
<1>3. p.handler # "connect" /\ ~stopped => p.id = socket[c]
  BY <1>1, <1>2 DEF Steady, KnowsId
<1>4. Minds(p, c \in strayed)
  BY <1>2 DEF Steady, KeepsOut
<1>5. Idle(p) \in Prompt /\ Idle(p).handler = "none" /\ Idle(p).id = p.id
      /\ Minds(Idle(p), c \in strayed)
  BY <1>2, IdleIs
<1>6. p.handler = "connect" => e = Greeting(socket[c])
  BY <1>1, <1>2 DEF Steady, KnowsId
<1> HIDE DEF e
<1>7. CASE p.handler = "connect" /\ Take(c, Connected(p, e), <<>>)
  <2> DEFINE r == Connected(p, e)
  <2>1. e.data[2] = socket[c] /\ socket[c] \in User
    BY <1>1, <1>6, <1>7 DEF Greeting, OnWire, Linked
  <2>2. r \in Prompt /\ r.handler = "none" /\ r.id = socket[c]
        /\ r.asked = Idle(p).asked /\ r.then = Idle(p).then
    BY <1>5, <2>1 DEF Connected, Prompt
  <2>3. Minds(r, c \in strayed)
    BY <1>5, <2>2 DEF Minds
  <2> HIDE DEF r
  <2>4. QED
    BY <1>1, <1>7, <2>2, <2>3, TakeKeeps DEF r
<1>8. CASE p.handler # "connect" /\ Take(c, Idle(p), <<>>)
  BY <1>1, <1>3, <1>5, <1>8, TakeKeeps
<1>9. CASE TakeAndEnd(c)
  BY <1>1, <1>9, TakeAndEndKeeps DEF TakeAndEnd
<1>10. CASE /\ p.handler = "created"
            /\ Take(c, Waits(p, "canals", "list"), <<Request(c, Base, "list", 0, Empty)>>)
  <2> DEFINE w == Waits(p, "canals", "list")
             q == Request(c, Base, "list", 0, Empty)
  <2>1. "list" \in Code /\ "list" \in Code \cup {"none"} /\ "canals" \in Handler
    BY RegisteredCodes DEF Registered, Handler
  <2>2. w \in Prompt /\ w.handler = "canals" /\ w.asked = "list" /\ w.id = p.id /\ w.then = p.then
    BY <1>2, <2>1, WaitsIs
  <2>3. q \in ToServer /\ q.user = p.id /\ q.code = "list"
    BY <1>1, <2>1, RequestIs, RegisteredCodes, ZeroIsId
  <2> HIDE DEF w, q
  <2>4. Minds(w, c \in strayed)
    BY <1>4, <2>2 DEF Minds, Social
  <2>5. QED
    BY <1>1, <1>3, <1>10, <2>2, <2>3, <2>4, TakeKeeps DEF w, q
<1>11. CASE p.handler = "canals" /\ AfterList(c, p)
  BY <1>1, <1>2, <1>11, AfterListKeeps
<1>12. CASE p.handler = "canals" /\ Readable(e, "canals") /\ AfterList(c, [p EXCEPT !.canals = e.data[2]])
  <2> DEFINE r == [p EXCEPT !.canals = e.data[2]]
  <2>1. e.data \in Content /\ e.data[1] = "canals"
    BY <1>2, <1>12 DEF Readable, ToClient
  <2>2. e.data[2] \in Dictionary
    BY <2>1 DEF Content, Text, Echo
  <2>3. r \in Prompt /\ r.id = p.id /\ r.then = p.then
    BY <1>2, <2>2 DEF Prompt
  <2> HIDE DEF r
  <2>4. QED
    BY <1>1, <1>12, <2>3, AfterListKeeps DEF r
<1>13. QED
  BY <1>1, <1>7, <1>8, <1>9, <1>10, <1>11, <1>12 DEF Handle
-----------------------------------------------------------------------------
LEMMA TypeKeeps ==
  ASSUME PInv, NEW c \in Client, Type(c)
  PROVE  PInv'
BY ConnectKeeps, StopKeeps, OffKeeps, AskingKeeps, AwaitKeeps, EventKeeps, CanalLineKeeps DEF Type

LEMMA InitPInv == InitPrompt => PInv
<1> SUFFICES ASSUME InitPrompt PROVE PInv
  OBVIOUS
<1>1. /\ Init /\ session = [u \in User |-> "free"] /\ stopped = FALSE
      /\ removing = None /\ heirs = {} /\ ended = FALSE
      /\ toServer = [u \in User |-> <<>>] /\ toClient = [u \in User |-> <<>>]
      /\ prompt = [c \in Client |-> NewPrompt] /\ socket = [c \in Client |-> "closed"]
  BY DEF InitPrompt, InitServer
<1>2. Consistent
  BY <1>1, InitIInv DEF IInv, Init, Defined
<1>3. NewPrompt \in Prompt /\ NewPrompt.handler = "none" /\ Minds(NewPrompt, FALSE)
  <2>1. NoCanals \in Dictionary
    BY DEF NoCanals, Dictionary
  <2>2. Nothing \in [code : {"none", "message", "join", "leave", "delete"}, name : CanalName \cup {Empty}]
    BY DEF Nothing
  <2>3. NewPrompt \in Prompt
    BY <2>1, <2>2 DEF NewPrompt, Prompt
  <2>4. QED
    BY <2>3 DEF NewPrompt, Minds, Nothing, Social
<1>4. WireTypes
  <2>1. toServer \in [User -> Seq(ToServer)] /\ toClient \in [User -> Seq(ToClient)]
    <3>1. <<>> \in Seq(ToServer) /\ <<>> \in Seq(ToClient)
      OBVIOUS
    <3>2. QED
      BY <1>1, <3>1
  <2>2. prompt \in [Client -> Prompt]
    BY <1>1, <1>3
  <2>3. QED
    BY <1>1, <2>1, <2>2 DEF WireTypes
<1>5. \A c \in Client : ~Linked(c) /\ socket[c] = "closed"
  BY <1>1, UserIsNoMark DEF Linked
<1>6. Sessions
  BY <1>1, <1>5 DEF Sessions, Init
<1>7. \A c \in Client : Steady(c)
  BY <1>1, <1>3, <1>5 DEF Steady, KnowsId, KeepsOut, Minds
<1>8. RequestsCarryOwnId
  BY <1>1 DEF RequestsCarryOwnId
<1>9. QED
  BY <1>2, <1>4, <1>6, <1>7, <1>8 DEF PInv, Good

LEMMA StutterKeeps == PInv /\ UNCHANGED allVars => PInv'
<1> SUFFICES ASSUME PInv, UNCHANGED allVars PROVE PInv'
  OBVIOUS
<1>1. UNCHANGED <<clientVars, session, removing, heirs, stopped, ended, toServer, toClient, canalVars>>
  BY DEF allVars, serverVars, userVars
<1>2. RequestsCarryOwnId'
  BY <1>1 DEF PInv, RequestsCarryOwnId
<1>3. ASSUME Defined' PROVE Good'
  <2>1. Good /\ Consistent
    BY <1>1, <1>3 DEF PInv, Good, Defined, canalVars
  <2>2. Consistent'
    BY <1>1, <2>1 DEF canalVars, Consistent, TypeOK, LinksAreMemberships, LinkedTo, NamesAndIds,
       MarkedInUse, CanalIdsAccounted, CheckedCanalExists, WithinLimit, Gone, MutexFree, Defined
  <2>3. WireTypes' /\ Sessions'
    BY <1>1, <2>1 DEF Good, WireTypes, Sessions, Linked, clientVars, canalVars
  <2>4. ASSUME NEW c \in Client PROVE Steady(c)'
    BY <1>1, <2>1 DEF Good, Steady, KnowsId, KeepsOut, Minds, AtMostOne, Linked, clientVars, canalVars
  <2>5. QED
    BY <2>2, <2>3, <2>4 DEF Good
<1>4. QED
  BY <1>2, <1>3 DEF PInv

LEMMA PInvInductive == SpecPrompt => []PInv
<1>1. PInv /\ [NextPrompt]_allVars => PInv'
  <2> SUFFICES ASSUME PInv, [NextPrompt]_allVars PROVE PInv'
    OBVIOUS
  <2>1. CASE ServerStep
    BY <2>1, ServerStepKeeps
  <2>2. ASSUME NEW c \in Client, Type(c) PROVE PInv'
    BY <2>2, TypeKeeps
  <2>3. ASSUME NEW c \in Client, ReceiveEvent(c) PROVE PInv'
    BY <2>3, ReceiveEventKeeps
  <2>4. ASSUME NEW c \in Client, ReceiveThrows(c) PROVE PInv'
    BY <2>4, ThrowKeeps
  <2>5. CASE UNCHANGED allVars
    BY <2>5, StutterKeeps
  <2>6. QED
    BY <2>1, <2>2, <2>3, <2>4, <2>5 DEF NextPrompt
<1>2. QED
  BY InitPInv, <1>1, PTL DEF SpecPrompt

\* Whatever its user types and however often it reconnects, a client's requests
\* bear the id of the session they come through (NecterePrompt::HandleConnect
\* sets m_ID, Application::Treat trusts it).
THEOREM OwnIdTheorem == SpecPrompt => []RequestsCarryOwnId
<1>1. PInv => RequestsCarryOwnId
  BY DEF PInv
<1>2. QED
  BY PInvInductive, <1>1, PTL

\* A client that keeps out of the canals, and did not inherit its id from one that
\* was in some, gets its answers in step with its requests (NecterePrompt's
\* handlers take the next event for their answer).
THEOREM InStepTheorem == SpecPrompt => []InStep
<1>1. ASSUME PInv PROVE InStep
  <2> SUFFICES ASSUME NEW c \in Client, Up, Linked(c), c \notin strayed
               PROVE  /\ Len(Pending(c)) <= 1
                      /\ \A i \in DOMAIN Pending(c) : Pending(c)[i].code = prompt[c].asked
    BY DEF InStep
  <2> DEFINE s == toServer[socket[c]]
             t == toClient[socket[c]]
             asked == prompt[c].asked
  <2>1. Defined /\ ~stopped
    BY DEF Up
  <2>2. s \in Seq(ToServer) /\ t \in Seq(ToClient) /\ Steady(c)
    BY <1>1, <2>1, QueuesAre
  <2>3. AtMostOne(c)
    BY <2>1, <2>2 DEF Steady
  <2>4. Pending(c) = s \o t
    BY DEF Pending
  <2>5. CASE s = <<>> /\ t = <<>>
    BY <2>4, <2>5
  <2>6. CASE s # <<>>
    <3>1. t = <<>> /\ Len(s) = 1 /\ Head(s).code = asked
      BY <2>3, <2>6 DEF AtMostOne
    <3> HIDE DEF s, t, asked
    <3>2. Pending(c) = s
      BY <2>2, <2>4, <3>1
    <3>3. DOMAIN s = {1} /\ Head(s) = s[1]
      BY <2>2, <2>6, <3>1
    <3>4. Len(s) <= 1 /\ \A i \in DOMAIN s : s[i].code = asked
      BY <3>1, <3>3
    <3>5. QED
      BY <3>2, <3>4, Zenon DEF asked
  <2>7. CASE t # <<>>
    <3>1. s = <<>> /\ Len(t) = 1 /\ Head(t).code = asked
      BY <2>3, <2>7 DEF AtMostOne
    <3> HIDE DEF s, t, asked
    <3>2. Pending(c) = t
      BY <2>2, <2>4, <3>1
    <3>3. DOMAIN t = {1} /\ Head(t) = t[1]
      BY <2>2, <2>7, <3>1
    <3>4. Len(t) <= 1 /\ \A i \in DOMAIN t : t[i].code = asked
      BY <3>1, <3>3
    <3>5. QED
      BY <3>2, <3>4, Zenon DEF asked
  <2>8. QED
    BY <2>5, <2>6, <2>7
<1>2. QED
  BY PInvInductive, <1>1, PTL

\* The canals of a server with its clients, which asks of CanalManager what it
\* asks and when it does, are as consistent as CanalManager alone keeps them:
\* memberships and links, names and ids, limits, marks and ids in use agree, and a
\* canal checked for is there unless LeaveAllCanal has just deleted it.
THEOREM CanalsWithClients ==
  SpecPrompt => [](LinksAreMemberships /\ NamesAndIds /\ MarkedInUse /\ CanalIdsAccounted
                   /\ CheckedCanalExists /\ WithinLimit)
<1>1. PInv => LinksAreMemberships /\ NamesAndIds /\ MarkedInUse /\ CanalIdsAccounted
              /\ CheckedCanalExists /\ WithinLimit
  BY DEF PInv, Good, Consistent, LinksAreMemberships, NamesAndIds, MarkedInUse,
         CanalIdsAccounted, CheckedCanalExists, WithinLimit
<1>2. QED
  BY PInvInductive, <1>1, PTL

\* No two clients ever share a session, and one that is linked has it open.  What
\* comes through it may still be meant for the id's last owner: UserManager frees
\* an id before its canals are left.  But only heirs are exposed to that: no other
\* linked client's id is being removed, and no other free id is in any canal
\* (AcceptSession, OnClose, UserManager::RemoveUserInstant).
THEOREM SessionsApart ==
  SpecPrompt =>
    [](Defined =>
         /\ \A c \in Client : Linked(c) => session[socket[c]] = "open"
         /\ \A c, d \in Client : Linked(c) /\ Linked(d) /\ socket[c] = socket[d] => c = d
         /\ \A c \in Client : Linked(c) /\ socket[c] \notin heirs => removing # socket[c]
         /\ \A u \in User : session[u] = "free" /\ removing # u => links[u] = {})
<1>1. ASSUME PInv, Defined
      PROVE  /\ \A c \in Client : Linked(c) => session[socket[c]] = "open"
             /\ \A c, d \in Client : Linked(c) /\ Linked(d) /\ socket[c] = socket[d] => c = d
             /\ \A c \in Client : Linked(c) /\ socket[c] \notin heirs => removing # socket[c]
             /\ \A u \in User : session[u] = "free" /\ removing # u => links[u] = {}
  BY <1>1 DEF PInv, Good, Sessions, Linked
<1>2. QED
  BY PInvInductive, <1>1, PTL
-----------------------------------------------------------------------------
(* Who has asked something has something to wait for. *)

Coming(c) ==
  \/ toClient[socket[c]] # <<>>
  \/ \E i \in DOMAIN toServer[socket[c]] : toServer[socket[c]][i].code # "message"

\* A client that is past the greeting is connected, so what it sends is sent.
Attended(c) ==
  Linked(c) /\ ~stopped =>
    /\ prompt[c].handler # "connect" => prompt[c].connected
    /\ prompt[c].asked \notin {"none", "message"} => Coming(c)

AInv == Defined => \A c \in Client : Attended(c)

LEMMA NotEmptied ==
  ASSUME NEW S, NEW s \in Seq(S), NEW e
  PROVE  Append(s, e) # <<>>
<1>1. Len(Append(s, e)) = Len(s) + 1 /\ Len(s) \in Nat
  OBVIOUS
<1>2. QED
  BY <1>1

LEMMA Arrives ==
  ASSUME toClient \in [User -> Seq(ToClient)], NEW u \in User, session[u] = "open"
  PROVE  /\ \A e : SendEvent({u}, e) => toClient'[u] # <<>>
         /\ SendCanalEvents /\ (\E e \in out' : e.to = u) => toClient'[u] # <<>>
<1>1. \A e : Append(toClient[u], e) # <<>>
  BY NotEmptied
<1>2. ASSUME NEW e, SendEvent({u}, e) PROVE toClient'[u] # <<>>
  BY <1>1, <1>2 DEF SendEvent
<1>3. ASSUME SendCanalEvents, \E e \in out' : e.to = u PROVE toClient'[u] # <<>>
  BY <1>1, <1>3 DEF SendCanalEvents
<1>4. QED
  BY <1>2, <1>3

\* Every operation on canals but the message tells the user that asked.
LEMMA CanalsAnswer ==
  ASSUME NEW u \in User, NEW c, NEW name, NEW password,
         \/ CreateCanal(u, name, password, -1) \/ DeleteCanal(u, c)
         \/ JoinCanal(u, c, password) \/ LeaveCanal(u, c) \/ ListCanal(u)
  PROVE  \E e \in out' : e.to = u
<1>1. CASE CreateCanal(u, name, password, -1)
  BY <1>1, AnswerIs DEF CreateCanal
<1>2. CASE DeleteCanal(u, c)
  <2>1. Answer(u, c, "delete") \in out' \/ Error(u, c, "delete") \in out'
    BY <1>2 DEF DeleteCanal
  <2>2. QED
    BY <2>1, AnswerIs
<1>3. CASE JoinCanal(u, c, password)
  BY <1>3, AnswerIs DEF JoinCanal
<1>4. CASE LeaveCanal(u, c)
  <2>1. Answer(u, c, "leave") \in out' \/ Error(u, c, "leave") \in out'
    BY <1>4 DEF LeaveCanal
  <2>2. QED
    BY <2>1, AnswerIs
<1>5. CASE ListCanal(u)
  BY <1>5, AnswerIs DEF ListCanal
<1>6. QED
  BY <1>1, <1>2, <1>3, <1>4, <1>5

\* Every command but the message, and the stop that is obeyed, is answered.
LEMMA TreatReplies ==
  ASSUME toClient \in [User -> Seq(ToClient)], NEW q, q.user \in User, session[q.user] = "open",
         Treat(q), q.code # "message"
  PROVE  toClient'[q.user] # <<>> \/ stopped'
<1>1. \A code, error, data : Reply(q.user, code, error, data) => toClient'[q.user] # <<>>
  BY Arrives DEF Reply
<1>2. CASE \/ AuthCommand(q) \/ ApplicationListCommand(q) \/ CommandListCommand(q)
           \/ PingCommand(q) \/ ReloadAppCommand(q) \/ UnloadAppCommand(q) \/ StopCommand(q)
  BY <1>1, <1>2 DEF AuthCommand, ApplicationListCommand, CommandListCommand, PingCommand,
     ReloadAppCommand, UnloadAppCommand, StopCommand
<1>3. CASE CreateCanalCommand(q)
  <2>1. \/ CreateCanal(q.user, q.data, Empty, -1) /\ SendCanalEvents
        \/ Reply(q.user, q.code, TRUE, Text)
    BY <1>3 DEF CreateCanalCommand, Authenticated
  <2>2. QED
    BY <1>1, <2>1, CanalsAnswer, Arrives
<1>4. CASE DeleteCanalCommand(q)
  <2>1. \/ DeleteCanal(q.user, q.canal) /\ SendCanalEvents
        \/ Reply(q.user, q.code, TRUE, Text)
    BY <1>4 DEF DeleteCanalCommand, Authenticated
  <2>2. QED
    BY <1>1, <2>1, CanalsAnswer, Arrives
<1>5. CASE JoinCanalCommand(q) \/ LeaveCanalCommand(q) \/ ListCanalCommand(q)
  <2>1. SendCanalEvents
    BY <1>5 DEF JoinCanalCommand, LeaveCanalCommand, ListCanalCommand, CanalCommand
  <2>2. JoinCanal(q.user, q.canal, q.data) \/ LeaveCanal(q.user, q.canal) \/ ListCanal(q.user)
    BY <1>5 DEF JoinCanalCommand, LeaveCanalCommand, ListCanalCommand, CanalCommand
  <2>3. QED
    BY <2>1, <2>2, CanalsAnswer, Arrives
<1>6. QED
  BY <1>2, <1>3, <1>4, <1>5 DEF Treat

\* A server step leaves a client attended to when it takes neither its events
\* nor, but for an event, its requests.
LEMMA StillAttended ==
  ASSUME AInv, Defined, UNCHANGED <<prompt, socket>>, stopped => stopped',
         NEW c \in Client, Linked(c) /\ ~stopped' /\ Coming(c) => Coming(c)'
  PROVE  Attended(c)'
BY DEF AInv, Attended, Linked

\* In a step that leaves the requests, events are only added.
LEMMA GrowingAttends ==
  ASSUME AInv, Defined, UNCHANGED clientVars, stopped => stopped', UNCHANGED toServer,
         \A u \in User : toClient[u] # <<>> => toClient'[u] # <<>>
  PROVE  \A c \in Client : Attended(c)'
<1>1. UNCHANGED <<prompt, socket>>
  BY DEF clientVars
<1>2. ASSUME NEW c \in Client, Linked(c), Coming(c) PROVE Coming(c)'
  BY <1>1, <1>2 DEF Coming, Linked
<1>3. QED
  BY <1>1, <1>2, StillAttended

LEMMA CanalEventsGrow ==
  ASSUME toClient \in [User -> Seq(ToClient)], SendCanalEvents
  PROVE  \A u \in User : toClient[u] # <<>> => toClient'[u] # <<>>
<1>1. \A u \in User : \A e : Append(toClient[u], e) # <<>>
  BY NotEmptied
<1>2. QED
  BY <1>1 DEF SendCanalEvents

LEMMA ReceiveAttends ==
  ASSUME PInv, PInv', AInv, Defined', NEW u \in User, Receive(u), UNCHANGED clientVars
  PROVE  \A c \in Client : Attended(c)'
<1> DEFINE q == Head(toServer[u])
<1>1. /\ Defined /\ Good /\ ~stopped /\ session[u] = "open" /\ toServer[u] # <<>>
      /\ Treat(q) \/ Refuse(q)
      /\ toServer' = [toServer EXCEPT ![u] = Tail(@)] /\ UNCHANGED <<prompt, socket>>
  BY DEF Receive, NetworkReady, Up, PInv, clientVars
<1>2. toServer \in [User -> Seq(ToServer)] /\ toClient \in [User -> Seq(ToClient)] /\ Consistent
  BY <1>1 DEF Good, WireTypes
<1>3. q \in ToServer /\ q.user = u
  BY <1>1, <1>2, QueueFacts, OwnRequests DEF PInv
<1> HIDE DEF q
<1>4. out' \subseteq Event
  BY DEF PInv, Good, Consistent, TypeOK
<1>5. Answers(q)
  BY <1>1, <1>2, <1>3, <1>4, TreatAnswers, RefuseAnswers
<1>6. \A v \in User : toClient[v] # <<>> => toClient'[v] # <<>>
  <2>1. \A v \in User : \A e : Append(toClient[v], e) # <<>>
    BY <1>2, NotEmptied
  <2>2. QED
    BY <1>5, <2>1 DEF Answers, GetsEvent
<1>7. q.code = "message" \/ toClient'[u] # <<>> \/ stopped'
  <2>1. CASE Treat(q)
    BY <1>1, <1>2, <1>3, <2>1, TreatReplies
  <2>2. CASE Refuse(q)
    BY <1>1, <1>2, <1>3, <2>2, Arrives DEF Refuse
  <2>3. QED
    BY <1>1, <2>1, <2>2
<1>8. ASSUME NEW c \in Client, Linked(c), ~stopped', Coming(c) PROVE Coming(c)'
  <2>1. socket[c] \in User /\ socket'[c] = socket[c]
    BY <1>1, <1>8 DEF Linked
  <2>2. CASE toClient[socket[c]] # <<>>
    BY <1>6, <2>1, <2>2 DEF Coming
  <2>3. CASE socket[c] # u
    <3>1. toServer'[socket[c]] = toServer[socket[c]]
      BY <1>1, <1>2, <2>1, <2>3
    <3>2. QED
      BY <1>6, <1>8, <2>1, <3>1 DEF Coming
  <2>4. ASSUME socket[c] = u, NEW i \in DOMAIN toServer[u], toServer[u][i].code # "message"
        PROVE  Coming(c)'
    <3>1. CASE toClient'[u] # <<>>
      BY <2>1, <2>4, <3>1 DEF Coming
    <3>2. CASE q.code = "message"
      <4> DEFINE s == toServer[u]
      <4>1. s \in Seq(ToServer) /\ s # <<>>
        BY <1>1, <1>2
      <4>2. i # 1
        BY <2>4, <3>2, <4>1 DEF q
      <4>3. i \in 1 .. Len(s) /\ Len(s) \in Nat /\ toServer'[u] = Tail(s)
        BY <1>1, <1>2, <2>4, <4>1
      <4> HIDE DEF s
      <4>4. i - 1 \in DOMAIN Tail(s) /\ Tail(s)[i - 1] = s[i]
        BY <4>1, <4>2, <4>3
      <4>5. \E j \in DOMAIN toServer'[u] : toServer'[u][j].code # "message"
        BY <2>4, <4>3, <4>4 DEF s
      <4>6. QED
        BY <2>1, <2>4, <4>5 DEF Coming
    <3>3. QED
      BY <1>7, <1>8, <3>1, <3>2
  <2>5. QED
    BY <1>8, <2>2, <2>3, <2>4 DEF Coming
<1>9. QED
  BY <1>1, <1>8, StillAttended

LEMMA OnCloseAttends ==
  ASSUME PInv, AInv, NEW u \in User, \A c \in Client : socket[c] # u, OnClose(u),
         UNCHANGED clientVars
  PROVE  \A c \in Client : Attended(c)'
<1>1. /\ Defined /\ Good /\ UNCHANGED <<prompt, socket, stopped>>
      /\ toServer' = [toServer EXCEPT ![u] = <<>>] /\ toClient' = [toClient EXCEPT ![u] = <<>>]
  BY DEF OnClose, NetworkReady, Up, PInv, clientVars
<1>2. \A v \in User : v # u => toServer'[v] = toServer[v] /\ toClient'[v] = toClient[v]
  BY <1>1 DEF Good, WireTypes
<1>3. ASSUME NEW c \in Client, Linked(c), Coming(c) PROVE Coming(c)'
  BY <1>1, <1>2, <1>3 DEF Coming, Linked
<1>4. QED
  BY <1>1, <1>3, StillAttended

LEMMA ServerStepAttends ==
  ASSUME PInv, PInv', AInv, Defined', ServerStep
  PROVE  \A c \in Client : Attended(c)'
<1>1. UNCHANGED clientVars
  BY DEF ServerStep
<1>2. CASE StartServer
  <2>1. UNCHANGED <<toServer, toClient, stopped, status>>
    BY <1>2 DEF StartServer, StartServing, Configure, serverVars, userVars
  <2>2. Defined
    BY <2>1 DEF Defined
  <2>3. QED
    BY <1>1, <2>1, <2>2, GrowingAttends
<1>3. CASE FreeUserID \/ ServerEnds \/ \E u \in User : RemoveUser(u)
  <2>1. Defined /\ UNCHANGED <<toServer, toClient, stopped>>
    BY <1>3 DEF RemoveUser, FreeUserID, ServerEnds, Up
  <2>2. QED
    BY <1>1, <2>1, GrowingAttends
<1>4. CASE SendMessage \/ LeaveCanals
  <2>1. Defined /\ SendCanalEvents /\ UNCHANGED <<toServer, stopped>>
    BY <1>4 DEF SendMessage, LeaveCanals, Up
  <2>2. toClient \in [User -> Seq(ToClient)]
    BY <2>1 DEF PInv, Good, WireTypes
  <2>3. QED
    BY <1>1, <2>1, <2>2, CanalEventsGrow, GrowingAttends
<1>5. QED
  BY <1>1, <1>2, <1>3, <1>4, ReceiveAttends, OnCloseAttends DEF ServerStep

\* A client's step does not touch what another has open.
LEMMA ClientAttends ==
  ASSUME PInv, AInv, Defined, NEW c \in Client, NEW p, NEW s,
         prompt' = [prompt EXCEPT ![c] = p], socket' = [socket EXCEPT ![c] = s],
         UNCHANGED stopped,
         \A u \in User : session[u] = "open" /\ u # socket[c] =>
           toServer'[u] = toServer[u] /\ toClient'[u] = toClient[u],
         Attended(c)'
  PROVE  \A d \in Client : Attended(d)'
<1>1. Good
  BY DEF PInv
<1>2. ASSUME NEW d \in Client, d # c PROVE Attended(d)'
  <2>1. prompt'[d] = prompt[d] /\ socket'[d] = socket[d]
    BY <1>1, <1>2 DEF Good, WireTypes
  <2>2. Linked(d) => /\ toServer'[socket[d]] = toServer[socket[d]]
                     /\ toClient'[socket[d]] = toClient[socket[d]]
    <3>1. Linked(d) => socket[d] \in User /\ session[socket[d]] = "open"
      BY <1>1 DEF Good, Sessions, Linked
    <3>2. Linked(d) => socket[d] # socket[c]
      BY <1>1, <1>2 DEF Good, Sessions, Linked
    <3>3. QED
      BY <3>1, <3>2
  <2>3. QED
    BY <2>1, <2>2 DEF AInv, Attended, Linked, Coming
<1>3. QED
  BY <1>2

\* Without a session there is nothing to attend to.
LEMMA UnlinkedAttends ==
  ASSUME PInv, AInv, Defined, NEW c \in Client, NEW p, NEW s \in {"closed", "broken", "backlog"},
         Becomes(c, p), WithSocket(c, s), UNCHANGED stopped,
         \A u \in User : u # socket[c] => toServer'[u] = toServer[u] /\ toClient'[u] = toClient[u]
  PROVE  \A d \in Client : Attended(d)'
<1>1. prompt' = [prompt EXCEPT ![c] = p] /\ socket' = [socket EXCEPT ![c] = s]
  BY DEF Becomes, WithSocket
<1>2. socket'[c] = s /\ s \notin User
  BY <1>1, QueuesAre, UserIsNoMark
<1>3. Attended(c)'
  BY <1>2 DEF Attended, Linked
<1>4. QED
  BY <1>1, <1>3, ClientAttends

LEMMA SentElsewhere ==
  ASSUME PInv, Defined, NEW c \in Client, NEW q, Sent(c, q)
  PROVE  \A u \in User : u # socket[c] => toServer'[u] = toServer[u] /\ toClient'[u] = toClient[u]
BY QueuesAre DEF Sent

\* A handler that has sent a request and waits for its answer.
LEMMA WaitingAttends ==
  ASSUME PInv, AInv, Defined, NEW c \in Client, prompt[c].handler = "none",
         NEW q, Sent(c, q), NEW p, p.connected = prompt[c].connected, p.asked = q.code,
         Becomes(c, p), UNCHANGED <<socket, stopped>>
  PROVE  \A d \in Client : Attended(d)'
<1>1. /\ prompt' = [prompt EXCEPT ![c] = p] /\ prompt'[c] = p
      /\ socket' = [socket EXCEPT ![c] = socket[c]] /\ socket'[c] = socket[c]
  BY QueuesAre DEF Becomes
<1>2. ASSUME Linked(c), ~stopped PROVE p.connected /\ (q.code # "message" => Coming(c)')
  <2>1. prompt[c].connected
    BY <1>2 DEF AInv, Attended
  <2>2. toServer' = [toServer EXCEPT ![socket[c]] = Append(@, q)]
    BY <1>2, <2>1, UserIsNoMark DEF Sent, Unread, Linked
  <2> DEFINE s == toServer[socket[c]]
  <2>3. s \in Seq(ToServer) /\ toServer'[socket[c]] = Append(s, q)
    BY <1>2, <2>2, QueuesAre
  <2> HIDE DEF s
  <2>4. Len(s) + 1 \in DOMAIN Append(s, q) /\ Append(s, q)[Len(s) + 1] = q
    BY <2>3
  <2>5. QED
    BY <1>1, <2>1, <2>3, <2>4 DEF Coming
<1>3. Attended(c)'
  BY <1>1, <1>2 DEF Attended, Linked
<1>4. QED
  BY <1>1, <1>3, SentElsewhere, ClientAttends

LEMMA EndsAttends ==
  ASSUME PInv, AInv, Defined, NEW c \in Client, Ends(c), UNCHANGED stopped,
         \A u \in User : u # socket[c] => toServer'[u] = toServer[u] /\ toClient'[u] = toClient[u]
  PROVE  \A d \in Client : Attended(d)'
BY UnlinkedAttends DEF Ends

LEMMA WaitsFields ==
  ASSUME NEW p \in Prompt, NEW handler, NEW asked
  PROVE  LET w == Waits(p, handler, asked)
         IN w.handler = handler /\ w.asked = asked /\ w.connected = p.connected
BY DEF Waits, Prompt

LEMMA AskAttends ==
  ASSUME PInv, AInv, Defined, NEW c \in Client, prompt[c].handler = "none",
         NEW q, NEW handler, Ask(c, q, handler)
  PROVE  \A d \in Client : Attended(d)'
<1>1. prompt[c] \in Prompt /\ UNCHANGED stopped
  BY QueuesAre DEF Ask, NoServerChangeBut, userVars
<1>2. CASE Sent(c, q) /\ Becomes(c, Waits(prompt[c], handler, q.code)) /\ UNCHANGED socket
  <2> DEFINE p == Waits(prompt[c], handler, q.code)
  <2>1. p.asked = q.code /\ p.connected = prompt[c].connected
    BY <1>1, WaitsFields
  <2>2. Becomes(c, p)
    BY <1>2
  <2> HIDE DEF p
  <2>3. QED
    BY <1>1, <1>2, <2>1, <2>2, WaitingAttends
<1>3. CASE Ends(c) /\ UNCHANGED <<toServer, toClient>>
  BY <1>1, <1>3, EndsAttends
<1>4. QED
  BY <1>2, <1>3 DEF Ask

LEMMA AskingAttends ==
  ASSUME PInv, AInv, NEW c \in Client,
         \/ HandleList(c)
         \/ \E app \in Queries : HandleQuery(c, app)
         \/ \E key \in Keys : HandleAuth(c, key)
         \/ \E text \in Pings : HandlePing(c, text)
         \/ \E name \in CanalName : HandleCanalCreate(c, name)
  PROVE  \A d \in Client : Attended(d)'
<1>1. Defined /\ prompt[c].handler = "none"
  BY LineFacts DEF HandleList, HandleQuery, HandleAuth, HandlePing, HandleCanalCreate
<1>2. \E q, handler : Ask(c, q, handler)
  BY DEF HandleList, HandleQuery, HandleAuth, HandlePing, HandleCanalCreate
<1>3. QED
  BY <1>1, <1>2, AskAttends

LEMMA EventAttends ==
  ASSUME PInv, AInv, NEW c \in Client, NEW ev \in Events, HandleEvent(c, ev)
  PROVE  \A d \in Client : Attended(d)'
<1>1. /\ Defined /\ prompt[c].handler = "none" /\ prompt[c] \in Prompt
      /\ UNCHANGED <<socket, stopped>>
  BY LineFacts DEF HandleEvent, NoServerChangeBut, userVars
<1> DEFINE q == Request(c, ev.app, ev.code, 0, ev.data)
           p == Waits(prompt[c], "event", ev.code)
<1>2. q.code = ev.code /\ p.asked = ev.code /\ p.connected = prompt[c].connected
  BY <1>1, WaitsFields DEF Request
<1>3. (Sent(c, q) /\ Becomes(c, p)) \/ UNCHANGED <<toServer, toClient, prompt>>
  BY DEF HandleEvent
<1> HIDE DEF q, p
<1>4. CASE UNCHANGED <<toServer, toClient, prompt>>
  BY <1>1, <1>4 DEF AInv, Attended, Linked, Coming
<1>5. QED
  BY <1>1, <1>2, <1>3, <1>4, WaitingAttends

LEMMA CanalLineAttends ==
  ASSUME PInv, AInv, NEW c \in Client, NEW code, NEW name, HandleCanal(c, code, name)
  PROVE  \A d \in Client : Attended(d)'
<1> DEFINE q == Request(c, Base, "list", 0, Empty)
           w == Waits(prompt[c], "canals", "list")
           p == [w EXCEPT !.then = [code |-> code, name |-> name]]
<1>1. /\ Defined /\ prompt[c].handler = "none" /\ prompt[c] \in Prompt /\ UNCHANGED stopped
  BY LineFacts DEF HandleCanal, UpdateCanalList, NoServerChangeBut, userVars
<1>2. q.code = "list" /\ p.asked = "list" /\ p.connected = prompt[c].connected
  <2>1. w \in Prompt
    BY <1>1, RegisteredCodes, WaitsIs DEF Registered, Handler
  <2>2. w.asked = "list" /\ w.connected = prompt[c].connected
    BY <1>1, WaitsFields
  <2> HIDE DEF w
  <2>3. p.asked = "list" /\ p.connected = prompt[c].connected
    BY <2>1, <2>2 DEF Prompt
  <2>4. QED
    BY <2>3 DEF Request
<1>3. \/ Sent(c, q) /\ Becomes(c, p) /\ UNCHANGED socket
      \/ Ends(c) /\ UNCHANGED <<toServer, toClient>>
  BY DEF HandleCanal, UpdateCanalList
<1> HIDE DEF q, p
<1>4. QED
  BY <1>1, <1>2, <1>3, WaitingAttends, EndsAttends

LEMMA OffAttends ==
  ASSUME PInv, AInv, NEW c \in Client, HandleStop(c) \/ HandleDisconnect(c) \/ Quit(c)
  PROVE  \A d \in Client : Attended(d)'
<1>1. Defined /\ UNCHANGED stopped
  BY DEF HandleStop, HandleDisconnect, Quit, Ready, NoServerChange, NoServerChangeBut, userVars, serverVars, userVars
<1>2. \A u \in User : u # socket[c] => toServer'[u] = toServer[u] /\ toClient'[u] = toClient[u]
  BY <1>1, SentElsewhere DEF HandleStop, HandleDisconnect, Quit, NoServerChange, serverVars, userVars
<1>3. \E p : Becomes(c, p) /\ WithSocket(c, "closed")
  BY DEF HandleStop, HandleDisconnect, Quit, OnStop, Ends
<1>4. QED
  BY <1>1, <1>2, <1>3, UnlinkedAttends

LEMMA AwaitAttends ==
  ASSUME PInv, AInv, NEW c \in Client, HandleAwait(c)
  PROVE  \A d \in Client : Attended(d)'
<1> DEFINE p == Waits(prompt[c], "print", "none")
<1>1. /\ Defined /\ prompt[c].handler = "none" /\ prompt[c] \in Prompt
      /\ UNCHANGED <<socket, stopped, toServer, toClient>> /\ Becomes(c, p)
  BY LineFacts DEF HandleAwait, NoServerChange, serverVars, userVars
<1>2. p.asked = "none" /\ p.connected = prompt[c].connected
  BY <1>1, WaitsFields
<1> HIDE DEF p
<1>3. /\ prompt' = [prompt EXCEPT ![c] = p] /\ prompt'[c] = p
      /\ socket' = [socket EXCEPT ![c] = socket[c]] /\ socket'[c] = socket[c]
  BY <1>1, QueuesAre DEF Becomes
<1>4. Attended(c)'
  BY <1>1, <1>2, <1>3 DEF AInv, Attended, Linked
<1>5. QED
  BY <1>1, <1>3, <1>4, ClientAttends

\* The greeting is there when the connection is.
LEMMA ConnectAttends ==
  ASSUME PInv, AInv, NEW c \in Client, NEW address, HandleConnect(c, address)
  PROVE  \A d \in Client : Attended(d)'
<1>1. Defined /\ prompt[c] \in Prompt
  BY LineFacts DEF HandleConnect
<1>2. CASE \E s \in {"closed", "broken", "backlog"} : \E p : /\ prompt' = prompt \/ Becomes(c, p)
                                                 /\ WithSocket(c, s) /\ NoServerChange
  <2>1. PICK s \in {"closed", "broken", "backlog"} : \E p : (prompt' = prompt \/ Becomes(c, p)) /\ WithSocket(c, s)
    BY <1>2
  <2>2. UNCHANGED <<stopped, toServer, toClient>>
    BY <1>2 DEF NoServerChange, serverVars, userVars
  <2>3. prompt = [prompt EXCEPT ![c] = prompt[c]]
    BY <1>1, QueuesAre
  <2>4. \E p : Becomes(c, p)
    BY <2>1, <2>3 DEF Becomes
  <2>5. QED
    BY <1>1, <2>1, <2>2, <2>4, UnlinkedAttends
<1>3. ASSUME NEW u \in User, AcceptSession(u), WithSocket(c, u),
             Becomes(c, Waits(prompt[c], "connect", "connected"))
      PROVE  \A d \in Client : Attended(d)'
  <2> DEFINE p == Waits(prompt[c], "connect", "connected")
  <2>1. p.handler = "connect"
    BY <1>1, WaitsFields
  <2> HIDE DEF p
  <2>2. /\ prompt' = [prompt EXCEPT ![c] = p] /\ prompt'[c] = p
        /\ socket' = [socket EXCEPT ![c] = u] /\ socket'[c] = u
    BY <1>1, <1>3, QueuesAre DEF Becomes, WithSocket, p
  <2>3. /\ session[u] = "free" /\ UNCHANGED stopped
        /\ toServer' = [toServer EXCEPT ![u] = <<>>]
        /\ toClient' = [toClient EXCEPT ![u] = <<Greeting(u)>>]
    BY <1>3 DEF AcceptSession, Greeting
  <2>4. \A v \in User : session[v] = "open" => /\ toServer'[v] = toServer[v]
                                              /\ toClient'[v] = toClient[v]
    BY <1>1, <2>3, QueuesAre
  <2>5. toClient'[u] # <<>>
    BY <1>1, <2>3, QueuesAre
  <2>6. Attended(c)'
    BY <2>1, <2>2, <2>5 DEF Attended, Coming
  <2>7. QED
    BY <1>1, <2>2, <2>3, <2>4, <2>6, ClientAttends
<1>4. QED
  BY <1>2, <1>3 DEF HandleConnect

LEMMA TypeAttends ==
  ASSUME PInv, AInv, NEW c \in Client, Type(c)
  PROVE  \A d \in Client : Attended(d)'
BY ConnectAttends, OffAttends, AskingAttends, AwaitAttends, EventAttends, CanalLineAttends DEF Type
-----------------------------------------------------------------------------
LEMMA ThrowAttends ==
  ASSUME PInv, AInv, NEW c \in Client, ReceiveThrows(c)
  PROVE  \A d \in Client : Attended(d)'
<1>1. Defined /\ UNCHANGED <<stopped, toServer, toClient>>
  BY DEF ReceiveThrows, NoServerChange, serverVars, userVars
<1>2. CASE Ends(c)
  BY <1>1, <1>2, EndsAttends
<1>3. CASE Becomes(c, Idle(prompt[c])) /\ UNCHANGED socket
  <2>1. /\ prompt' = [prompt EXCEPT ![c] = Idle(prompt[c])]
        /\ socket' = [socket EXCEPT ![c] = socket[c]] /\ socket'[c] = socket[c]
    BY <1>3, <1>1, QueuesAre DEF Becomes
  <2>2. ~Linked(c) \/ stopped
    BY <1>1, UserIsNoMark, EndedIsStopped DEF ReceiveThrows, PeerGone, Linked
  <2>3. Attended(c)'
    BY <1>1, <2>1, <2>2 DEF Attended, Linked
  <2>4. QED
    BY <1>1, <2>1, <2>3, ClientAttends
<1>4. QED
  BY <1>2, <1>3 DEF ReceiveThrows

\* A handler takes an event: what it asks next it also sends.
LEMMA TakeAttends ==
  ASSUME PInv, AInv, Defined, NEW c \in Client, Linked(c), NEW p, NEW S, NEW requests \in Seq(S),
         ~stopped => p.connected,
         p.asked = "none" \/ \E i \in DOMAIN requests : requests[i].code = p.asked,
         Take(c, p, requests), UNCHANGED stopped
  PROVE  \A d \in Client : Attended(d)'
<1>1. \A u \in User : u # socket[c] => toServer'[u] = toServer[u] /\ toClient'[u] = toClient[u]
  BY QueuesAre DEF Take
<1>2. CASE Ends(c)
  BY <1>1, <1>2, EndsAttends
<1>3. CASE Becomes(c, p) /\ UNCHANGED socket
  <2>1. /\ prompt' = [prompt EXCEPT ![c] = p] /\ prompt'[c] = p
        /\ socket' = [socket EXCEPT ![c] = socket[c]] /\ socket'[c] = socket[c]
    BY <1>3, QueuesAre DEF Becomes
  <2>2. ASSUME ~stopped, p.asked \notin {"none", "message"} PROVE Coming(c)'
    <3> DEFINE s == toServer[socket[c]]
    <3>1. s \in Seq(ToServer) /\ toServer'[socket[c]] = s \o requests
      BY <2>2, QueuesAre DEF Take
    <3>2. PICK i \in DOMAIN requests : requests[i].code = p.asked
      BY <2>2
    <3> HIDE DEF s
    <3>3. Len(s) + i \in DOMAIN (s \o requests) /\ (s \o requests)[Len(s) + i] = requests[i]
      BY <3>1
    <3>4. QED
      BY <2>1, <2>2, <3>1, <3>2, <3>3 DEF Coming
  <2>3. Attended(c)'
    BY <2>1, <2>2 DEF Attended, Linked
  <2>4. QED
    BY <1>1, <2>1, <2>3, ClientAttends
<1>4. QED
  BY <1>2, <1>3 DEF Take

LEMMA IdleFields ==
  ASSUME NEW p \in Prompt
  PROVE  /\ Idle(p).asked = "none" /\ Idle(p).connected = p.connected
         /\ \A handler, asked : LET w == Waits(Idle(p), handler, asked)
                                IN w.asked = asked /\ w.connected = p.connected
<1>1. Idle(p) \in Prompt
  BY IdleIs
<1>2. Idle(p).asked = "none" /\ Idle(p).connected = p.connected
  BY DEF Idle, Prompt
<1>3. QED
  BY <1>1, <1>2, WaitsFields

LEMMA AfterListAttends ==
  ASSUME PInv, AInv, Defined, NEW c \in Client, Linked(c), NEW p \in Prompt,
         ~stopped => p.connected, AfterList(c, p), UNCHANGED stopped
  PROVE  \A d \in Client : Attended(d)'
<1> DEFINE code == p.then.code
           request == Request(c, Base, code, p.canals[p.then.name], Empty)
           w(asked) == Waits(Idle(p), "print", asked)
<1>1. Idle(p).asked = "none" /\ Idle(p).connected = p.connected
  BY IdleFields
<1>2. \A asked : w(asked).asked = asked /\ w(asked).connected = p.connected
  BY IdleFields
<1>3. request.code = code
  BY DEF Request
<1>4. \/ Take(c, Idle(p), <<>>) \/ Take(c, Idle(p), <<request>>)
      \/ Take(c, w(code), <<request>>) \/ Take(c, w("none"), <<>>)
  BY DEF AfterList
<1> HIDE DEF request, w
<1>5. <<>> \in Seq({request}) /\ <<request>> \in Seq({request})
      /\ 1 \in DOMAIN <<request>> /\ <<request>>[1] = request
  OBVIOUS
<1>6. CASE Take(c, Idle(p), <<>>)
  BY <1>1, <1>5, <1>6, TakeAttends
<1>7. CASE Take(c, Idle(p), <<request>>)
  BY <1>1, <1>5, <1>7, TakeAttends
<1>8. CASE Take(c, w(code), <<request>>)
  <2>1. \E i \in DOMAIN <<request>> : <<request>>[i].code = w(code).asked
    BY <1>2, <1>3, <1>5
  <2>2. QED
    BY <1>2, <1>5, <1>8, <2>1, TakeAttends
<1>9. CASE Take(c, w("none"), <<>>)
  BY <1>2, <1>5, <1>9, TakeAttends
<1>10. QED
  BY <1>4, <1>6, <1>7, <1>8, <1>9

LEMMA ReceiveEventAttends ==
  ASSUME PInv, AInv, NEW c \in Client, ReceiveEvent(c)
  PROVE  \A d \in Client : Attended(d)'
<1> DEFINE e == Head(toClient[socket[c]])
           p == prompt[c]
           q == Request(c, Base, "list", 0, Empty)
<1>1. Defined /\ Linked(c) /\ Handle(c, e, p) /\ UNCHANGED stopped /\ p \in Prompt
  BY QueuesAre DEF ReceiveEvent, NoServerChangeBut, userVars
<1>2. p.handler # "connect" /\ ~stopped => p.connected
  BY <1>1 DEF AInv, Attended
<1>3. <<>> \in Seq({q}) /\ <<q>> \in Seq({q}) /\ 1 \in DOMAIN <<q>> /\ <<q>>[1] = q /\ q.code = "list"
  BY DEF Request
<1>4. Idle(p).asked = "none" /\ Idle(p).connected = p.connected
  BY <1>1, IdleFields
<1> HIDE DEF e, q
<1>5. CASE Take(c, Connected(p, e), <<>>)
  <2>1. Connected(p, e).asked = "none" /\ Connected(p, e).connected
    BY <1>1, <1>4, IdleIs DEF Connected, Prompt
  <2>2. QED
    BY <1>1, <1>3, <1>5, <2>1, TakeAttends
<1>6. CASE p.handler # "connect" /\ Take(c, Idle(p), <<>>)
  BY <1>1, <1>2, <1>3, <1>4, <1>6, TakeAttends
<1>7. CASE TakeAndEnd(c)
  <2>1. /\ Ends(c)
        /\ \A u \in User : u # socket[c] => toServer'[u] = toServer[u] /\ toClient'[u] = toClient[u]
    BY <1>1, <1>7, QueuesAre DEF TakeAndEnd
  <2>2. QED
    BY <1>1, <2>1, EndsAttends
<1>8. CASE p.handler = "created" /\ Take(c, Waits(p, "canals", "list"), <<q>>)
  <2> DEFINE w == Waits(p, "canals", "list")
  <2>1. w.asked = "list" /\ w.connected = p.connected
    BY <1>1, WaitsFields
  <2>2. Take(c, w, <<q>>)
    BY <1>8
  <2> HIDE DEF w
  <2>3. \E i \in DOMAIN <<q>> : <<q>>[i].code = w.asked
    BY <1>3, <2>1
  <2>4. QED
    BY <1>1, <1>2, <1>3, <1>8, <2>1, <2>2, <2>3, TakeAttends
<1>9. CASE p.handler = "canals" /\ AfterList(c, p)
  BY <1>1, <1>2, <1>9, AfterListAttends
<1>10. CASE p.handler = "canals" /\ Readable(e, "canals") /\ AfterList(c, [p EXCEPT !.canals = e.data[2]])
  <2> DEFINE r == [p EXCEPT !.canals = e.data[2]]
  <2>1. e \in ToClient
    BY <1>1, QueuesAre, QueueFacts DEF e, ReceiveEvent
  <2>2. e.data \in Content /\ e.data[1] = "canals"
    BY <1>10, <2>1 DEF Readable, ToClient
  <2>3. e.data[2] \in Dictionary
    BY <2>2 DEF Content, Text, Echo
  <2>4. r \in Prompt /\ r.connected = p.connected
    BY <1>1, <2>3 DEF Prompt
  <2> HIDE DEF r
  <2>5. QED
    BY <1>1, <1>2, <1>10, <2>4, AfterListAttends DEF r
<1>11. QED
  BY <1>1, <1>5, <1>6, <1>7, <1>8, <1>9, <1>10 DEF Handle, q
-----------------------------------------------------------------------------
LEMMA AInvInductive == SpecPrompt => [](PInv /\ AInv)
<1>1. InitPrompt => AInv
  <2> SUFFICES ASSUME InitPrompt, NEW c \in Client PROVE ~Linked(c)
    BY DEF AInv, Attended
  <2>1. socket[c] = "closed"
    BY DEF InitPrompt
  <2>2. QED
    BY <2>1, UserIsNoMark DEF Linked
<1>2. PInv /\ PInv' /\ AInv /\ [NextPrompt]_allVars => AInv'
  <2> SUFFICES ASSUME PInv, PInv', AInv, [NextPrompt]_allVars, Defined'
               PROVE  \A c \in Client : Attended(c)'
    BY DEF AInv
  <2>1. CASE ServerStep
    BY <2>1, ServerStepAttends
  <2>2. CASE \E c \in Client : Type(c) \/ ReceiveEvent(c) \/ ReceiveThrows(c)
    BY <2>2, TypeAttends, ReceiveEventAttends, ThrowAttends
  <2>3. CASE UNCHANGED allVars
    BY <2>3 DEF AInv, Attended, Linked, Coming, Defined, allVars, canalVars, serverVars, userVars, clientVars
  <2>4. QED
    BY <2>1, <2>2, <2>3 DEF NextPrompt
<1>3. QED
  BY PInvInductive, <1>1, <1>2, PTL DEF SpecPrompt

\* A handler that waits for an answer has one coming, with any clients and any
\* number of strangers' events in between: the server answers every request but
\* a canal message, and never takes an event back (NecterePrompt's Receive
\* blocks until one is there).
THEOREM AnswerComesTheorem == SpecPrompt => []AnswerComes
<1>1. AInv => AnswerComes
  BY DEF AInv, Attended, Coming, AnswerComes, Up
<1>2. QED
  BY AInvInductive, <1>1, PTL
-----------------------------------------------------------------------------
(* The server with its clients asks nothing of CanalManager that CanalManager's *)
(* own next-state relation does not allow.                                      *)

\* A step CanalManager is not asked for anything in, or refuses a join with a
\* password no canal has.
Silent ==
  /\ UNCHANGED <<canals, dictionary, links, gen, serving, peek, leaving, status>>
  /\ out' = {} \/ (serving /\ \E u \in User : out' = {Error(u, 0, "join")})

LEMMA NoChangeIsSilent == NoCanalChange => Silent
BY DEF NoCanalChange, Silent

LEMMA TreatIsCanalStep ==
  ASSUME Consistent, Defined, NEW q \in ToServer, q.user \in User, Treat(q)
  PROVE  Next \/ Silent
<1>1. q.canal \in Id /\ (q.code = "create" => q.data \in CanalName)
  BY DEF ToServer
<1>2. Empty \in Password /\ -1 \in Limit
  BY CanalAssumption
<1>3. CASE NoCanalChange
  BY <1>3, NoChangeIsSilent
<1>4. CASE q.code = "create" /\ CreateCanalCommand(q)
  <2>1. NoCanalChange \/ CreateCanal(q.user, q.data, Empty, -1)
    BY <1>4 DEF CreateCanalCommand, Authenticated
  <2>2. QED
    BY <1>1, <1>2, <1>3, <1>4, <2>1 DEF Next, NetworkThread
<1>5. CASE DeleteCanalCommand(q)
  <2>1. NoCanalChange \/ DeleteCanal(q.user, q.canal)
    BY <1>5 DEF DeleteCanalCommand, Authenticated
  <2>2. QED
    BY <1>1, <1>3, <2>1 DEF Next, NetworkThread
<1>6. CASE JoinCanalCommand(q)
  <2>1. JoinCanal(q.user, q.canal, q.data)
    BY <1>6 DEF JoinCanalCommand, CanalCommand
  <2>2. CASE q.data \in Password
    BY <1>1, <2>1, <2>2 DEF Next, NetworkThread
  <2>3. CASE q.data \notin Password
    <3>1. ~CanJoin(q.canal, q.data)
      BY <2>3, Facts DEF CanJoin, Canal
    <3>2. QED
      BY <2>1, <3>1 DEF JoinCanal, LockedCommandReady, CommandReady, Silent
  <2>4. QED
    BY <2>2, <2>3
<1>7. CASE LeaveCanalCommand(q) \/ ListCanalCommand(q) \/ MessageCanalCommand(q)
  BY <1>1, <1>7 DEF LeaveCanalCommand, ListCanalCommand, MessageCanalCommand, CanalCommand,
     Next, NetworkThread
<1>8. QED
  BY <1>3, <1>4, <1>5, <1>6, <1>7
     DEF Treat, AuthCommand, ApplicationListCommand, CommandListCommand, PingCommand,
         ReloadAppCommand, UnloadAppCommand, StopCommand

LEMMA PromptIsCanalStep ==
  ASSUME PInv, [NextPrompt]_allVars
  PROVE  [Next]_vars \/ (Defined /\ Silent)
<1>1. CASE ServerStep
  <2>1. CASE StartServer
    <3>1. Boot
      BY <2>1, CanalAssumption DEF StartServer, Boot
    <3>2. QED
      BY <3>1 DEF Next
  <2>2. ASSUME NEW u \in User, Receive(u) PROVE [Next]_vars \/ (Defined /\ Silent)
    <3> DEFINE q == Head(toServer[u])
    <3>1. /\ Defined /\ Good /\ toServer[u] # <<>> /\ (Treat(q) \/ Refuse(q))
      BY <2>2 DEF Receive, NetworkReady, Up, PInv
    <3>2. toServer \in [User -> Seq(ToServer)] /\ Consistent
      BY <3>1 DEF Good, WireTypes
    <3>3. q \in ToServer /\ q.user = u
      BY <3>1, <3>2, QueueFacts DEF PInv, RequestsCarryOwnId
    <3> HIDE DEF q
    <3>4. CASE Treat(q)
      BY <3>1, <3>2, <3>3, <3>4, TreatIsCanalStep
    <3>5. CASE Refuse(q)
      BY <3>1, <3>5, NoChangeIsSilent DEF Refuse
    <3>6. QED
      BY <3>1, <3>4, <3>5
  <2>3. ASSUME NEW u \in User, OnClose(u) PROVE Defined /\ Silent
    BY <2>3, NoChangeIsSilent DEF OnClose, NetworkReady, Up
  <2>4. CASE FreeUserID \/ ServerEnds \/ \E u \in User : RemoveUser(u)
    BY <2>4, NoChangeIsSilent DEF RemoveUser, FreeUserID, ServerEnds, Up
  <2>5. CASE SendMessage
    BY <2>5 DEF SendMessage, Next, NetworkThread
  <2>6. CASE LeaveCanals
    <3>1. Defined /\ Good
      BY <2>6 DEF LeaveCanals, Up, PInv
    <3>2. removing \in User
      BY <2>6, <3>1 DEF LeaveCanals, Good, WireTypes
    <3>3. QED
      BY <2>6, <3>2 DEF LeaveCanals, Next, UpdateThread
  <2>7. QED
    BY <1>1, <2>1, <2>2, <2>3, <2>4, <2>5, <2>6 DEF ServerStep
<1>2. ASSUME NEW c \in Client, Type(c) PROVE Defined /\ Silent
  <2>1. Defined /\ NoCanalChange
    BY <1>2 DEF Type, HandleConnect, HandleStop, HandleDisconnect, Quit, HandleList, HandleAwait,
       HandleQuery, HandleAuth, HandlePing, HandleEvent, HandleCanalCreate, HandleCanal,
       UpdateCanalList, Ask, Ready, NoServerChange, NoServerChangeBut, userVars, AcceptSession
  <2>2. QED
    BY <2>1, NoChangeIsSilent
<1>3. ASSUME NEW c \in Client, ReceiveEvent(c) \/ ReceiveThrows(c) PROVE Defined /\ Silent
  BY <1>3, NoChangeIsSilent DEF ReceiveEvent, ReceiveThrows, NoServerChange, NoServerChangeBut, userVars
<1>4. CASE UNCHANGED allVars
  BY <1>4 DEF allVars, canalVars, vars
<1>5. QED
  BY <1>1, <1>2, <1>3, <1>4 DEF NextPrompt

LEMMA QuietWithClients == SpecPrompt => []Quiet
<1>1. InitPrompt => Quiet
  BY DEF InitPrompt, InitServer, Init, Quiet
<1>2. Quiet /\ [Next]_vars => Quiet'
  BY QuietSteps
<1>3. Quiet /\ Silent => Quiet'
  BY DEF Quiet, Silent
<1>4. PInv /\ Quiet /\ [NextPrompt]_allVars => Quiet'
  BY <1>2, <1>3, PromptIsCanalStep
<1>5. QED
  BY PInvInductive, <1>1, <1>4, PTL DEF SpecPrompt

\* The server with its clients implements the rooms, too: whatever the clients'
\* users type, to them canals are what Rooms says (the commands on canals in
\* src/Nectere/Command on top of CanalManager.cpp).
THEOREM RoomsWithClients == SpecPrompt => ImplementsRooms
<1>1. InitPrompt => Promise!Init
  BY InitRefines DEF InitPrompt, InitServer
<1>2. PInv /\ [NextPrompt]_allVars => [Promise!Next]_(Promise!vars)
  <2> SUFFICES ASSUME PInv, [NextPrompt]_allVars PROVE [Promise!Next]_(Promise!vars)
    OBVIOUS
  <2>1. CASE [Next]_vars
    BY <2>1, StepRefines DEF IInv, PInv, Good
  <2>2. CASE Silent
    <3>1. RoomsOf' = RoomsOf /\ (Defined' <=> Defined)
      BY <2>2, SameRooms DEF Silent, Defined
    <3>2. QED
      BY <3>1 DEF Promise!vars
  <2>3. QED
    BY <2>1, <2>2, PromptIsCanalStep
<1>3. QED
  BY PInvInductive, <1>1, <1>2, PTL DEF SpecPrompt, ImplementsRooms, Promise!Spec

\* With clients that come and go as well, no id is put out of a canal by what
\* another one does: only by its own commands, or when its owner is removed, the
\* last owner if it has an heir by then.
THEOREM OwnDepartureWithClients == SpecPrompt => OnlyOwnDeparture
<1>1. PInv /\ [NextPrompt]_allVars =>
        [status' = "defined" =>
           \A u \in User, c \in DOMAIN canals :
             u \in canals[c].users /\ (c \in DOMAIN canals' => u \notin canals'[c].users)
               => OwnDeparture(u, c)]_vars
  <2> SUFFICES ASSUME PInv, [NextPrompt]_allVars, ~UNCHANGED vars, Defined' PROVE Departures
    BY DEF Departures, Defined
  <2>1. CASE [Next]_vars
    BY <2>1, StepDeparts, StaysUndefined DEF PInv, Good
  <2>2. CASE Silent
    BY <2>2 DEF Silent, Departures
  <2>3. QED
    BY <2>1, <2>2, PromptIsCanalStep
<1>2. QED
  BY PInvInductive, <1>1, PTL DEF SpecPrompt, OnlyOwnDeparture
-----------------------------------------------------------------------------
(* Hardly anybody ever hears that a canal is gone. *)

\* No session has been sent CANAL_DELETED, but one that got its id before its last
\* owner had left its canals: any other event of that code is a request of the
\* client's own, refused.
OnlyHeirsHearDeleted ==
  Defined => \A u \in User \ heirs : \A i \in DOMAIN toClient[u] :
               toClient[u][i].code = "deleted" => toClient[u][i].error

Unheard(s) == \A i \in DOMAIN s : s[i].code = "deleted" => s[i].error

LEMMA UnheardGrows ==
  ASSUME NEW S, NEW s \in Seq(S), NEW e, Unheard(s), e.code = "deleted" => e.error
  PROVE  Unheard(Append(s, e))
<1>1. DOMAIN Append(s, e) = 1 .. Len(s) + 1 /\ DOMAIN s = 1 .. Len(s) /\ Len(s) \in Nat
  OBVIOUS
<1>2. Append(s, e)[Len(s) + 1] = e /\ \A i \in 1 .. Len(s) : Append(s, e)[i] = s[i]
  OBVIOUS
<1>3. QED
  BY <1>1, <1>2 DEF Unheard

LEMMA UnheardShrinks ==
  ASSUME NEW S, NEW s \in Seq(S), s # <<>>, Unheard(s)
  PROVE  Unheard(Tail(s))
<1>1. DOMAIN Tail(s) = 1 .. Len(s) - 1 /\ DOMAIN s = 1 .. Len(s) /\ Len(s) \in Nat
  OBVIOUS
<1>2. \A i \in 1 .. Len(s) - 1 : Tail(s)[i] = s[i + 1] /\ i + 1 \in 1 .. Len(s)
  BY <1>1
<1>3. QED
  BY <1>1, <1>2 DEF Unheard

LEMMA UnheardReplies ==
  ASSUME toClient \in [User -> Seq(ToClient)], \A u \in User \ heirs : Unheard(toClient[u]),
         NEW ids, NEW code, NEW error, NEW app, NEW data, code # "deleted" \/ error,
         SendEvent(ids, OnWire(code, error, app, data))
  PROVE  \A u \in User \ heirs : Unheard(toClient'[u])
<1> DEFINE e == OnWire(code, error, app, data)
<1>1. e.code = "deleted" => e.error
  BY DEF OnWire
<1> HIDE DEF e
<1>2. \A u \in User \ heirs : Unheard(Append(toClient[u], e))
  BY <1>1, UnheardGrows
<1>3. QED
  BY <1>2 DEF SendEvent, e

\* CANAL_DELETED goes to the user being disconnected, or to its heir.
LEMMA UnheardCanals ==
  ASSUME Good, \A u \in User \ heirs : Unheard(toClient[u]), Told, SendCanalEvents
  PROVE  \A u \in User \ heirs : Unheard(toClient'[u])
<1>1. toClient \in [User -> Seq(ToClient)] /\ (leaving # None => removing = leaving.user)
      /\ \A u \in User : session[u] = "open" /\ u \notin heirs => removing # u
  BY DEF Good, WireTypes, Sessions
<1>2. ASSUME NEW u \in User \ heirs, session[u] = "open", NEW e \in out', e.to = u
      PROVE  Unheard(Append(toClient[u], CanalEvent(e)))
  <2>1. e.code # "deleted"
    BY <1>1, <1>2 DEF Told
  <2>2. CanalEvent(e).code # "deleted"
    BY <2>1 DEF CanalEvent, OnWire
  <2>3. QED
    BY <1>1, <2>2, UnheardGrows
<1>3. ASSUME NEW u \in User \ heirs PROVE Unheard(toClient'[u])
  <2>1. CASE session[u] = "open" /\ \E e \in out' : e.to = u
    <3> DEFINE e == CHOOSE x \in out' : x.to = u
    <3>1. e \in out' /\ e.to = u
      BY <2>1
    <3>2. toClient'[u] = Append(toClient[u], CanalEvent(e))
      BY <2>1 DEF SendCanalEvents
    <3> HIDE DEF e
    <3>3. QED
      BY <1>2, <2>1, <3>1, <3>2
  <2>2. CASE ~(session[u] = "open" /\ \E e \in out' : e.to = u)
    BY <2>2 DEF SendCanalEvents
  <2>3. QED
    BY <2>1, <2>2
<1>4. QED
  BY <1>3

LEMMA UnheardTreat ==
  ASSUME Good, Told, \A u \in User \ heirs : Unheard(toClient[u]), NEW q, Treat(q)
  PROVE  \A u \in User \ heirs : Unheard(toClient'[u])
<1>1. toClient \in [User -> Seq(ToClient)]
  BY DEF Good, WireTypes
<1>2. ASSUME NEW code, code # "deleted", NEW error, NEW data, Reply(q.user, code, error, data)
      PROVE  \A u \in User \ heirs : Unheard(toClient'[u])
  BY <1>1, <1>2, UnheardReplies DEF Reply
<1>3. CASE SendCanalEvents
  BY <1>3, UnheardCanals
<1>4. CASE \/ AuthCommand(q) \/ ApplicationListCommand(q) \/ CommandListCommand(q)
           \/ PingCommand(q) \/ ReloadAppCommand(q) \/ UnloadAppCommand(q) \/ StopCommand(q)
  BY <1>2, <1>4 DEF AuthCommand, ApplicationListCommand, CommandListCommand, PingCommand,
     ReloadAppCommand, UnloadAppCommand, StopCommand
<1>5. CASE (q.code = "create" /\ CreateCanalCommand(q)) \/ (q.code = "delete" /\ DeleteCanalCommand(q))
  <2>1. SendCanalEvents \/ (q.code # "deleted" /\ Reply(q.user, q.code, TRUE, Text))
    BY <1>5 DEF CreateCanalCommand, DeleteCanalCommand, Authenticated
  <2>2. QED
    BY <1>2, <1>3, <2>1
<1>6. CASE \/ JoinCanalCommand(q) \/ LeaveCanalCommand(q) \/ ListCanalCommand(q)
           \/ MessageCanalCommand(q)
  BY <1>3, <1>6 DEF JoinCanalCommand, LeaveCanalCommand, ListCanalCommand, MessageCanalCommand,
     CanalCommand
<1>7. QED
  BY <1>4, <1>5, <1>6 DEF Treat

LEMMA CanalStepTells ==
  ASSUME Consistent, Defined, Quiet, Next \/ Silent PROVE Told
<1>1. CASE Next
  BY <1>1, StepTells
<1>2. CASE Silent
  BY <1>2, NoNotice DEF Silent, Told
<1>3. QED
  BY <1>1, <1>2

LEMMA UnheardServer ==
  ASSUME PInv, Quiet, OnlyHeirsHearDeleted, ServerStep, Defined'
  PROVE  heirs' = heirs /\ \A u \in User \ heirs : Unheard(toClient'[u])
<1>1. Defined /\ Good /\ Consistent
  <2>1. StartServer => UNCHANGED status
    BY DEF StartServer, StartServing, Configure
  <2>2. Defined
    BY <2>1 DEF ServerStep, Receive, OnClose, NetworkReady, RemoveUser, FreeUserID, ServerEnds,
       SendMessage, LeaveCanals, Up, Defined
  <2>3. QED
    BY <2>2 DEF PInv, Good
<1>2. toClient \in [User -> Seq(ToClient)] /\ toServer \in [User -> Seq(ToServer)]
      /\ \A u \in User \ heirs : Unheard(toClient[u])
  BY <1>1 DEF OnlyHeirsHearDeleted, Unheard, Good, WireTypes
<1>3. CASE StartServer \/ FreeUserID \/ ServerEnds \/ \E u \in User : RemoveUser(u)
  BY <1>2, <1>3 DEF StartServer, RemoveUser, FreeUserID, ServerEnds, serverVars, userVars
<1>4. ASSUME NEW u \in User, Receive(u) PROVE \A v \in User \ heirs : Unheard(toClient'[v])
  <2> DEFINE q == Head(toServer[u])
  <2>1. toServer[u] # <<>> /\ (Treat(q) \/ Refuse(q))
    BY <1>4 DEF Receive
  <2>2. q \in ToServer /\ q.user = u
    BY <1>2, <2>1, QueueFacts DEF PInv, RequestsCarryOwnId
  <2> HIDE DEF q
  <2>3. CASE Treat(q)
    <3>1. Told
      BY <1>1, <2>2, <2>3, TreatIsCanalStep, CanalStepTells
    <3>2. QED
      BY <1>1, <1>2, <2>3, <3>1, UnheardTreat
  <2>4. CASE Refuse(q)
    BY <1>2, <2>4, UnheardReplies DEF Refuse
  <2>5. QED
    BY <2>1, <2>3, <2>4
<1>5. ASSUME NEW u \in User, OnClose(u) PROVE \A v \in User \ heirs : Unheard(toClient'[v])
  BY <1>2, <1>5 DEF OnClose, Unheard
<1>6. CASE SendMessage \/ LeaveCanals
  <2>1. SendCanalEvents /\ (LeaveCanals => removing \in User)
    BY <1>1, <1>6 DEF SendMessage, LeaveCanals, Good, WireTypes
  <2>2. heirs' = heirs
    BY <1>6 DEF SendMessage, LeaveCanals, userVars
  <2>3. Next /\ Told
    <3>1. Next
      BY <1>6, <2>1 DEF SendMessage, LeaveCanals, Next, NetworkThread, UpdateThread
    <3>2. QED
      BY <1>1, <3>1, CanalStepTells
  <2>4. QED
    BY <1>1, <1>2, <2>1, <2>2, <2>3, UnheardCanals
<1>7. heirs' = heirs
  BY DEF ServerStep, StartServer, Receive, OnClose, RemoveUser, FreeUserID, ServerEnds,
     SendMessage, LeaveCanals, serverVars, userVars
<1>8. QED
  BY <1>3, <1>4, <1>5, <1>6, <1>7 DEF ServerStep

LEMMA UnheardClient ==
  ASSUME PInv, OnlyHeirsHearDeleted, NEW c \in Client,
         Type(c) \/ ReceiveEvent(c) \/ ReceiveThrows(c)
  PROVE  \A u \in User \ heirs' : Unheard(toClient'[u])
<1>1. Defined
  BY DEF Type, HandleConnect, HandleStop, HandleDisconnect, Quit, HandleList, HandleAwait,
     HandleQuery, HandleAuth, HandlePing, HandleEvent, HandleCanalCreate, HandleCanal, Ready,
     ReceiveEvent, ReceiveThrows
<1>2. toClient \in [User -> Seq(ToClient)] /\ \A u \in User \ heirs : Unheard(toClient[u])
  BY <1>1 DEF OnlyHeirsHearDeleted, Unheard, PInv, Good, WireTypes
<1>3. CASE UNCHANGED <<toClient, heirs>>
  BY <1>2, <1>3
<1>4. ASSUME NEW u \in User, AcceptSession(u) PROVE \A v \in User \ heirs' : Unheard(toClient'[v])
  <2>1. Unheard(<<Greeting(u)>>)
    BY DEF Unheard, Greeting, OnWire
  <2>2. toClient' = [toClient EXCEPT ![u] = <<Greeting(u)>>]
    BY <1>4 DEF AcceptSession, Greeting
  <2>3. \A v \in User \ heirs' : v = u \/ v \notin heirs
    BY <1>4 DEF AcceptSession
  <2>4. QED
    BY <1>2, <2>1, <2>2, <2>3
<1>5. CASE ReceiveEvent(c)
  <2>1. Linked(c) /\ toClient[socket[c]] # <<>>
    BY <1>5 DEF ReceiveEvent
  <2>2. toClient' = [toClient EXCEPT ![socket[c]] = Tail(@)]
    BY <1>5 DEF ReceiveEvent, Handle, AfterList, Take, TakeAndEnd
  <2>3. heirs' = heirs
    BY <1>5 DEF ReceiveEvent, NoServerChangeBut, userVars
  <2>4. socket[c] \notin heirs => Unheard(Tail(toClient[socket[c]]))
    BY <1>2, <2>1, UnheardShrinks DEF Linked
  <2>5. QED
    BY <1>2, <2>1, <2>2, <2>3, <2>4 DEF Linked
<1>6. CASE ReceiveThrows(c)
  BY <1>3, <1>6 DEF ReceiveThrows, NoServerChange, serverVars, userVars
<1>7. CASE Type(c)
  BY <1>3, <1>4, <1>7 DEF Type, HandleConnect, HandleStop, HandleDisconnect, Quit, HandleList,
     HandleAwait, HandleQuery, HandleAuth, HandlePing, HandleEvent, HandleCanalCreate, HandleCanal,
     UpdateCanalList, Ask, Sent, NoServerChange, NoServerChangeBut, serverVars, userVars
<1>8. QED
  BY <1>5, <1>6, <1>7

\* CANAL_DELETED comes to no client, whatever the clients do, but to the heir of an
\* id whose last owner was still in canals (UserManager::RemoveUserInstant frees it
\* first): a canal is deleted when no other user is linked to it, although
\* CanalManager::DeleteCanal sends the event to every user still linked.
THEOREM OnlyHeirsHearDeletedTheorem == SpecPrompt => []OnlyHeirsHearDeleted
<1>1. InitPrompt => OnlyHeirsHearDeleted
  BY DEF InitPrompt, InitServer, OnlyHeirsHearDeleted
<1>2. PInv /\ Quiet /\ OnlyHeirsHearDeleted /\ [NextPrompt]_allVars => OnlyHeirsHearDeleted'
  <2> SUFFICES ASSUME PInv, Quiet, OnlyHeirsHearDeleted, [NextPrompt]_allVars, Defined'
               PROVE  \A u \in User \ heirs' : Unheard(toClient'[u])
    BY DEF OnlyHeirsHearDeleted, Unheard
  <2>1. CASE ServerStep
    BY <2>1, UnheardServer
  <2>2. CASE \E c \in Client : Type(c) \/ ReceiveEvent(c) \/ ReceiveThrows(c)
    BY <2>2, UnheardClient
  <2>3. CASE UNCHANGED allVars
    BY <2>3 DEF OnlyHeirsHearDeleted, Unheard, allVars, canalVars, serverVars, userVars, Defined
  <2>4. QED
    BY <2>1, <2>2, <2>3 DEF NextPrompt
<1>3. QED
  BY PInvInductive, QuietWithClients, <1>1, <1>2, PTL DEF SpecPrompt
=============================================================================
