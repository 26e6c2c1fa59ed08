-------------------------- MODULE CanalStepProofs --------------------------
(***************************************************************************)
(* What a step of CanalManager may do, for any users, names, passwords,    *)
(* limits and width of an id: whom it puts out of a canal, whom it tells   *)
(* that a canal is gone, when it says that a user has left them all, and   *)
(* that it is a step of the rooms of Rooms.                                *)
(***************************************************************************)
EXTENDS CanalManagerProofs

\* Before the server serves, nothing is sent and no call is in progress.
Quiet == ~serving => out = {} /\ peek = None /\ leaving = None

LEMMA QuietSteps == ASSUME Quiet, [Next]_vars PROVE Quiet'
<1> SUFFICES ASSUME ~serving' PROVE Quiet'
  BY DEF Quiet
<1>1. CASE Boot
  BY <1>1 DEF Boot, Configure, StartServing, Quiet
<1>2. CASE NetworkThread
  BY <1>2 DEF NetworkThread, CreateCanal, ListCanal, DeleteCanal, JoinCanal, LeaveCanal,
     MessageCanal, MessageSend, LockedCommandReady, CommandReady, Quiet
<1>3. CASE UpdateThread
  <2>1. CASE LeaveNext \/ LeaveAllEnd
    BY <2>1 DEF LeaveNext, LeaveAllEnd, MutexFree, Quiet
  <2>2. ASSUME NEW c \in Id, LeaveOne(c) PROVE Quiet'
    BY <2>2 DEF LeaveOne, MutexFree, Quiet
  <2>3. QED
    BY <1>3, <2>1, <2>2 DEF UpdateThread, LeaveAllCanal, Update, Quiet
<1>4. CASE UNCHANGED vars
  BY <1>4 DEF vars, Quiet
<1>5. QED
  BY <1>1, <1>2, <1>3, <1>4 DEF Next

LEMMA QuietInductive == Spec => []Quiet
<1>1. Init => Quiet
  BY DEF Init, Quiet
<1>2. QED
  BY <1>1, QuietSteps, PTL DEF Spec

\* Who is still linked to a canal nobody but u is in: at most u, or the user
\* that is being disconnected.
LEMMA NobodyElseLinked ==
  ASSUME Consistent, Defined, NEW u \in User, NEW c \in DOMAIN canals,
         canals[c].users \ {u} = {}, NEW v \in User, c \in links[v]
  PROVE  v = u \/ (leaving # None /\ leaving.user = v)
BY Facts DEF LinkedTo

\* What a step that adds a canal, or deletes one, does to the tables.
LEMMA AddedCanal ==
  ASSUME Consistent, Defined, NEW name \in CanalName, NEW password \in Password,
         NEW limit \in Limit, AddCanal(name, password, limit), MutexFree
  PROVE  LET id == IdFrom(gen)
         IN  /\ id \notin DOMAIN canals /\ name \notin DOMAIN dictionary
             /\ DOMAIN canals' = DOMAIN canals \cup {id}
             /\ canals'[id] = NewCanal(name, password, limit)
             /\ \A c \in DOMAIN canals : canals'[c] = canals[c]
             /\ DOMAIN dictionary' = DOMAIN dictionary \cup {name}
             /\ dictionary'[name] = id
             /\ \A n \in DOMAIN dictionary : dictionary'[n] = dictionary[n]
<1> DEFINE id == IdFrom(gen)
<1>1. Accounted(gen, DOMAIN canals, 0) /\ Spare(DOMAIN canals, 0) /\ 0 \in Id /\ gen \in Generator
  BY IdSpaceAssumption DEF Consistent, TypeOK, CanalIdsAccounted, Defined, AddCanal, Id, Gone, MutexFree
<1>2. id \notin DOMAIN canals
  BY <1>1, Facts, GenerateFresh
<1>3. /\ name \notin DOMAIN dictionary
      /\ dictionary' = With(dictionary, name, id)
      /\ canals' = With(canals, id, NewCanal(name, password, limit))
  BY DEF AddCanal
<1> HIDE DEF id
<1>4. /\ DOMAIN canals' = DOMAIN canals \cup {id}
      /\ canals'[id] = NewCanal(name, password, limit)
      /\ \A c \in DOMAIN canals : canals'[c] = canals[c]
  BY <1>2, <1>3 DEF With
<1>5. /\ DOMAIN dictionary' = DOMAIN dictionary \cup {name}
      /\ dictionary'[name] = id
      /\ \A n \in DOMAIN dictionary : dictionary'[n] = dictionary[n]
  BY <1>3 DEF With
<1>6. QED
  BY <1>2, <1>3, <1>4, <1>5 DEF id

LEMMA RemovedCanal ==
  ASSUME Consistent, Defined, Gone = {}, NEW c \in DOMAIN canals, NEW cs,
         DOMAIN cs = DOMAIN canals, cs[c].name = canals[c].name,
         \A d \in DOMAIN canals \ {c} : cs[d] = canals[d],
         NEW next, RemoveCanal(cs, c, next)
  PROVE  /\ canals[c].name \in DOMAIN dictionary
         /\ dictionary' = Without(dictionary, canals[c].name)
         /\ DOMAIN canals' = DOMAIN canals \ {c}
         /\ \A d \in DOMAIN canals \ {c} : canals'[d] = canals[d]
<1>1. canals[c].name \in DOMAIN dictionary
  BY DEF Consistent, NamesAndIds, Defined
<1>2. dictionary' = Without(dictionary, canals[c].name) /\ canals' = Without(cs, c)
  BY <1>1 DEF RemoveCanal
<1>3. QED
  BY <1>1, <1>2 DEF Without

LEMMA TableWithoutOne ==
  ASSUME Consistent, Defined, NEW u \in User, NEW c \in DOMAIN canals
  PROVE  LET cs == TableWithout(u, c)
         IN  /\ DOMAIN cs = DOMAIN canals
             /\ cs[c].users = canals[c].users \ {u} /\ cs[c].name = canals[c].name
             /\ cs[c].limit = canals[c].limit /\ cs[c].marked = canals[c].marked
             /\ \A d \in DOMAIN canals \ {c} : cs[d] = canals[d]
<1>1. canals[c] \in Canal
  BY Facts
<1>2. TableWithout(u, c) = [canals EXCEPT ![c] = [canals[c] EXCEPT !.users = @ \ {u}]]
  BY Facts DEF TableWithout
<1>3. QED
  BY <1>1, <1>2, Facts DEF Canal

\* Update finds nothing to delete, and MessageSend may only put back the canal
\* that LeaveAllCanal has just deleted.
LEMMA UpdateKeeps ==
  ASSUME Consistent, Defined, Update
  PROVE  UNCHANGED <<canals, dictionary>> /\ out' = {}
<1> DEFINE toDelete == {c \in DOMAIN canals : canals[c].marked /\ canals[c].users = {}}
<1>1. toDelete = {}
  BY DEF Consistent, MarkedInUse, Defined
<1>2. /\ canals' = [c \in DOMAIN canals \ toDelete |-> canals[c]]
      /\ dictionary' = [n \in DOMAIN dictionary \ {canals[c].name : c \in toDelete} |-> dictionary[n]]
      /\ out' = UNION {Notices(c) : c \in toDelete}
  BY DEF Update
<1>3. canals \in [DOMAIN canals -> Canal] /\ dictionary \in [DOMAIN dictionary -> Id]
  BY DEF Consistent, TypeOK
<1> HIDE DEF toDelete
<1>4. canals' = canals
  <2>1. canals' = [c \in DOMAIN canals |-> canals[c]]
    BY <1>1, <1>2
  <2>2. QED
    BY <1>3, <2>1
<1>5. dictionary' = dictionary
  <2>1. dictionary' = [n \in DOMAIN dictionary |-> dictionary[n]]
    BY <1>1, <1>2
  <2>2. QED
    BY <1>3, <2>1
<1>6. out' = {}
  BY <1>1, <1>2
<1>7. QED
  BY <1>4, <1>5, <1>6

LEMMA MessageSendKeeps ==
  ASSUME Consistent, Defined, MessageSend
  PROVE  /\ UNCHANGED dictionary
         /\ \A c \in DOMAIN canals : c \in DOMAIN canals' /\ canals'[c] = canals[c]
BY DEF MessageSend, With
-----------------------------------------------------------------------------
\* A command's own answer is no notice.
LEMMA NoNotice ==
  ASSUME NEW u, NEW c, NEW code, code # "deleted"
  PROVE  Answer(u, c, code).code # "deleted" /\ Error(u, c, code).code # "deleted"
BY DEF Answer, Error

Told == \A e \in out' : e.code = "deleted" => leaving # None /\ leaving.user = e.to

LEMMA StepTells ==
  ASSUME Consistent, Defined, Quiet, Next
  PROVE  Told
<1>1. CASE Boot
  BY <1>1 DEF Boot, Configure, StartServing, Quiet, Told
<1>2. ASSUME NEW u \in User, NEW name \in CanalName, NEW password \in Password,
             NEW limit \in Limit, CreateCanal(u, name, password, limit)
      PROVE  Told
  BY <1>2, NoNotice DEF CreateCanal, Told
<1>3. ASSUME NEW u \in User, ListCanal(u) PROVE Told
  BY <1>3, NoNotice DEF ListCanal, Told
<1>4. ASSUME NEW u \in User, NEW c \in Id, DeleteCanal(u, c) PROVE Told
  <2>1. CASE c \in DOMAIN canals /\ canals[c].users = {}
    <3>1. \A v \in User : c \notin links[v]
      BY <1>4, <2>1, Facts DEF DeleteCanal, LockedCommandReady, MutexFree, LinkedTo
    <3>2. Notices(c) = {}
      BY <3>1 DEF Notices
    <3>3. out' = {Answer(u, c, "delete")}
      BY <1>4, <2>1, <3>2 DEF DeleteCanal
    <3>4. QED
      BY <3>3, NoNotice DEF Told
  <2>2. CASE ~(c \in DOMAIN canals /\ canals[c].users = {})
    BY <1>4, <2>2, NoNotice DEF DeleteCanal, Told
  <2>3. QED
    BY <2>1, <2>2
<1>5. ASSUME NEW u \in User, NEW c \in Id, NEW password \in Password,
             JoinCanal(u, c, password)
      PROVE  Told
  BY <1>5, NoNotice DEF JoinCanal, Told
<1>6. ASSUME NEW u \in User, NEW c \in Id, LeaveCanal(u, c) PROVE Told
  <2>1. CASE c \in DOMAIN canals /\ c \in links[u] /\ LastOfMarked(u, c)
    <3>1. out' = (Notices(c) \ {Answer(u, c, "deleted")}) \cup {Answer(u, c, "leave")}
      BY <1>6, <2>1 DEF LeaveCanal
    <3>2. \A v \in User : c \in links[v] => v = u
      BY <1>6, <2>1, NobodyElseLinked
         DEF LastOfMarked, LeaveCanal, LockedCommandReady, MutexFree
    <3>3. Notices(c) \subseteq {Answer(u, c, "deleted")}
      BY <3>2 DEF Notices
    <3>4. QED
      BY <3>1, <3>3, NoNotice DEF Told
  <2>2. CASE ~(c \in DOMAIN canals /\ c \in links[u] /\ LastOfMarked(u, c))
    BY <1>6, <2>2, NoNotice DEF LeaveCanal, Told
  <2>3. QED
    BY <2>1, <2>2
<1>7. ASSUME NEW u \in User, NEW c \in Id, MessageCanal(u, c) PROVE Told
  BY <1>7 DEF MessageCanal, Told
<1>8. CASE MessageSend
  BY <1>8, NoNotice DEF MessageSend, Told
<1>9. ASSUME NEW u \in User, LeaveAllCanal(u) PROVE Told
  BY <1>9 DEF LeaveAllCanal, Told
<1>10. ASSUME NEW c \in Id, LeaveOne(c) PROVE Told
  <2>1. leaving # None /\ leaving.user \in User
    BY <1>10, Facts DEF LeaveOne, MutexFree
  <2>2. CASE c \in DOMAIN canals /\ LastOfMarked(leaving.user, c)
    <3>1. out' = Notices(c)
      BY <1>10, <2>2 DEF LeaveOne
    <3>2. \A v \in User : c \in links[v] => v = leaving.user
      BY <2>1, <2>2, NobodyElseLinked DEF LastOfMarked
    <3>3. QED
      BY <2>1, <3>1, <3>2 DEF Notices, Answer, Told
  <2>3. CASE ~(c \in DOMAIN canals /\ LastOfMarked(leaving.user, c))
    BY <1>10, <2>3 DEF LeaveOne, Told
  <2>4. QED
    BY <2>2, <2>3
<1>11. CASE LeaveNext \/ LeaveAllEnd
  BY <1>11 DEF LeaveNext, LeaveAllEnd, Told
<1>12. CASE Update
  BY <1>12, UpdateKeeps DEF Told
<1>13. QED
  BY <1>1, <1>2, <1>3, <1>4, <1>5, <1>6, <1>7, <1>8, <1>9, <1>10, <1>11, <1>12
     DEF Next, NetworkThread, UpdateThread

\* CANAL_DELETED goes to nobody but the user being disconnected.
THEOREM DeletedToNobodyTheorem == Spec => DeletedToNobody
<1>1. IInv /\ Quiet /\ [Next]_vars =>
        [status = "defined" => \A e \in out' :
           e.code = "deleted" => leaving # None /\ leaving.user = e.to]_vars
  BY StepTells DEF IInv, Defined, Told
<1>2. QED
  BY IInvInductive, QuietInductive, <1>1, PTL DEF Spec, DeletedToNobody
-----------------------------------------------------------------------------
Departures ==
  \A u \in User, c \in DOMAIN canals :
    u \in canals[c].users /\ (c \in DOMAIN canals' => u \notin canals'[c].users)
      => OwnDeparture(u, c)

LEMMA StepDeparts ==
  ASSUME Consistent, Defined, Next, Defined'
  PROVE  Departures
<1> USE DEF Departures
<1>1. ASSUME NEW name \in CanalName, NEW password \in Password, NEW limit \in Limit,
             AddCanal(name, password, limit), MutexFree
      PROVE  Departures
  <2>1. \A c \in DOMAIN canals : c \in DOMAIN canals' /\ canals'[c] = canals[c]
    BY <1>1, AddedCanal
  <2>2. QED
    BY <2>1
<1>2. CASE UNCHANGED canals
  BY <1>2
<1>3. ASSUME NEW u \in User, NEW c \in Id, DeleteCanal(u, c) PROVE Departures
  <2>1. CASE c \in DOMAIN canals /\ canals[c].users = {}
    <3>1. RemoveCanal(canals, c, status)
      BY <1>3, <2>1 DEF DeleteCanal
    <3>2. \A d \in DOMAIN canals \ {c} : d \in DOMAIN canals' /\ canals'[d] = canals[d]
      BY <1>3, <2>1, <3>1, Facts, RemovedCanal DEF DeleteCanal, LockedCommandReady, MutexFree
    <3>3. QED
      BY <2>1, <3>2
  <2>2. CASE c \in DOMAIN canals /\ canals[c].users # {}
    <3>1. canals' = [canals EXCEPT ![c].marked = TRUE]
      BY <1>3, <2>2 DEF DeleteCanal
    <3>2. canals[c] \in Canal /\ canals' = [canals EXCEPT ![c] = [canals[c] EXCEPT !.marked = TRUE]]
      BY <2>2, <3>1, Facts
    <3>3. \A d \in DOMAIN canals : d \in DOMAIN canals' /\ canals'[d].users = canals[d].users
      BY <2>2, <3>2, Facts DEF Canal
    <3>4. QED
      BY <3>3
  <2>3. CASE c \notin DOMAIN canals
    BY <1>2, <1>3, <2>3 DEF DeleteCanal
  <2>4. QED
    BY <2>1, <2>2, <2>3
<1>4. ASSUME NEW u \in User, NEW c \in Id, NEW password \in Password,
             JoinCanal(u, c, password)
      PROVE  Departures
  <2>1. CASE CanJoin(c, password)
    <3>1. c \in DOMAIN canals /\ canals[c] \in Canal
      BY <2>1, Facts DEF CanJoin
    <3>2. canals' = [canals EXCEPT ![c] = [canals[c] EXCEPT !.users = @ \cup {u}]]
      BY <1>4, <2>1, <3>1 DEF JoinCanal
    <3>3. \A d \in DOMAIN canals : d \in DOMAIN canals' /\ canals[d].users \subseteq canals'[d].users
      BY <3>1, <3>2, Facts DEF Canal
    <3>4. QED
      BY <3>3
  <2>2. CASE ~CanJoin(c, password)
    BY <1>2, <1>4, <2>2 DEF JoinCanal
  <2>3. QED
    BY <2>1, <2>2
<1>5. ASSUME NEW u \in User, NEW c \in Id, LeaveCanal(u, c) PROVE Departures
  <2>1. CASE c \in DOMAIN canals /\ c \in links[u]
    <3>1. Answer(u, c, "leave") \in out'
      BY <1>5, <2>1 DEF LeaveCanal
    <3>2. CASE LastOfMarked(u, c)
      <4>1. RemoveCanal(TableWithout(u, c), c, status)
        BY <1>5, <2>1, <3>2 DEF LeaveCanal
      <4>2. \A d \in DOMAIN canals \ {c} : d \in DOMAIN canals' /\ canals'[d] = canals[d]
        BY <1>5, <2>1, <4>1, Facts, TableWithoutOne, RemovedCanal DEF LeaveCanal, LockedCommandReady, MutexFree
      <4>3. \A v \in canals[c].users : v = u
        BY <3>2 DEF LastOfMarked
      <4>4. QED
        BY <3>1, <4>2, <4>3 DEF OwnDeparture
    <3>3. CASE ~LastOfMarked(u, c)
      <4>1. canals' = TableWithout(u, c)
        BY <1>5, <2>1, <3>3 DEF LeaveCanal
      <4>2. QED
        BY <2>1, <3>1, <4>1, TableWithoutOne DEF OwnDeparture
    <3>4. QED
      BY <3>2, <3>3
  <2>2. CASE ~(c \in DOMAIN canals /\ c \in links[u])
    BY <1>2, <1>5, <2>2 DEF LeaveCanal
  <2>3. QED
    BY <2>1, <2>2
<1>6. ASSUME NEW c \in Id, LeaveOne(c) PROVE Departures
  <2>1. leaving # None /\ leaving.user \in User /\ Gone = {}
    BY <1>6, Facts DEF LeaveOne, MutexFree, Gone
  <2>2. CASE c \in DOMAIN canals /\ LastOfMarked(leaving.user, c)
    <3>1. RemoveCanal(TableWithout(leaving.user, c), c, status)
      BY <1>6, <2>2 DEF LeaveOne
    <3>2. \A d \in DOMAIN canals \ {c} : d \in DOMAIN canals' /\ canals'[d] = canals[d]
      BY <2>1, <2>2, <3>1, TableWithoutOne, RemovedCanal
    <3>3. \A v \in canals[c].users : v = leaving.user
      BY <2>2 DEF LastOfMarked
    <3>4. QED
      BY <2>1, <3>2, <3>3 DEF OwnDeparture
  <2>3. CASE c \in DOMAIN canals /\ ~LastOfMarked(leaving.user, c)
    <3>1. canals' = TableWithout(leaving.user, c)
      BY <1>6, <2>3 DEF LeaveOne
    <3>2. QED
      BY <2>1, <2>3, <3>1, TableWithoutOne DEF OwnDeparture
  <2>4. CASE c \notin DOMAIN canals
    BY <1>2, <1>6, <2>4 DEF LeaveOne
  <2>5. QED
    BY <2>2, <2>3, <2>4
<1>7. QED
  <2>1. CASE Boot
    BY <1>1, <1>2, <2>1, Facts DEF Boot, Configure, StartServing, MutexFree
  <2>2. CASE NetworkThread
    BY <1>1, <1>2, <1>3, <1>4, <1>5, <2>2, MessageSendKeeps
       DEF NetworkThread, CreateCanal, LockedCommandReady, ListCanal, MessageCanal
  <2>3. CASE UpdateThread
    BY <1>2, <1>6, <2>3, UpdateKeeps DEF UpdateThread, LeaveAllCanal, LeaveNext, LeaveAllEnd
  <2>4. QED
    BY <2>1, <2>2, <2>3 DEF Next

\* Nobody is put out of a canal by what another user does.
THEOREM OnlyOwnDepartureTheorem == Spec => OnlyOwnDeparture
<1>1. IInv /\ [Next]_vars =>
        [status' = "defined" =>
           \A u \in User, c \in DOMAIN canals :
             u \in canals[c].users /\ (c \in DOMAIN canals' => u \notin canals'[c].users)
               => OwnDeparture(u, c)]_vars
  BY StepDeparts, StaysUndefined DEF IInv, Defined, Departures
<1>2. QED
  BY IInvInductive, <1>1, PTL DEF Spec, OnlyOwnDeparture

\* Until undefined behaviour is executed the log of LeaveAllCanal is right, however
\* the loop and the commands of others were interleaved: the user "has left all
\* canals". Only deleting a canal in the loop makes it wrong (HasLeftAllCanals).
THEOREM LeftAllWhileDefined ==
  Spec => [][Defined /\ leaving # None /\ leaving' = None =>
               \A c \in DOMAIN canals' : leaving.user \notin canals'[c].users]_vars
<1>1. IInv /\ [Next]_vars =>
        [Defined /\ leaving # None /\ leaving' = None =>
           \A c \in DOMAIN canals' : leaving.user \notin canals'[c].users]_vars
  <2> SUFFICES ASSUME Consistent, Defined, Next, leaving # None, leaving' = None,
                      NEW c \in DOMAIN canals'
               PROVE  leaving.user \notin canals'[c].users
    BY DEF IInv
  <2>1. leaving \in [user : User, todo : SUBSET Id, gone : SUBSET Id]
    BY Facts
  <2>2. LeaveAllEnd
    <3>1. \A d \in Id : ~LeaveOne(d)
      <4> SUFFICES ASSUME NEW d \in Id, LeaveOne(d)
                   PROVE  FALSE
        OBVIOUS
      <4>1. PICK todo \in SUBSET Id, gone \in SUBSET Id :
              leaving' = [leaving EXCEPT !.todo = todo, !.gone = gone]
        <5>1. /\ leaving.todo \ {d} \in SUBSET Id /\ {d} \in SUBSET Id
              /\ leaving = [user |-> leaving.user, todo |-> leaving.todo, gone |-> leaving.gone]
          BY <2>1
        <5>2. \/ leaving' = [leaving EXCEPT !.todo = leaving.todo \ {d}, !.gone = {d}]
              \/ leaving' = [leaving EXCEPT !.todo = leaving.todo \ {d}]
          BY DEF LeaveOne
        <5>3. [leaving EXCEPT !.todo = leaving.todo \ {d}]
                = [leaving EXCEPT !.todo = leaving.todo \ {d}, !.gone = leaving.gone]
          BY <5>1
        <5>4. leaving.gone \in SUBSET Id
          BY <2>1
        <5>5. QED
          BY <5>1, <5>2, <5>3, <5>4
      <4>2. leaving' \in [user : User, todo : SUBSET Id, gone : SUBSET Id]
        BY <2>1, <4>1
      <4>3. QED
        BY <4>2, CanalAssumption
    <3>2. ~LeaveNext
      <4> SUFFICES ASSUME LeaveNext PROVE FALSE
        OBVIOUS
      <4>1. leaving' \in [user : User, todo : SUBSET Id, gone : SUBSET Id]
        BY <2>1 DEF LeaveNext
      <4>2. QED
        BY <4>1, CanalAssumption
    <3>3. QED
      BY <3>1, <3>2 DEF Next, Boot, Configure, StartServing, NetworkThread, CreateCanal, ListCanal,
         DeleteCanal, JoinCanal, LeaveCanal, MessageCanal, MessageSend, UpdateThread,
         LeaveAllCanal, Update, MutexFree
  <2>3. canals' = canals /\ leaving.todo = {}
    BY <2>2 DEF LeaveAllEnd
  <2>4. ~LinkedTo(leaving.user, c)
    BY <2>3 DEF LinkedTo
  <2>5. QED
    BY <2>1, <2>3, <2>4, Facts
<1>2. QED
  BY IInvInductive, <1>1, PTL DEF Spec
-----------------------------------------------------------------------------
(* The rooms: a canal seen by its name. *)

RoomOf(canal) == [members |-> canal.users, limit |-> canal.limit, closing |-> canal.marked]

LEMMA RoomsAre ==
  /\ DOMAIN RoomsOf = DOMAIN dictionary
  /\ \A n \in DOMAIN dictionary : RoomsOf[n] = RoomOf(canals[dictionary[n]])
  /\ RoomsOf = [n \in DOMAIN dictionary |-> RoomOf(canals[dictionary[n]])]
BY DEF RoomsOf, RoomOf

LEMMA RoomsWillBe ==
  /\ DOMAIN RoomsOf' = DOMAIN dictionary'
  /\ \A n \in DOMAIN dictionary' : RoomsOf'[n] = RoomOf(canals'[dictionary'[n]])
  /\ RoomsOf' = [n \in DOMAIN dictionary' |-> RoomOf(canals'[dictionary'[n]])]
BY DEF RoomsOf, RoomOf

\* A canal of the table is the room of its name, and of no other.
LEMMA CanalIsRoom ==
  ASSUME Consistent, Defined, Gone = {}, NEW c \in DOMAIN canals
  PROVE  /\ canals[c].name \in DOMAIN dictionary /\ canals[c].name \in CanalName
         /\ RoomsOf[canals[c].name] = RoomOf(canals[c])
         /\ \A n \in DOMAIN dictionary :
              dictionary[n] \in DOMAIN canals /\ (dictionary[n] = c <=> n = canals[c].name)
<1>1. /\ canals[c].name \in DOMAIN dictionary /\ dictionary[canals[c].name] = c
      /\ \A n \in DOMAIN dictionary :
           dictionary[n] \in DOMAIN canals /\ canals[dictionary[n]].name = n
      /\ DOMAIN dictionary \subseteq CanalName
  BY DEF Consistent, TypeOK, NamesAndIds, Defined
<1>2. QED
  BY <1>1, RoomsAre

\* One canal changes: so does one room.
LEMMA ChangedRoom ==
  ASSUME Consistent, Defined, Gone = {}, NEW c \in DOMAIN canals,
         DOMAIN canals' = DOMAIN canals, UNCHANGED dictionary,
         \A d \in DOMAIN canals \ {c} : canals'[d] = canals[d]
  PROVE  RoomsOf' = [RoomsOf EXCEPT ![canals[c].name] = RoomOf(canals'[c])]
<1> DEFINE changed == [RoomsOf EXCEPT ![canals[c].name] = RoomOf(canals'[c])]
<1>1. DOMAIN RoomsOf' = DOMAIN dictionary /\ DOMAIN RoomsOf = DOMAIN dictionary
  BY RoomsAre, RoomsWillBe
<1>2. ASSUME NEW n \in DOMAIN dictionary PROVE RoomsOf'[n] = changed[n]
  BY <1>1, <1>2, CanalIsRoom, RoomsAre, RoomsWillBe
<1>3. RoomsOf' = [n \in DOMAIN dictionary |-> RoomsOf'[n]]
  BY RoomsWillBe
<1>4. changed = [n \in DOMAIN dictionary |-> changed[n]]
  BY <1>1
<1>5. QED
  BY <1>2, <1>3, <1>4

\* One canal goes: so does its room.
LEMMA RemovedRoom ==
  ASSUME Consistent, Defined, Gone = {}, NEW c \in DOMAIN canals,
         dictionary' = Without(dictionary, canals[c].name),
         \A d \in DOMAIN canals \ {c} : canals'[d] = canals[d]
  PROVE  RoomsOf' = Promise!Without(RoomsOf, canals[c].name)
<1> DEFINE rest == DOMAIN dictionary \ {canals[c].name}
<1>1. DOMAIN dictionary' = rest /\ \A n \in rest : dictionary'[n] = dictionary[n]
  BY DEF Without
<1>2. ASSUME NEW n \in rest PROVE RoomOf(canals'[dictionary'[n]]) = RoomsOf[n]
  BY <1>1, CanalIsRoom, RoomsAre
<1>3. RoomsOf' = [n \in rest |-> RoomsOf[n]]
  BY <1>1, <1>2, RoomsWillBe
<1>4. QED
  BY <1>3, RoomsAre DEF Promise!Without

LEMMA SameCardinality == \A S : Promise!Cardinality(S) = Cardinality(S)
BY Zenon DEF Promise!Cardinality, Cardinality

LEMMA MarkedRoom ==
  ASSUME NEW canal
  PROVE  [RoomOf(canal) EXCEPT !.closing = TRUE]
           = [members |-> canal.users, limit |-> canal.limit, closing |-> TRUE]
<1> DEFINE room == RoomOf(canal)
           closed(b) == [room EXCEPT !.closing = b]
<1>1. ASSUME NEW b
      PROVE  closed(b) = [members |-> canal.users, limit |-> canal.limit, closing |-> b]
  BY DEF RoomOf
<1> HIDE DEF closed
<1>2. closed(TRUE) = [members |-> canal.users, limit |-> canal.limit, closing |-> TRUE]
  BY <1>1
<1>3. QED
  BY <1>2 DEF closed

LEMMA SameRooms ==
  ASSUME UNCHANGED <<canals, dictionary>> PROVE RoomsOf' = RoomsOf
BY RoomsAre, RoomsWillBe

\* While the server is sound, each step maps to a step of the rooms.
Opens(n, limit) ==
  /\ n \notin DOMAIN RoomsOf
  /\ RoomsOf' = [m \in DOMAIN RoomsOf \cup {n} |->
                   IF m = n THEN [members |-> {}, limit |-> limit, closing |-> FALSE]
                            ELSE RoomsOf[m]]

Closes(n) ==
  /\ n \in DOMAIN RoomsOf
  /\ RoomsOf' = IF RoomsOf[n].members = {} THEN Promise!Without(RoomsOf, n)
                                          ELSE [RoomsOf EXCEPT ![n].closing = TRUE]

Enters(u, n) ==
  /\ n \in DOMAIN RoomsOf
  /\ RoomsOf[n].limit = -1 \/ Cardinality(RoomsOf[n].members) # RoomsOf[n].limit
  /\ RoomsOf' = [RoomsOf EXCEPT ![n].members = @ \cup {u}]

Exits(u, n) ==
  /\ n \in DOMAIN RoomsOf
  /\ u \in RoomsOf[n].members
  /\ RoomsOf' = IF RoomsOf[n].closing /\ RoomsOf[n].members = {u}
                THEN Promise!Without(RoomsOf, n)
                ELSE [RoomsOf EXCEPT ![n].members = @ \ {u}]

RoomStep ==
  \/ RoomsOf' = RoomsOf
  \/ \E n \in CanalName :
       \/ \E limit \in Limit : Opens(n, limit)
       \/ Closes(n)
       \/ \E u \in User : Enters(u, n) \/ Exits(u, n)

LEMMA AddIsRoomStep ==
  ASSUME Consistent, Defined, NEW name \in CanalName, NEW password \in Password,
         NEW limit \in Limit, AddCanal(name, password, limit), MutexFree
  PROVE  RoomStep
<1> DEFINE room == [members |-> {}, limit |-> limit, closing |-> FALSE]
           opened == [m \in DOMAIN RoomsOf \cup {name} |-> IF m = name THEN room ELSE RoomsOf[m]]
<1>1. name \notin DOMAIN RoomsOf
  BY AddedCanal, RoomsAre
<1>2. RoomOf(canals'[dictionary'[name]]) = room
  <2>1. canals'[dictionary'[name]] = NewCanal(name, password, limit)
    BY AddedCanal
  <2>2. RoomOf(NewCanal(name, password, limit)) = room
    BY DEF RoomOf, NewCanal
  <2>3. QED
    BY <2>1, <2>2
<1>3. ASSUME NEW n \in DOMAIN dictionary
      PROVE  RoomOf(canals'[dictionary'[n]]) = RoomsOf[n]
  <2>1. dictionary[n] \in DOMAIN canals
    BY DEF Consistent, NamesAndIds, Defined
  <2>2. QED
    BY <2>1, AddedCanal, RoomsAre
<1>4. RoomsOf' = opened
  <2>1. DOMAIN dictionary' = DOMAIN RoomsOf \cup {name}
    BY AddedCanal, RoomsAre
  <2>2. QED
    BY <1>1, <1>2, <1>3, <2>1, RoomsAre, RoomsWillBe
<1>5. QED
  BY <1>1, <1>4 DEF RoomStep, Opens

LEMMA DeleteIsRoomStep ==
  ASSUME Consistent, Defined, NEW u \in User, NEW c \in Id, DeleteCanal(u, c)
  PROVE  RoomStep
<1> DEFINE n == canals[c].name
<1>0. Gone = {}
  BY Facts DEF DeleteCanal, LockedCommandReady, MutexFree
<1>1. CASE c \in DOMAIN canals /\ canals[c].users = {}
  <2>1. RemoveCanal(canals, c, status)
    BY <1>1 DEF DeleteCanal
  <2>2. RoomsOf' = Promise!Without(RoomsOf, n)
    BY <1>0, <1>1, <2>1, RemovedCanal, RemovedRoom
  <2>3. n \in CanalName /\ n \in DOMAIN RoomsOf /\ RoomsOf[n].members = {}
    BY <1>0, <1>1, CanalIsRoom, RoomsAre DEF RoomOf
  <2>4. QED
    BY <2>2, <2>3 DEF RoomStep, Closes
<1>2. CASE c \in DOMAIN canals /\ canals[c].users # {}
  <2>1. canals' = [canals EXCEPT ![c].marked = TRUE] /\ UNCHANGED dictionary
    BY <1>2 DEF DeleteCanal
  <2>2. canals[c] \in Canal /\ canals' = [canals EXCEPT ![c] = [canals[c] EXCEPT !.marked = TRUE]]
    BY <1>2, <2>1, Facts
  <2>3. /\ DOMAIN canals' = DOMAIN canals
        /\ \A d \in DOMAIN canals \ {c} : canals'[d] = canals[d]
        /\ canals'[c] = [canals[c] EXCEPT !.marked = TRUE]
    BY <1>2, <2>2, Facts
  <2> DEFINE marked == [canals[c] EXCEPT !.marked = TRUE]
  <2>9. RoomOf(marked) = [RoomOf(canals[c]) EXCEPT !.closing = TRUE]
    <3>1. /\ marked.users = canals[c].users /\ marked.limit = canals[c].limit
          /\ marked.marked = TRUE
      BY <2>2 DEF Canal
    <3> HIDE DEF marked
    <3>2. RoomOf(marked) = [members |-> canals[c].users, limit |-> canals[c].limit,
                            closing |-> TRUE]
      BY <3>1 DEF RoomOf
    <3>3. QED
      BY <3>2, MarkedRoom
  <2>4. RoomsOf' = [RoomsOf EXCEPT ![n] = RoomOf(canals'[c])]
    BY <1>0, <1>2, <2>1, <2>3, ChangedRoom
  <2>5. n \in CanalName /\ n \in DOMAIN RoomsOf /\ RoomsOf[n] = RoomOf(canals[c])
    BY <1>0, <1>2, CanalIsRoom, RoomsAre
  <2>6. RoomsOf[n].members # {}
    BY <1>2, <2>5 DEF RoomOf
  <2>7. RoomsOf' = [RoomsOf EXCEPT ![n].closing = TRUE]
    BY <2>3, <2>4, <2>5, <2>9
  <2>8. QED
    BY <2>5, <2>6, <2>7 DEF RoomStep, Closes
<1>3. CASE c \notin DOMAIN canals
  BY <1>3, SameRooms DEF DeleteCanal, RoomStep
<1>4. QED
  BY <1>1, <1>2, <1>3

LEMMA JoinIsRoomStep ==
  ASSUME Consistent, Defined, NEW u \in User, NEW c \in Id, NEW password \in Password,
         JoinCanal(u, c, password)
  PROVE  RoomStep
<1> DEFINE n == canals[c].name
<1>0. Gone = {}
  BY Facts DEF JoinCanal, LockedCommandReady, MutexFree
<1>1. CASE CanJoin(c, password)
  <2>1. c \in DOMAIN canals /\ canals[c] \in Canal /\ ~IsFull(canals[c])
    BY <1>1, Facts DEF CanJoin
  <2>2. /\ canals' = [canals EXCEPT ![c] = [canals[c] EXCEPT !.users = @ \cup {u}]]
        /\ UNCHANGED dictionary
    BY <1>1, <2>1 DEF JoinCanal
  <2>3. /\ DOMAIN canals' = DOMAIN canals
        /\ \A d \in DOMAIN canals \ {c} : canals'[d] = canals[d]
        /\ canals'[c] = [canals[c] EXCEPT !.users = @ \cup {u}]
    BY <2>1, <2>2, Facts
  <2> DEFINE joined == [canals[c] EXCEPT !.users = @ \cup {u}]
  <2>9. RoomOf(joined) = [RoomOf(canals[c]) EXCEPT !.members = @ \cup {u}]
    BY <2>1 DEF Canal, RoomOf
  <2>4. RoomsOf' = [RoomsOf EXCEPT ![n] = RoomOf(canals'[c])]
    BY <1>0, <2>1, <2>2, <2>3, ChangedRoom
  <2>5. n \in CanalName /\ n \in DOMAIN RoomsOf /\ RoomsOf[n] = RoomOf(canals[c])
    BY <1>0, <2>1, CanalIsRoom, RoomsAre
  <2>6. RoomsOf[n].limit = -1 \/ Cardinality(RoomsOf[n].members) # RoomsOf[n].limit
    BY <2>1, <2>5 DEF RoomOf, IsFull
  <2>7. RoomsOf' = [RoomsOf EXCEPT ![n].members = @ \cup {u}]
    BY <2>3, <2>4, <2>5, <2>9
  <2>8. QED
    BY <2>5, <2>6, <2>7 DEF RoomStep, Enters
<1>2. CASE ~CanJoin(c, password)
  BY <1>2, SameRooms DEF JoinCanal, RoomStep
<1>3. QED
  BY <1>1, <1>2

\* u goes out of c, which stays: what LeaveCanal and LeaveAllCanal have in common.
LEMMA OutIsRoomStep ==
  ASSUME Consistent, Defined, Gone = {}, NEW u \in User, NEW c \in DOMAIN canals,
         ~LastOfMarked(u, c), canals' = TableWithout(u, c), UNCHANGED dictionary
  PROVE  RoomStep
<1> DEFINE n == canals[c].name
<1>1. /\ DOMAIN canals' = DOMAIN canals
      /\ \A d \in DOMAIN canals \ {c} : canals'[d] = canals[d]
      /\ RoomOf(canals'[c]) = [RoomOf(canals[c]) EXCEPT !.members = @ \ {u}]
  <2>1. /\ DOMAIN canals' = DOMAIN canals
        /\ \A d \in DOMAIN canals \ {c} : canals'[d] = canals[d]
        /\ canals'[c].users = canals[c].users \ {u}
        /\ canals'[c].limit = canals[c].limit /\ canals'[c].marked = canals[c].marked
    BY TableWithoutOne
  <2> DEFINE room == RoomOf(canals[c])
             left == canals'[c]
  <2>2. RoomOf(left) = [members |-> canals[c].users \ {u}, limit |-> canals[c].limit,
                        closing |-> canals[c].marked]
    BY <2>1 DEF RoomOf
  <2>3. [room EXCEPT !.members = @ \ {u}]
          = [members |-> canals[c].users \ {u}, limit |-> canals[c].limit,
             closing |-> canals[c].marked]
    BY DEF RoomOf
  <2>4. QED
    BY <2>1, <2>2, <2>3
<1>2. RoomsOf' = [RoomsOf EXCEPT ![n] = RoomOf(canals'[c])]
  BY <1>1, ChangedRoom
<1>3. n \in CanalName /\ n \in DOMAIN RoomsOf /\ RoomsOf[n] = RoomOf(canals[c])
  BY CanalIsRoom, RoomsAre
<1>4. RoomsOf' = [RoomsOf EXCEPT ![n].members = @ \ {u}]
  BY <1>1, <1>2, <1>3
<1>5. CASE u \in canals[c].users
  <2>1. u \in RoomsOf[n].members
    BY <1>3, <1>5 DEF RoomOf
  <2>2. ~(RoomsOf[n].closing /\ RoomsOf[n].members = {u})
    BY <1>3 DEF RoomOf, LastOfMarked
  <2>3. QED
    BY <1>3, <1>4, <2>1, <2>2 DEF RoomStep, Exits
<1>6. CASE u \notin canals[c].users
  <2>1. RoomOf(canals'[c]) = RoomsOf[n]
    BY <1>1, <1>3, <1>6 DEF RoomOf
  <2>2. RoomsOf' = RoomsOf
    BY <1>2, <1>3, <2>1, RoomsAre
  <2>3. QED
    BY <2>2 DEF RoomStep
<1>7. QED
  BY <1>5, <1>6

\* u was the last one in c, which goes with it.
LEMMA LastIsRoomStep ==
  ASSUME Consistent, Defined, Gone = {}, NEW u \in User, NEW c \in DOMAIN canals,
         LastOfMarked(u, c), RemoveCanal(TableWithout(u, c), c, status)
  PROVE  RoomStep
<1> DEFINE n == canals[c].name
<1>1. RoomsOf' = Promise!Without(RoomsOf, n)
  BY TableWithoutOne, RemovedCanal, RemovedRoom
<1>2. n \in CanalName /\ n \in DOMAIN RoomsOf /\ RoomsOf[n] = RoomOf(canals[c])
  BY CanalIsRoom, RoomsAre
<1>3. canals[c].users = {u}
  BY DEF Consistent, MarkedInUse, Defined, LastOfMarked
<1>4. RoomsOf[n].closing /\ RoomsOf[n].members = {u}
  BY <1>2, <1>3 DEF RoomOf, LastOfMarked
<1>5. QED
  BY <1>1, <1>2, <1>4 DEF RoomStep, Exits

LEMMA LeaveIsRoomStep ==
  ASSUME Consistent, Defined, NEW u \in User, NEW c \in Id, LeaveCanal(u, c)
  PROVE  RoomStep
<1>1. Gone = {}
  BY Facts DEF LeaveCanal, LockedCommandReady, MutexFree
<1>2. CASE c \in DOMAIN canals /\ c \in links[u] /\ LastOfMarked(u, c)
  BY <1>1, <1>2, LastIsRoomStep DEF LeaveCanal
<1>3. CASE c \in DOMAIN canals /\ c \in links[u] /\ ~LastOfMarked(u, c)
  BY <1>1, <1>3, OutIsRoomStep DEF LeaveCanal
<1>4. CASE ~(c \in DOMAIN canals /\ c \in links[u])
  BY <1>4, SameRooms DEF LeaveCanal, RoomStep
<1>5. QED
  BY <1>2, <1>3, <1>4

LEMMA LeaveOneIsRoomStep ==
  ASSUME Consistent, Defined, NEW c \in Id, LeaveOne(c)
  PROVE  RoomStep
<1>1. leaving # None /\ leaving.user \in User /\ Gone = {}
  BY Facts DEF LeaveOne, MutexFree, Gone
<1>2. CASE c \in DOMAIN canals /\ LastOfMarked(leaving.user, c)
  BY <1>1, <1>2, LastIsRoomStep DEF LeaveOne
<1>3. CASE c \in DOMAIN canals /\ ~LastOfMarked(leaving.user, c)
  BY <1>1, <1>3, OutIsRoomStep DEF LeaveOne
<1>4. CASE c \notin DOMAIN canals
  BY <1>4, SameRooms DEF LeaveOne, RoomStep
<1>5. QED
  BY <1>2, <1>3, <1>4

\* A canal that a message puts back has no name, and is no room.
LEMMA MessageIsRoomStep ==
  ASSUME Consistent, Defined, MessageSend
  PROVE  RoomStep
<1>1. \A n \in DOMAIN dictionary : dictionary[n] \in DOMAIN canals
  BY DEF Consistent, NamesAndIds, Defined
<1>2. \A n \in DOMAIN dictionary : RoomOf(canals'[dictionary[n]]) = RoomOf(canals[dictionary[n]])
  BY <1>1, MessageSendKeeps
<1>3. RoomsOf' = RoomsOf
  BY <1>2, MessageSendKeeps, RoomsAre, RoomsWillBe
<1>4. QED
  BY <1>3 DEF RoomStep

LEMMA StepIsRoomStep ==
  ASSUME Consistent, Defined, [Next]_vars, Defined'
  PROVE  RoomStep
<1>1. CASE UNCHANGED <<canals, dictionary>>
  BY <1>1, SameRooms DEF RoomStep
<1>2. CASE Boot
  BY <1>1, <1>2, Facts, AddIsRoomStep DEF Boot, Configure, StartServing, MutexFree
<1>3. CASE NetworkThread
  <2>1. ASSUME NEW u \in User, NEW name \in CanalName, NEW password \in Password,
               NEW limit \in Limit, CreateCanal(u, name, password, limit)
        PROVE  RoomStep
    BY <1>1, <2>1, AddIsRoomStep DEF CreateCanal, LockedCommandReady
  <2>2. QED
    BY <1>1, <1>3, <2>1, DeleteIsRoomStep, JoinIsRoomStep, LeaveIsRoomStep, MessageIsRoomStep
       DEF NetworkThread, ListCanal, MessageCanal
<1>4. CASE UpdateThread
  BY <1>1, <1>4, LeaveOneIsRoomStep, UpdateKeeps
     DEF UpdateThread, LeaveAllCanal, LeaveNext, LeaveAllEnd
<1>5. CASE UNCHANGED vars
  BY <1>1, <1>5 DEF vars
<1>6. QED
  BY <1>2, <1>3, <1>4, <1>5 DEF Next

LEMMA InitRefines == ASSUME Init PROVE Promise!Init
<1>1. Defined /\ DOMAIN dictionary = {}
  BY DEF Init, Defined
<1>2. RoomsOf = [n \in {} |-> n]
  BY <1>1, RoomsAre
<1>3. QED
  BY <1>1, <1>2 DEF Promise!Init, Promise!NoRooms

LEMMA StepRefines == ASSUME IInv, [Next]_vars PROVE [Promise!Next]_(Promise!vars)
<1>1. CASE ~Defined
  <2>1. ~Defined'
    BY <1>1, StaysUndefined
  <2>2. QED
    BY <1>1, <2>1 DEF Promise!vars
<1>2. CASE Defined /\ ~Defined'
  BY <1>2 DEF Promise!Next, Promise!Fail, Promise!NoRooms
<1>3. CASE Defined /\ Defined'
  <2>1. CASE RoomsOf' = RoomsOf
    BY <1>3, <2>1 DEF Promise!vars
  <2>2. ASSUME NEW n \in CanalName, NEW limit \in Limit, Opens(n, limit)
        PROVE  Promise!Open(n, limit)
    BY <1>3, <2>2 DEF Opens, Promise!Open
  <2>3. ASSUME NEW n \in CanalName, Closes(n) PROVE Promise!Close(n)
    BY <1>3, <2>3 DEF Closes, Promise!Close
  <2>4. ASSUME NEW u \in User, NEW n \in CanalName, Enters(u, n) PROVE Promise!Enter(u, n)
    BY <1>3, <2>4, SameCardinality DEF Enters, Promise!Enter
  <2>5. ASSUME NEW u \in User, NEW n \in CanalName, Exits(u, n) PROVE Promise!Exit(u, n)
    BY <1>3, <2>5 DEF Exits, Promise!Exit
  <2>6. RoomStep
    BY <1>3, StepIsRoomStep DEF IInv
  <2>7. QED
    BY <2>1, <2>2, <2>3, <2>4, <2>5, <2>6 DEF RoomStep, Promise!Next
<1>4. QED
  BY <1>1, <1>2, <1>3

\* CanalManager, with its ids, its two tables, its lock and its interleavings,
\* implements the rooms: to their users canals are what Rooms says.
THEOREM Refinement == Spec => ImplementsRooms
<1>1. Init => Promise!Init
  BY InitRefines
<1>2. IInv /\ [Next]_vars => [Promise!Next]_(Promise!vars)
  BY StepRefines
<1>3. QED
  BY IInvInductive, <1>1, <1>2, PTL DEF Spec, ImplementsRooms, Promise!Spec
=============================================================================
