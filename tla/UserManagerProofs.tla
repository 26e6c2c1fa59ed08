------------------------- MODULE UserManagerProofs -------------------------
(***************************************************************************)
(* The ids of users, the canals they are in and the requests to remove     *)
(* them, for any connections, canals and width of an id: a request removes *)
(* no one else, and none that is needed is missing.                        *)
(***************************************************************************)
EXTENDS UserManager, IDGeneratorProofs, TLAPS

Types ==
  /\ TypeOK
  /\ upd \in [pc : {"idle", "loop", "erase", "free", "leave", "tick"}, todo : Seq(Id), seen : Nat]

\* The entry of an object in m_Users is under its id.
Objects ==
  /\ \A i \in DOMAIN users : id[users[i]] = i
  /\ \A c \in Client : conn[c] = "absent" => ~Exists(c)
  /\ adding # None =>
       /\ id[adding] \in Id /\ net = "run"
       /\ \A i \in DOMAIN users : users[i] # adding

\* The user RemoveUserInstant found is there until it erases it, and its id is
\* nobody's until FreeID.
Removal ==
  Defined =>
    /\ upd.pc = "erase" => Head(upd.todo) \in DOMAIN users
    /\ upd.pc = "free" => /\ Head(upd.todo) \notin DOMAIN users
                          /\ adding # None => id[adding] # Head(upd.todo)

\* The requests not acted upon yet: those Update has before it, and those that
\* came since.
Rest ==
  IF upd.pc \in {"loop", "erase"} THEN DOMAIN upd.todo
  ELSE IF upd.pc \in {"free", "leave"} THEN DOMAIN upd.todo \ {1} ELSE {}

Since == {k \in DOMAIN toRemove : Walking => k > upd.seen}

\* Such a request is for the user that has the id, whose session is closed.
ForClosed(i) ==
  /\ net = "run" => i \in DOMAIN users
  /\ i \in DOMAIN users => conn[users[i]] = "closed"

Requests ==
  Defined =>
    /\ Walking => upd.seen <= Len(toRemove)
    /\ \A k \in Rest : ForClosed(upd.todo[k])
    /\ \A k \in Since : ForClosed(toRemove[k])
    /\ \A k, l \in Rest : upd.todo[k] = upd.todo[l] => k = l
    /\ \A k, l \in Since : toRemove[k] = toRemove[l] => k = l
    /\ \A k \in Rest, l \in Since : upd.todo[k] # toRemove[l]
    /\ \A c \in Client : net = "run" /\ conn[c] \in {"open", "closing"} => Exists(c)

IInv == Types /\ Objects /\ Removal /\ UserIdsAccounted /\ LinksBelongToUsers /\ Requests
-----------------------------------------------------------------------------
LEMMA NoneIsNobody == None \notin Client /\ None \notin Id
BY UserAssumption

LEMMA TailOf ==
  ASSUME NEW s \in Seq(Id), s # <<>>
  PROVE  /\ Head(s) \in Id /\ 1 \in DOMAIN s /\ Head(s) = s[1]
         /\ Tail(s) \in Seq(Id)
         /\ \A k \in DOMAIN Tail(s) :
              k + 1 \in DOMAIN s /\ Tail(s)[k] = s[k + 1] /\ k + 1 # 1 /\ k \in Int
OBVIOUS

LEMMA AppendTo ==
  ASSUME NEW s \in Seq(Id), NEW i \in Id
  PROVE  /\ Append(s, i) \in Seq(Id) /\ Len(Append(s, i)) = Len(s) + 1
         /\ \A k \in DOMAIN Append(s, i) :
              (k \in DOMAIN s /\ Append(s, i)[k] = s[k]) \/ (k = Len(s) + 1 /\ Append(s, i)[k] = i)
OBVIOUS

LEMMA PostedTypes ==
  ASSUME Types, NEW ids, Posted(ids)
  PROVE  writing' \subseteq Client
BY DEF Types, TypeOK, Posted

LEMMA WithoutOne ==
  ASSUME Types, NEW i, users' = Without(users, i)
  PROVE  /\ DOMAIN users' = DOMAIN users \ {i}
         /\ users' \in [DOMAIN users' -> Client]
         /\ \A j \in DOMAIN users' : users'[j] = users[j]
BY DEF Types, TypeOK, Without

LEMMA AcceptKeeps ==
  ASSUME IInv, NEW c \in Client, Accept(c)
  PROVE  IInv'
<1> USE NoneIsNobody DEF IInv, Types, TypeOK, Accept, updateVars
<1>8. /\ adding = None /\ Defined /\ c # None /\ IdFrom(gen) \in Id /\ IdFrom(gen) # None
      /\ gen' \in Generator /\ IdFrom(gen) \notin LiveIds
      /\ Accounted(gen', LiveIds \cup {IdFrom(gen)}, 0)
  <2>1. 0 \in Id /\ gen \in Generator /\ Spare(LiveIds, 0) /\ Defined /\ adding = None
    BY IdSpaceAssumption DEF Id, Handler
  <2>2. Accounted(gen, LiveIds, 0)
    BY <2>1 DEF UserIdsAccounted
  <2>3. QED
    BY <2>1, <2>2, GenerateTypes, GenerateFresh, GenerateAccounted
<1>1. Types'
  <2>1. conn' \in [Client -> {"absent", "open", "closing", "closed"}]
    OBVIOUS
  <2>2. id' \in [Client -> Id \cup {None}]
    BY <1>8
  <2>3. reading' \subseteq Client /\ writing' \subseteq Client /\ adding' \in Client \cup {None}
    OBVIOUS
  <2>4. QED
    BY <1>8, <2>1, <2>2, <2>3 DEF Types, TypeOK
<1>2. Objects'
  <2>1. \A i \in DOMAIN users : users[i] # c /\ users[i] \in Client
    BY DEF Objects, Exists
  <2>2. \A i \in DOMAIN users : id'[users[i]] = id[users[i]]
    BY <2>1
  <2>3. QED
    BY <1>8, <2>1, <2>2 DEF Objects, Exists, Handler
<1>3. Removal'
  <2>1. upd.pc = "free" => IdFrom(gen) # Head(upd.todo)
    BY <1>8 DEF LiveIds
  <2>2. QED
    BY <1>8, <2>1 DEF Removal, Defined
<1>4. UserIdsAccounted'
  <2>1. LiveIds' = LiveIds \cup {IdFrom(gen)}
    BY <1>8 DEF LiveIds
  <2>2. IdFrom(gen) \notin DOMAIN users
    BY <1>8 DEF LiveIds
  <2>3. QED
    BY <1>8, <2>1, <2>2 DEF UserIdsAccounted, Defined
<1>5. LinksBelongToUsers'
  BY DEF LinksBelongToUsers, Handler
<1>6. Requests'
  <2>1. \A i \in DOMAIN users : users[i] # c /\ users[i] \in Client
    BY DEF Objects, Exists
  <2>2. \A i : ForClosed(i) => ForClosed(i)'
    BY <2>1 DEF ForClosed
  <2>3. \A d \in Client : net' = "run" /\ conn'[d] \in {"open", "closing"} => Exists(d)'
    BY <1>8 DEF Requests, Exists
  <2>4. Rest' = Rest /\ Since' = Since
    BY DEF Rest, Since, Walking
  <2>5. QED
    BY <1>8, <2>2, <2>3, <2>4 DEF Requests, Walking, Defined
<1>7. QED
  BY <1>1, <1>2, <1>3, <1>4, <1>5, <1>6

LEMMA AcceptAddKeeps ==
  ASSUME IInv, AcceptAdd
  PROVE  IInv'
<1> USE NoneIsNobody DEF IInv, Types, TypeOK, AcceptAdd, sessionVars, updateVars
<1>8. /\ id[adding] \in Id /\ adding \in Client /\ Defined /\ id[adding] \notin DOMAIN users
      /\ DOMAIN users' = DOMAIN users \cup {id[adding]}
      /\ users'[id[adding]] = adding
      /\ \A i \in DOMAIN users : users'[i] = users[i]
  BY DEF Objects, UserIdsAccounted
<1>1. Types'
  <2>1. users' \in [DOMAIN users' -> Client] /\ DOMAIN users' \subseteq Id
    BY <1>8
  <2>2. status' \in {"defined", "undefined", "ended"}
    BY DEF MayRace, MustNot
  <2>3. sessions' \subseteq Id
    BY <1>8
  <2>4. QED
    BY <2>1, <2>2, <2>3 DEF Types, TypeOK
<1>2. Objects'
  BY DEF Objects, Exists
<1>3. Removal'
  BY DEF Removal
<1>4. UserIdsAccounted'
  <2>1. LiveIds' = LiveIds
    BY <1>8 DEF LiveIds
  <2>2. Accounted(gen, LiveIds, 0)
    BY <1>8 DEF UserIdsAccounted
  <2>3. \A i, j \in DOMAIN users' : users'[i] = users'[j] => i = j
    BY <1>8 DEF UserIdsAccounted, Objects
  <2>4. QED
    BY <2>1, <2>2, <2>3 DEF UserIdsAccounted
<1>5. LinksBelongToUsers'
  BY DEF LinksBelongToUsers
<1>6. Requests'
  BY DEF Requests, Rest, Since, ForClosed, Walking, Exists, Objects, UserIdsAccounted
<1>7. QED
  BY <1>1, <1>2, <1>3, <1>4, <1>5, <1>6

LEMMA JoinKeeps ==
  ASSUME IInv, NEW c \in Client, NEW i \in Id, NEW k \in Canal, Join(c, i, k)
  PROVE  IInv'
<1> USE NoneIsNobody DEF IInv, Types, TypeOK, Join, Command, Posted, Handler, MayRace, updateVars
<1>8. writing' \subseteq Client
  BY PostedTypes
<1>1. Types'
  <2>1. links' \in [Id -> SUBSET Canal] /\ joined' \in [Client -> SUBSET Canal]
    OBVIOUS
  <2>2. reading' \subseteq Client /\ status' \in {"defined", "undefined", "ended"}
    OBVIOUS
  <2>3. QED
    BY <1>8, <2>1, <2>2 DEF Types, TypeOK
<1>2. Objects'
  BY DEF Objects, Exists
<1>3. Removal'
  BY DEF Removal
<1>4. UserIdsAccounted'
  BY DEF UserIdsAccounted, LiveIds
<1>5. LinksBelongToUsers'
  BY DEF LinksBelongToUsers, Objects, Exists
<1>6. Requests'
  BY DEF Requests, Rest, Since, ForClosed, Walking, Exists
<1>7. QED
  BY <1>1, <1>2, <1>3, <1>4, <1>5, <1>6

LEMMA LeaveKeeps ==
  ASSUME IInv, NEW c \in Client, NEW i \in Id, NEW k \in Canal, Leave(c, i, k)
  PROVE  IInv'
<1> USE NoneIsNobody DEF IInv, Types, TypeOK, Leave, Command, Posted, Handler, MayRace, updateVars
<1>8. writing' \subseteq Client
  BY PostedTypes
<1>1. Types'
  <2>1. links' \in [Id -> SUBSET Canal] /\ joined' \in [Client -> SUBSET Canal]
    OBVIOUS
  <2>2. reading' \subseteq Client /\ status' \in {"defined", "undefined", "ended"}
    OBVIOUS
  <2>3. QED
    BY <1>8, <2>1, <2>2 DEF Types, TypeOK
<1>2. Objects'
  BY DEF Objects, Exists
<1>3. Removal'
  BY DEF Removal
<1>4. UserIdsAccounted'
  BY DEF UserIdsAccounted, LiveIds
<1>5. LinksBelongToUsers'
  BY DEF LinksBelongToUsers
<1>6. Requests'
  BY DEF Requests, Rest, Since, ForClosed, Walking, Exists
<1>7. QED
  BY <1>1, <1>2, <1>3, <1>4, <1>5, <1>6

LEMMA LeaveRefusedKeeps ==
  ASSUME IInv, NEW c \in Client, NEW i \in Id, NEW k \in Canal, LeaveRefused(c, i, k)
  PROVE  IInv'
<1> USE NoneIsNobody DEF IInv, Types, TypeOK, LeaveRefused, Command, Posted, Handler, MayRace, updateVars
<1>8. writing' \subseteq Client
  BY PostedTypes
<1>1. Types'
  <2>1. links' \in [Id -> SUBSET Canal] /\ joined' \in [Client -> SUBSET Canal]
    OBVIOUS
  <2>2. reading' \subseteq Client /\ status' \in {"defined", "undefined", "ended"}
    OBVIOUS
  <2>3. QED
    BY <1>8, <2>1, <2>2 DEF Types, TypeOK
<1>2. Objects'
  BY DEF Objects, Exists
<1>3. Removal'
  BY DEF Removal
<1>4. UserIdsAccounted'
  BY DEF UserIdsAccounted, LiveIds
<1>5. LinksBelongToUsers'
  BY DEF LinksBelongToUsers
<1>6. Requests'
  <2>1. \A j : ForClosed(j) => ForClosed(j)'
    BY DEF ForClosed
  <2>2. Rest' = Rest /\ Since' = Since
    BY DEF Rest, Since, Walking
  <2>3. \A d \in Client : Exists(d) => Exists(d)'
    BY DEF Exists
  <2>4. Defined /\ UNCHANGED <<upd, toRemove, net, conn>>
    OBVIOUS
  <2> HIDE DEF LeaveRefused, IInv, Types, TypeOK
  <2>5. Requests
    BY DEF IInv
  <2>6. QED
    BY <2>1, <2>2, <2>3, <2>4, <2>5 DEF Requests, Walking, Defined
<1>7. QED
  BY <1>1, <1>2, <1>3, <1>4, <1>5, <1>6

LEMMA MessageKeeps ==
  ASSUME IInv, NEW c \in Client, NEW i \in Id, NEW k \in Canal, Message(c, i, k)
  PROVE  IInv'
<1> USE NoneIsNobody DEF IInv, Types, TypeOK, Message, Command, Posted, Handler, MayRace, updateVars
<1>8. writing' \subseteq Client
  BY PostedTypes
<1>1. Types'
  <2>1. links' \in [Id -> SUBSET Canal] /\ joined' \in [Client -> SUBSET Canal]
    OBVIOUS
  <2>2. reading' \subseteq Client /\ status' \in {"defined", "undefined", "ended"}
    OBVIOUS
  <2>3. QED
    BY <1>8, <2>1, <2>2 DEF Types, TypeOK
<1>2. Objects'
  BY DEF Objects, Exists
<1>3. Removal'
  BY DEF Removal
<1>4. UserIdsAccounted'
  BY DEF UserIdsAccounted, LiveIds
<1>5. LinksBelongToUsers'
  BY DEF LinksBelongToUsers
<1>6. Requests'
  BY DEF Requests, Rest, Since, ForClosed, Walking, Exists
<1>7. QED
  BY <1>1, <1>2, <1>3, <1>4, <1>5, <1>6

LEMMA ReadFailsKeeps ==
  ASSUME IInv, NEW c \in Client, ReadFails(c)
  PROVE  IInv'
<1> USE NoneIsNobody DEF IInv, Types, TypeOK, ReadFails, Closing, updateVars
<1>1. Types'
  <2>1. conn' \in [Client -> {"absent", "open", "closing", "closed"}]
    OBVIOUS
  <2>2. status' \in {"defined", "undefined", "ended"}
    BY DEF MustNot, MayRace
  <2>3. QED
    BY <2>1, <2>2 DEF Types, TypeOK
<1>2. Objects'
  BY DEF Objects, Exists
<1>3. Removal'
  BY DEF Removal, Handler
<1>4. UserIdsAccounted'
  BY DEF UserIdsAccounted, LiveIds, Handler
<1>5. LinksBelongToUsers'
  BY DEF LinksBelongToUsers, Handler
<1>6. Requests'
  BY DEF Requests, Rest, Since, ForClosed, Walking, Exists, Handler
<1>7. QED
  BY <1>1, <1>2, <1>3, <1>4, <1>5, <1>6

LEMMA ReadBreaksKeeps ==
  ASSUME IInv, NEW c \in Client, ReadBreaks(c)
  PROVE  IInv'
<1> USE NoneIsNobody DEF IInv, Types, TypeOK, ReadBreaks, sessionVars, updateVars
<1>1. Types'
  OBVIOUS
<1>2. Objects'
  BY DEF Objects, Exists
<1>3. Removal'
  BY DEF Removal, Defined
<1>4. UserIdsAccounted'
  BY DEF UserIdsAccounted, Defined
<1>5. LinksBelongToUsers'
  BY DEF LinksBelongToUsers, Defined
<1>6. Requests'
  BY DEF Requests, Defined
<1>7. QED
  BY <1>1, <1>2, <1>3, <1>4, <1>5, <1>6

LEMMA WriteEndsKeeps ==
  ASSUME IInv, NEW c \in Client, WriteEnds(c)
  PROVE  IInv'
<1> USE NoneIsNobody DEF IInv, Types, TypeOK, WriteEnds, Closing, updateVars
<1>1. Types'
  <2>1. conn' \in [Client -> {"absent", "open", "closing", "closed"}]
    OBVIOUS
  <2>2. status' \in {"defined", "undefined", "ended"}
    BY DEF MustNot, MayRace
  <2>3. QED
    BY <2>1, <2>2 DEF Types, TypeOK
<1>2. Objects'
  BY DEF Objects, Exists
<1>3. Removal'
  BY DEF Removal, Handler
<1>4. UserIdsAccounted'
  BY DEF UserIdsAccounted, LiveIds, Handler
<1>5. LinksBelongToUsers'
  BY DEF LinksBelongToUsers, Handler
<1>6. Requests'
  BY DEF Requests, Rest, Since, ForClosed, Walking, Exists, Handler
<1>7. QED
  BY <1>1, <1>2, <1>3, <1>4, <1>5, <1>6

LEMMA CloseHandlerKeeps ==
  ASSUME IInv, NEW c \in Client, CloseHandler(c)
  PROVE  IInv'
<1> USE NoneIsNobody DEF IInv, Types, TypeOK, CloseHandler
<1>8. /\ Defined /\ net = "run" /\ conn[c] = "closing"
      /\ id[c] \in DOMAIN users /\ users[id[c]] = c /\ id[c] \in Id
  <2>1. Exists(c) /\ adding = None /\ Defined /\ net = "run"
    BY DEF Requests, Handler
  <2>2. QED
    BY <2>1 DEF Exists, Objects
<1>9. /\ toRemove' \in Seq(Id) /\ Len(toRemove') = Len(toRemove) + 1
      /\ \A k \in DOMAIN toRemove' :
           \/ k \in DOMAIN toRemove /\ toRemove'[k] = toRemove[k]
           \/ k = Len(toRemove) + 1 /\ toRemove'[k] = id[c]
  BY <1>8, AppendTo
<1>1. Types'
  <2>1. conn' \in [Client -> {"absent", "open", "closing", "closed"}]
    OBVIOUS
  <2>2. status' \in {"defined", "undefined", "ended"}
    BY DEF MustNot, MayRace
  <2>3. QED
    BY <1>9, <2>1, <2>2 DEF Types, TypeOK
<1>2. Objects'
  BY DEF Objects, Exists
<1>3. Removal'
  BY DEF Removal, Handler
<1>4. UserIdsAccounted'
  BY DEF UserIdsAccounted, LiveIds, Handler
<1>5. LinksBelongToUsers'
  BY DEF LinksBelongToUsers, Handler
<1>6. Requests'
  <2>1. \A i : ForClosed(i) => ForClosed(i)' /\ i # id[c]
    BY <1>8 DEF ForClosed
  <2>2. ForClosed(id[c])'
    BY <1>8 DEF ForClosed
  <2>3. Rest' = Rest /\ \A k \in Since' : k \in Since \/ k = Len(toRemove) + 1
    BY <1>9 DEF Rest, Since, Walking
  <2>4. \A d \in Client : net' = "run" /\ conn'[d] \in {"open", "closing"} => Exists(d)'
    BY <1>8 DEF Requests, Exists
  <2>5. QED
    BY <1>8, <1>9, <2>1, <2>2, <2>3, <2>4 DEF Requests, Walking, Since
<1>7. QED
  BY <1>1, <1>2, <1>3, <1>4, <1>5, <1>6

LEMMA StopBeginKeeps ==
  ASSUME IInv, StopBegin
  PROVE  IInv'
<1> USE NoneIsNobody DEF IInv, Types, TypeOK, StopBegin, sessionVars, updateVars
<1>1. Types'
  OBVIOUS
<1>2. Objects'
  BY DEF Objects, Exists, Handler
<1>3. Removal'
  BY DEF Removal, Defined
<1>4. UserIdsAccounted'
  BY DEF UserIdsAccounted, LiveIds, Defined
<1>5. LinksBelongToUsers'
  BY DEF LinksBelongToUsers, Defined
<1>6. Requests'
  BY DEF Requests, Rest, Since, ForClosed, Walking, Defined
<1>7. QED
  BY <1>1, <1>2, <1>3, <1>4, <1>5, <1>6

LEMMA StopRemoveKeeps ==
  ASSUME IInv, NEW i \in Id, StopRemove(i)
  PROVE  IInv'
<1> USE NoneIsNobody DEF IInv, Types, TypeOK, StopRemove, sessionVars, updateVars
<1>8. Defined /\ net = "stopping" /\ adding = None
  BY DEF Objects
<1>9. /\ DOMAIN users' = DOMAIN users \ {i}
      /\ users' \in [DOMAIN users' -> Client]
      /\ \A j \in DOMAIN users' : users'[j] = users[j]
  <2>1. CASE i \in DOMAIN users
    BY <2>1, WithoutOne
  <2>2. CASE i \notin DOMAIN users
    <3>1. users' = users /\ users \in [DOMAIN users -> Client]
      BY <2>2
    <3> HIDE DEF StopRemove, IInv, Types, TypeOK
    <3>2. QED
      BY <2>2, <3>1
  <2>3. QED
    BY <2>1, <2>2
<1>10. /\ links' \in [Id -> SUBSET Canal]
       /\ \A j \in Id : links'[j] # {} => links[j] # {} /\ (j = i => i \notin DOMAIN users)
  OBVIOUS
<1>11. Defined' => upd.pc # "erase"
  BY DEF Defined, MustNot, Erasing
<1>12. gen' \in Generator /\ status' \in {"defined", "undefined", "ended"}
  BY FreeTypes DEF MustNot, MayRace
<1>1. Types'
  BY <1>9, <1>10, <1>12 DEF Types, TypeOK
<1>2. Objects'
  BY <1>8, <1>9 DEF Objects, Exists
<1>3. Removal'
  BY <1>8, <1>9, <1>11 DEF Removal
<1>4. UserIdsAccounted'
  <2>1. Accounted(gen, LiveIds, 0) /\ 0 \in Id /\ gen \in Generator
    BY <1>8, IdSpaceAssumption DEF UserIdsAccounted, Id
  <2>2. CASE i \in DOMAIN users
    <3>1. LiveIds' = LiveIds \ {i} /\ i \in LiveIds /\ gen' = FreeID(gen, i)
      BY <1>8, <1>9, <2>2 DEF LiveIds, Removal
    <3>2. Accounted(gen', LiveIds', 0)
      BY <2>1, <3>1, FreeAccounted
    <3>3. QED
      BY <1>8, <1>9, <3>2 DEF UserIdsAccounted
  <2>3. CASE i \notin DOMAIN users
    <3>1. LiveIds' = LiveIds /\ gen' = gen
      BY <1>8, <1>9, <2>3 DEF LiveIds
    <3>2. QED
      BY <1>8, <1>9, <2>1, <3>1 DEF UserIdsAccounted
  <2>4. QED
    BY <2>2, <2>3
<1>5. LinksBelongToUsers'
  BY <1>8, <1>9, <1>10 DEF LinksBelongToUsers
<1>6. Requests'
  <2>1. \A j : ForClosed(j) => ForClosed(j)'
    BY <1>8, <1>9 DEF ForClosed
  <2>2. Rest' = Rest /\ Since' = Since /\ UNCHANGED <<upd, toRemove, net>>
    BY DEF Rest, Since, Walking
  <2>3. Requests
    OBVIOUS
  <2>4. QED
    BY <1>8, <2>1, <2>2, <2>3 DEF Requests, Walking
<1>7. QED
  BY <1>1, <1>2, <1>3, <1>4, <1>5, <1>6

LEMMA StopEndKeeps ==
  ASSUME IInv, StopEnd
  PROVE  IInv'
<1> USE NoneIsNobody DEF IInv, Types, TypeOK, StopEnd, sessionVars, updateVars
<1>1. Types'
  OBVIOUS
<1>2. Objects'
  BY DEF Objects, Exists
<1>3. Removal'
  BY DEF Removal
<1>4. UserIdsAccounted'
  BY DEF UserIdsAccounted, LiveIds
<1>5. LinksBelongToUsers'
  BY DEF LinksBelongToUsers
<1>6. Requests'
  BY DEF Requests, Rest, Since, ForClosed, Walking
<1>7. QED
  BY <1>1, <1>2, <1>3, <1>4, <1>5, <1>6

LEMMA UpdateBeginKeeps ==
  ASSUME IInv, UpdateBegin
  PROVE  IInv'
<1> USE NoneIsNobody DEF IInv, Types, TypeOK, UpdateBegin, sessionVars
<1>1. Types'
  OBVIOUS
<1>2. Objects'
  BY DEF Objects, Exists
<1>3. Removal'
  BY DEF Removal
<1>4. UserIdsAccounted'
  BY DEF UserIdsAccounted, LiveIds
<1>5. LinksBelongToUsers'
  BY DEF LinksBelongToUsers
<1>6. Requests'
  BY DEF Requests, Rest, Since, ForClosed, Walking, Exists
<1>7. QED
  BY <1>1, <1>2, <1>3, <1>4, <1>5, <1>6

LEMMA RemoveFindKeeps ==
  ASSUME IInv, RemoveFind
  PROVE  IInv'
<1> USE NoneIsNobody DEF IInv, Types, TypeOK, RemoveFind, sessionVars
<1>1. Types'
  <2>1. upd' \in [pc : {"idle", "loop", "erase", "free", "leave", "tick"}, todo : Seq(Id), seen : Nat]
    BY TailOf
  <2>2. upd'.pc \in {"loop", "erase"} /\ (upd'.pc = "erase" => upd'.todo # <<>>)
    OBVIOUS
  <2>3. QED
    BY <2>1, <2>2 DEF Types, TypeOK
<1>2. Objects'
  BY DEF Objects, Exists
<1>3. Removal'
  BY DEF Removal
<1>4. UserIdsAccounted'
  BY DEF UserIdsAccounted, LiveIds
<1>5. LinksBelongToUsers'
  BY DEF LinksBelongToUsers
<1>6. Requests'
  BY DEF Requests, Rest, Since, ForClosed, Walking, Exists
<1>7. QED
  BY <1>1, <1>2, <1>3, <1>4, <1>5, <1>6

LEMMA RemoveEraseKeeps ==
  ASSUME IInv, RemoveErase
  PROVE  IInv'
<1> USE NoneIsNobody DEF IInv, Types, TypeOK, RemoveErase, UpdateStep, sessionVars
<1> DEFINE h == Head(upd.todo)
<1>8. /\ Defined /\ upd.pc = "erase" /\ upd.todo \in Seq(Id) /\ upd.todo # <<>>
      /\ upd' \in [pc : {"idle", "loop", "erase", "free", "leave", "tick"}, todo : Seq(Id), seen : Nat]
      /\ upd'.pc = "free" /\ upd'.todo = upd.todo /\ upd'.seen = upd.seen
  OBVIOUS
<1>9. h \in DOMAIN users /\ h \in Id /\ 1 \in DOMAIN upd.todo /\ h = upd.todo[1]
  BY <1>8, TailOf DEF Removal
<1>10. /\ DOMAIN users' = DOMAIN users \ {h}
       /\ users' \in [DOMAIN users' -> Client]
       /\ \A j \in DOMAIN users' : users'[j] = users[j]
  BY WithoutOne
<1> HIDE DEF h
<1>11. adding # None => id[adding] # h
  BY <1>8, <1>9 DEF UserIdsAccounted
<1>12. Head(upd'.todo) = h
  BY <1>8 DEF h
<1>1. Types'
  BY <1>8, <1>10 DEF Types, TypeOK
<1>2. Objects'
  BY <1>10 DEF Objects, Exists
<1>3. Removal'
  BY <1>8, <1>10, <1>11, <1>12 DEF Removal
<1>4. UserIdsAccounted'
  <2>1. LiveIds' = LiveIds
    BY <1>8, <1>9, <1>10, <1>12 DEF LiveIds
  <2>2. QED
    BY <1>8, <1>10, <2>1 DEF UserIdsAccounted
<1>5. LinksBelongToUsers'
  BY <1>8, <1>10, <1>12 DEF LinksBelongToUsers
<1>6. Requests'
  <2>1. Rest' = Rest \ {1} /\ Since' = Since /\ 1 \in Rest
    BY <1>8, <1>9 DEF Rest, Since, Walking
  <2>2. ForClosed(h) /\ Requests
    BY <1>8, <1>9, <2>1 DEF Requests
  <2>3. \A j : ForClosed(j) /\ j # h => ForClosed(j)'
    BY <1>10 DEF ForClosed
  <2>4. \A c \in Client : net' = "run" /\ conn'[c] \in {"open", "closing"} => Exists(c)'
    <3>1. conn[users[h]] = "closed"
      BY <1>9, <2>2 DEF ForClosed
    <3>2. UNCHANGED <<net, conn, adding>>
      OBVIOUS
    <3>3. \A c \in Client : Exists(c) /\ c # users[h] => Exists(c)'
      BY <1>10, <3>2 DEF Exists
    <3>4. QED
      BY <1>8, <2>2, <3>1, <3>2, <3>3 DEF Requests
  <2>5. \A k \in Rest' : upd.todo[k] # h
    BY <1>8, <1>9, <2>1, <2>2 DEF Requests
  <2>6. \A k \in Since' : toRemove[k] # h
    BY <1>8, <1>9, <2>1, <2>2 DEF Requests
  <2>7. QED
    BY <1>8, <2>1, <2>2, <2>3, <2>4, <2>5, <2>6 DEF Requests, Walking
<1>7. QED
  BY <1>1, <1>2, <1>3, <1>4, <1>5, <1>6

LEMMA RemoveFreeKeeps ==
  ASSUME IInv, RemoveFree
  PROVE  IInv'
<1> USE NoneIsNobody DEF IInv, Types, TypeOK, RemoveFree, UpdateStep, sessionVars
<1> DEFINE h == Head(upd.todo)
<1>8. /\ Defined /\ upd.pc = "free" /\ upd.todo \in Seq(Id) /\ upd.todo # <<>>
      /\ upd' \in [pc : {"idle", "loop", "erase", "free", "leave", "tick"}, todo : Seq(Id), seen : Nat]
      /\ upd'.pc = "leave" /\ upd'.todo = upd.todo
      /\ gen' = FreeID(gen, h)
  OBVIOUS
<1>9. h \in Id
  BY <1>8, TailOf
<1> HIDE DEF h
<1>10. gen' \in Generator
  BY <1>8, <1>9, FreeTypes
<1>1. Types'
  BY <1>8, <1>10 DEF Types, TypeOK
<1>2. Objects'
  BY DEF Objects, Exists
<1>3. Removal'
  BY DEF Removal
<1>4. UserIdsAccounted'
  <2>1. Accounted(gen, LiveIds, 0) /\ 0 \in Id /\ gen \in Generator
    BY <1>8, IdSpaceAssumption DEF UserIdsAccounted, Id
  <2>2. LiveIds' = LiveIds \ {h} /\ h \in LiveIds
    BY <1>8 DEF LiveIds, Removal, h
  <2>3. Accounted(gen', LiveIds', 0)
    BY <1>8, <2>1, <2>2, FreeAccounted
  <2>4. QED
    BY <1>8, <2>3 DEF UserIdsAccounted
<1>5. LinksBelongToUsers'
  BY DEF LinksBelongToUsers
<1>6. Requests'
  BY DEF Requests, Rest, Since, ForClosed, Walking, Exists
<1>7. QED
  BY <1>1, <1>2, <1>3, <1>4, <1>5, <1>6

LEMMA RemoveLeaveKeeps ==
  ASSUME IInv, RemoveLeave
  PROVE  IInv'
<1> USE NoneIsNobody DEF IInv, Types, TypeOK, RemoveLeave, sessionVars
<1>8. /\ Defined /\ upd.pc = "leave" /\ upd.todo \in Seq(Id) /\ upd.todo # <<>>
      /\ upd'.pc = "loop" /\ upd'.todo = Tail(upd.todo) /\ upd'.seen = upd.seen
      /\ upd' = [upd EXCEPT !.pc = "loop", !.todo = Tail(upd.todo)]
  OBVIOUS
<1>9. /\ upd'.todo \in Seq(Id)
      /\ \A k \in DOMAIN upd'.todo :
           /\ k + 1 \in DOMAIN upd.todo /\ upd'.todo[k] = upd.todo[k + 1]
           /\ k + 1 # 1 /\ k \in Int
  BY <1>8, TailOf
<1>1. Types'
  <2>1. upd' \in [pc : {"idle", "loop", "erase", "free", "leave", "tick"}, todo : Seq(Id), seen : Nat]
    BY <1>8, <1>9
  <2>2. QED
    BY <1>8, <2>1 DEF Types, TypeOK
<1>2. Objects'
  BY DEF Objects, Exists
<1>3. Removal'
  BY DEF Removal
<1>4. UserIdsAccounted'
  BY DEF UserIdsAccounted, LiveIds
<1>5. LinksBelongToUsers'
  BY DEF LinksBelongToUsers
<1>6. Requests'
  <2>1. \A k \in Rest' : k \in Int /\ k + 1 \in Rest /\ upd'.todo[k] = upd.todo[k + 1]
    BY <1>8, <1>9 DEF Rest
  <2>2. Since' = Since
    BY <1>8 DEF Since, Walking
  <2>3. \A i : ForClosed(i) => ForClosed(i)'
    BY DEF ForClosed
  <2>4. Requests /\ UNCHANGED <<toRemove, net, conn, users, adding>>
    OBVIOUS
  <2>5. \A c \in Client : Exists(c) => Exists(c)'
    BY DEF Exists
  <2>6. /\ \A k \in Rest : ForClosed(upd.todo[k])
        /\ \A k, l \in Rest : upd.todo[k] = upd.todo[l] => k = l
        /\ \A k \in Rest, l \in Since : upd.todo[k] # toRemove[l]
        /\ upd.seen <= Len(toRemove)
    BY <1>8 DEF Requests, Walking
  <2> HIDE DEF RemoveLeave, IInv, Types, TypeOK
  <2>7. (\A k \in Rest : ForClosed(upd.todo[k]))'
    <3>1. \A k \in Rest' : ForClosed(upd'.todo[k])
      BY <2>1, <2>6
    <3>2. QED
      BY <2>3, <3>1
  <2>8. \A k, l \in Rest' : upd'.todo[k] = upd'.todo[l] => k = l
    BY <2>1, <2>6
  <2>9. \A k \in Rest', l \in Since : upd'.todo[k] # toRemove[l]
    BY <2>1, <2>6
  <2>10. QED
    BY <1>8, <2>2, <2>3, <2>4, <2>5, <2>6, <2>7, <2>8, <2>9 DEF Requests, Walking
<1>7. QED
  BY <1>1, <1>2, <1>3, <1>4, <1>5, <1>6

LEMMA ClearKeeps ==
  ASSUME IInv, Clear
  PROVE  IInv'
<1> USE NoneIsNobody DEF IInv, Types, TypeOK, Clear, UpdateStep, sessionVars
<1>1. Types'
  OBVIOUS
<1>2. Objects'
  BY DEF Objects, Exists
<1>3. Removal'
  BY DEF Removal
<1>4. UserIdsAccounted'
  BY DEF UserIdsAccounted, LiveIds
<1>5. LinksBelongToUsers'
  BY DEF LinksBelongToUsers
<1>6. Requests'
  BY DEF Requests, Rest, Since, Walking, Exists
<1>7. QED
  BY <1>1, <1>2, <1>3, <1>4, <1>5, <1>6

LEMMA TickKeeps ==
  ASSUME IInv, Tick
  PROVE  IInv'
<1> USE NoneIsNobody DEF IInv, Types, TypeOK, Tick, UpdateStep, sessionVars
<1>1. Types'
  OBVIOUS
<1>2. Objects'
  BY DEF Objects, Exists
<1>3. Removal'
  BY DEF Removal
<1>4. UserIdsAccounted'
  BY DEF UserIdsAccounted, LiveIds
<1>5. LinksBelongToUsers'
  BY DEF LinksBelongToUsers
<1>6. Requests'
  BY DEF Requests, Rest, Since, ForClosed, Walking, Exists
<1>7. QED
  BY <1>1, <1>2, <1>3, <1>4, <1>5, <1>6

-----------------------------------------------------------------------------
LEMMA InitIInv == Init => IInv
<1> SUFFICES ASSUME Init PROVE IInv
  OBVIOUS
<1>1. NewGenerator(0) \in Generator /\ Accounted(NewGenerator(0), {}, 0)
  BY IdSpaceAssumption, NewAccounted DEF Id
<1>2. DOMAIN users = {} /\ users \in [DOMAIN users -> Client]
  BY DEF Init
<1>3. upd \in [pc : {"idle", "loop", "erase", "free", "leave", "tick"}, todo : Seq(Id), seen : Nat]
  BY DEF Init, Idle
<1>4. upd.pc = "idle" /\ toRemove = <<>>
  BY DEF Init, Idle
<1>5. /\ conn \in [Client -> {"absent", "open", "closing", "closed"}]
      /\ id \in [Client -> Id \cup {None}] /\ links \in [Id -> SUBSET Canal]
      /\ joined \in [Client -> SUBSET Canal]
  BY DEF Init
<1>6. Types
  BY <1>1, <1>2, <1>3, <1>4, <1>5 DEF Init, Types, TypeOK
<1>7. Objects /\ Removal
  BY <1>2, <1>4, NoneIsNobody DEF Init, Objects, Exists, Removal
<1>8. UserIdsAccounted
  <2>1. LiveIds = {}
    BY <1>2, <1>4 DEF Init, LiveIds
  <2>2. QED
    BY <1>1, <1>2, <2>1 DEF Init, UserIdsAccounted
<1>9. LinksBelongToUsers
  BY DEF Init, LinksBelongToUsers
<1>10. Requests
  <2>1. Rest = {} /\ Since = {}
    BY <1>4 DEF Rest, Since
  <2>2. \A c \in Client : conn[c] = "absent"
    BY DEF Init
  <2>3. QED
    BY <1>4, <2>1, <2>2 DEF Requests, Walking
<1>11. QED
  BY <1>6, <1>7, <1>8, <1>9, <1>10 DEF IInv

LEMMA Inductive == Spec => []IInv
<1>1. IInv /\ [Next]_vars => IInv'
  <2> SUFFICES ASSUME IInv, [Next]_vars PROVE IInv'
    OBVIOUS
  <2>1. CASE NetworkThread
    BY <2>1, AcceptKeeps, AcceptAddKeeps, JoinKeeps, LeaveKeeps, LeaveRefusedKeeps,
       MessageKeeps, ReadFailsKeeps, ReadBreaksKeeps, WriteEndsKeeps, CloseHandlerKeeps,
       StopBeginKeeps, StopRemoveKeeps, StopEndKeeps DEF NetworkThread
  <2>2. CASE UpdateThread
    BY <2>2, UpdateBeginKeeps, RemoveFindKeeps, RemoveEraseKeeps, RemoveFreeKeeps,
       RemoveLeaveKeeps, ClearKeeps, TickKeeps DEF UpdateThread
  <2>3. CASE UNCHANGED vars
    <3>1. Types' /\ Objects' /\ Removal'
      BY <2>3 DEF vars, IInv, Types, TypeOK, Objects, Exists, Removal, Defined
    <3>2. UserIdsAccounted' /\ LinksBelongToUsers'
      BY <2>3 DEF vars, IInv, UserIdsAccounted, LiveIds, LinksBelongToUsers, Defined
    <3>3. Requests'
      BY <2>3 DEF vars, IInv, Requests, Rest, Since, Walking, ForClosed, Exists, Defined
    <3>4. QED
      BY <3>1, <3>2, <3>3 DEF IInv
  <2>4. QED
    BY <2>1, <2>2, <2>3 DEF Next
<1>2. QED
  BY InitIInv, <1>1, PTL DEF Spec

\* The tables and the objects keep their types, whichever thread comes first.
THEOREM UserTypes == Spec => []TypeOK
<1>1. IInv => TypeOK
  BY DEF IInv, Types
<1>2. QED
  BY Inductive, <1>1, PTL

\* A user's id is its own from GenerateID to FreeID.
THEOREM UserIdsTheorem == Spec => []UserIdsAccounted
<1>1. IInv => UserIdsAccounted
  BY DEF IInv
<1>2. QED
  BY Inductive, <1>1, PTL

\* Nobody who is gone stays in a canal.
THEOREM LinksTheorem == Spec => []LinksBelongToUsers
<1>1. IInv => LinksBelongToUsers
  BY DEF IInv
<1>2. QED
  BY Inductive, <1>1, PTL

\* A request kept as an id removes nobody but the user that made it.
THEOREM OnlyClosedTheorem == Spec => OnlyClosedRemoved
<1>1. ASSUME IInv, Next, NEW c \in Client, Exists(c), ~Exists(c)'
      PROVE  conn[c] = "closed" \/ net = "stopping"
  <2>1. CASE RemoveErase
    <3> DEFINE h == Head(upd.todo)
    <3>1. /\ Defined /\ upd.pc = "erase" /\ upd.todo \in Seq(Id) /\ upd.todo # <<>>
          /\ users' = Without(users, h) /\ adding' = adding /\ Types
      BY <1>1, <2>1 DEF RemoveErase, UpdateStep, IInv, Types, TypeOK
    <3>2. 1 \in DOMAIN upd.todo /\ h = upd.todo[1] /\ h \in DOMAIN users
      BY <1>1, <3>1, TailOf DEF IInv, Removal
    <3>3. ForClosed(h)
      BY <1>1, <3>1, <3>2 DEF IInv, Requests, Rest
    <3> HIDE DEF h
    <3>4. c = users[h]
      BY <1>1, <3>1, WithoutOne DEF Exists
    <3>5. QED
      BY <3>2, <3>3, <3>4 DEF ForClosed
  <2>2. ASSUME NEW i \in Id, StopRemove(i) PROVE net = "stopping"
    BY <2>2 DEF StopRemove
  <2>3. CASE AcceptAdd
    <3>1. /\ id[adding] \notin DOMAIN users /\ adding # None
          /\ users' = [i \in DOMAIN users \cup {id[adding]} |->
                         IF i = id[adding] THEN adding ELSE users[i]]
      BY <1>1, <2>3 DEF AcceptAdd, IInv, UserIdsAccounted
    <3>2. QED
      BY <1>1, <3>1 DEF Exists
  <2>4. ASSUME NEW d \in Client, Accept(d) PROVE FALSE
    BY <1>1, <2>4, NoneIsNobody DEF Accept, Handler, Exists
  <2>5. CASE UNCHANGED <<users, adding>>
    BY <1>1, <2>5 DEF Exists
  <2>6. CASE NetworkThread
    <3>1. ASSUME NEW d \in Client, NEW i \in Id, NEW k \in Canal,
                 Join(d, i, k) \/ Leave(d, i, k) \/ LeaveRefused(d, i, k) \/ Message(d, i, k)
          PROVE  UNCHANGED <<users, adding>>
      BY <3>1 DEF Join, Leave, LeaveRefused, Message, Command
    <3>2. ASSUME NEW d \in Client, ReadFails(d) \/ ReadBreaks(d) \/ WriteEnds(d) \/ CloseHandler(d)
          PROVE  UNCHANGED <<users, adding>>
      BY <3>2 DEF ReadFails, ReadBreaks, WriteEnds, CloseHandler
    <3>3. QED
      BY <2>2, <2>3, <2>4, <2>5, <2>6, <3>1, <3>2 DEF NetworkThread, StopBegin, StopEnd
  <2>7. CASE UpdateThread
    BY <2>1, <2>5, <2>7 DEF UpdateThread, UpdateBegin, RemoveFind, RemoveFree, RemoveLeave,
       Clear, Tick, UpdateStep
  <2>8. QED
    BY <1>1, <2>6, <2>7 DEF Next
<1>2. IInv /\ [Next]_vars =>
        [\A c \in Client : Exists(c) /\ ~Exists(c)' => conn[c] = "closed" \/ net = "stopping"]_vars
  BY <1>1
<1>3. QED
  BY Inductive, <1>2, PTL DEF Spec, OnlyClosedRemoved
-----------------------------------------------------------------------------
(* Who has been closed has asked for its removal. *)

Ahead == {upd.todo[k] : k \in Rest} \cup {toRemove[k] : k \in Since} \cup lost

\* The request of a closed session is one that is not acted upon yet.  The one that
\* Update is just acting upon does not count: its id may be another user's by now.
Asked ==
  /\ adding # None => conn[adding] = "open"
  /\ Defined /\ net = "run" =>
       \A c \in Client : conn[c] = "closed" /\ Exists(c) => id[c] \in Ahead

\* Nothing about it changes, but that sessions begin to close.
LEMMA AskedStays ==
  ASSUME IInv, Asked, UNCHANGED <<users, adding, id, upd, toRemove, lost>>,
         Defined' => Defined, net' = "run" => net = "run",
         \A c \in Client : conn'[c] = "closed" => conn[c] = "closed",
         adding # None => conn' = conn
  PROVE  Asked'
<1>1. Ahead' = Ahead
  BY DEF Ahead, Rest, Since, Walking
<1>2. \A c \in Client : Exists(c)' <=> Exists(c)
  BY DEF Exists
<1>3. QED
  BY <1>1, <1>2 DEF Asked

LEMMA AcceptAsks ==
  ASSUME IInv, Asked, NEW c \in Client, Accept(c) \/ AcceptAdd
  PROVE  Asked'
<1> USE NoneIsNobody DEF IInv, Types, TypeOK
<1>1. CASE Accept(c)
  <2>1. /\ adding = None /\ adding' = c /\ conn' = [conn EXCEPT ![c] = "open"]
        /\ Defined /\ UNCHANGED <<users, net, upd, toRemove, lost>>
        /\ \A d \in Client : d # c => id'[d] = id[d] /\ conn'[d] = conn[d]
    BY <1>1 DEF Accept, Handler, updateVars
  <2>2. Ahead' = Ahead
    BY <2>1 DEF Ahead, Rest, Since, Walking
  <2>3. \A d \in Client : d # c /\ Exists(d)' => Exists(d)
    BY <2>1 DEF Exists
  <2>4. QED
    BY <2>1, <2>2, <2>3 DEF Asked
<1>2. CASE AcceptAdd
  <2>1. /\ adding # None /\ adding' = None /\ id[adding] \notin DOMAIN users
        /\ UNCHANGED <<conn, id, net, upd, toRemove, lost>> /\ Defined
        /\ users' = [i \in DOMAIN users \cup {id[adding]} |->
                       IF i = id[adding] THEN adding ELSE users[i]]
    BY <1>2 DEF AcceptAdd, sessionVars, updateVars, UserIdsAccounted
  <2>2. Ahead' = Ahead
    BY <2>1 DEF Ahead, Rest, Since, Walking
  <2>3. \A d \in Client : Exists(d)' => Exists(d)
    BY <2>1 DEF Exists
  <2>4. QED
    BY <2>1, <2>2, <2>3 DEF Asked
<1>3. QED
  BY <1>1, <1>2

LEMMA CloseAsks ==
  ASSUME IInv, Asked, NEW c \in Client, CloseHandler(c)
  PROVE  Asked'
<1> USE DEF IInv, Types, TypeOK
<1>1. /\ Defined /\ adding = None /\ toRemove' = Append(toRemove, id[c])
      /\ UNCHANGED <<users, adding, id, net, upd, lost>>
      /\ \A d \in Client : d # c => conn'[d] = conn[d]
  BY DEF CloseHandler, Handler
<1>2. /\ DOMAIN toRemove' = 1 .. Len(toRemove) + 1 /\ toRemove'[Len(toRemove) + 1] = id[c]
      /\ \A k \in DOMAIN toRemove : k \in DOMAIN toRemove' /\ toRemove'[k] = toRemove[k]
  BY <1>1
<1>3. Rest' = Rest /\ Since \subseteq Since'
  BY <1>1, <1>2 DEF Rest, Since, Walking
<1>4. Len(toRemove) + 1 \in Since'
  BY <1>1, <1>2 DEF Since, Walking, Requests
<1>5. id[c] \in Ahead' /\ Ahead \subseteq Ahead'
  <2>1. \A k \in Since : toRemove'[k] = toRemove[k]
    BY <1>2 DEF Since
  <2>2. id[c] \in Ahead'
    BY <1>2, <1>4 DEF Ahead
  <2> HIDE DEF IInv, Types, TypeOK
  <2>3. ASSUME NEW i \in Ahead PROVE i \in Ahead'
    <3>1. CASE i \in lost
      BY <1>1, <3>1 DEF Ahead
    <3>2. ASSUME NEW k \in Rest, i = upd.todo[k] PROVE i \in Ahead'
      <4>1. k \in Rest' /\ i = upd'.todo[k]
        BY <1>1, <1>3, <3>2
      <4>2. QED
        BY <4>1 DEF Ahead
    <3>3. ASSUME NEW k \in Since, i = toRemove[k] PROVE i \in Ahead'
      <4>1. k \in Since' /\ i = toRemove'[k]
        BY <1>3, <2>1, <3>3
      <4>2. QED
        BY <4>1 DEF Ahead
    <3>4. QED
      BY <3>1, <3>2, <3>3 DEF Ahead
  <2>4. QED
    BY <2>2, <2>3
<1>6. \A d \in Client : Exists(d)' => Exists(d)
  BY <1>1 DEF Exists
<1>7. QED
  BY <1>1, <1>5, <1>6 DEF Asked

\* Update: what it drops belongs to nobody, what it clears is lost.
LEMMA UpdateAsks ==
  ASSUME IInv, Asked, UpdateThread
  PROVE  Asked'
<1> USE DEF IInv, Types, TypeOK
<1>1. /\ Defined /\ UNCHANGED <<adding, net, conn, id>>
  BY DEF UpdateThread, UpdateBegin, RemoveFind, RemoveErase, RemoveFree, RemoveLeave, Clear,
     Tick, UpdateStep, sessionVars
<1>2. ASSUME \A c \in Client : Exists(c)' => Exists(c),
             net = "run" =>
               \A c \in Client : conn[c] = "closed" /\ Exists(c)' /\ id[c] \in Ahead => id[c] \in Ahead'
      PROVE  Asked'
  BY <1>1, <1>2 DEF Asked
<1>3. CASE UpdateBegin
  <2>1. /\ upd.pc = "idle" /\ upd'.pc = "loop" /\ upd'.todo = toRemove
        /\ UNCHANGED <<users, toRemove, lost>>
    BY <1>3 DEF UpdateBegin
  <2>2. Rest = {} /\ Since = DOMAIN toRemove /\ Rest' = DOMAIN toRemove
    BY <2>1 DEF Rest, Since, Walking
  <2>3. Ahead \subseteq Ahead'
    BY <2>1, <2>2 DEF Ahead
  <2>4. QED
    BY <1>1, <1>2, <2>1, <2>3 DEF Exists
<1>4. CASE RemoveFind
  <2>1. /\ upd.pc = "loop" /\ upd.todo # <<>> /\ UNCHANGED <<users, toRemove, lost>>
    BY <1>4 DEF RemoveFind
  <2>2. CASE Head(upd.todo) \in DOMAIN users
    <3>1. upd' = [upd EXCEPT !.pc = "erase"]
      BY <1>4, <2>2 DEF RemoveFind
    <3>2. Ahead' = Ahead
      BY <2>1, <3>1 DEF Ahead, Rest, Since, Walking
    <3>3. QED
      BY <1>1, <1>2, <2>1, <3>2 DEF Exists
  <2>3. CASE Head(upd.todo) \notin DOMAIN users
    <3>1. 1 \in DOMAIN upd.todo /\ Head(upd.todo) = upd.todo[1]
      BY <2>1, TailOf
    <3>2. net # "run"
      BY <1>1, <2>1, <2>3, <3>1 DEF Requests, Rest, ForClosed
    <3>3. QED
      BY <1>1, <1>2, <2>1, <3>2 DEF Exists
  <2>4. QED
    BY <2>2, <2>3
<1>5. CASE RemoveErase
  <2> DEFINE h == Head(upd.todo)
  <2>1. /\ upd.pc = "erase" /\ upd'.pc = "free" /\ upd'.todo = upd.todo /\ upd'.seen = upd.seen
        /\ users' = Without(users, h) /\ UNCHANGED <<toRemove, lost>> /\ upd.todo # <<>>
    BY <1>5 DEF RemoveErase, UpdateStep
  <2>2. 1 \in DOMAIN upd.todo /\ h = upd.todo[1]
    BY <2>1, TailOf
  <2> HIDE DEF h
  <2>3. DOMAIN users' = DOMAIN users \ {h} /\ \A j \in DOMAIN users' : users'[j] = users[j]
    BY <2>1, WithoutOne
  <2>4. \A c \in Client : Exists(c)' => Exists(c)
    BY <1>1, <2>3 DEF Exists
  <2>5. \A c \in Client : conn[c] = "closed" /\ Exists(c)' => id[c] # h
    BY <1>1, <2>3, NoneIsNobody DEF Exists, Objects, Asked
  <2>6. Rest = DOMAIN upd.todo /\ Rest' = DOMAIN upd.todo \ {1} /\ Since' = Since
    BY <2>1 DEF Rest, Since, Walking
  <2>7. \A i \in Ahead : i # h => i \in Ahead'
    BY <2>1, <2>2, <2>6 DEF Ahead
  <2>8. QED
    BY <1>1, <1>2, <2>4, <2>5, <2>7
<1>6. CASE RemoveFree
  <2>1. /\ upd.pc = "free" /\ upd' = [upd EXCEPT !.pc = "leave"]
        /\ UNCHANGED <<users, toRemove, lost>>
    BY <1>6 DEF RemoveFree, UpdateStep
  <2>2. Ahead' = Ahead
    BY <2>1 DEF Ahead, Rest, Since, Walking
  <2>3. QED
    BY <1>1, <1>2, <2>1, <2>2 DEF Exists
<1>7. CASE RemoveLeave
  <2>1. /\ upd.pc = "leave" /\ upd'.pc = "loop" /\ upd'.todo = Tail(upd.todo)
        /\ upd'.seen = upd.seen /\ upd.todo # <<>> /\ UNCHANGED <<users, toRemove, lost>>
    BY <1>7 DEF RemoveLeave
  <2>2. \A k \in DOMAIN upd.todo \ {1} :
          k - 1 \in DOMAIN Tail(upd.todo) /\ Tail(upd.todo)[k - 1] = upd.todo[k]
    BY <2>1
  <2>3. Rest = DOMAIN upd.todo \ {1} /\ Rest' = DOMAIN Tail(upd.todo) /\ Since' = Since
    BY <2>1 DEF Rest, Since, Walking
  <2>4. \A k \in Rest : k - 1 \in Rest' /\ upd'.todo[k - 1] = upd.todo[k]
    BY <2>1, <2>2, <2>3
  <2>5. ASSUME NEW i \in Ahead PROVE i \in Ahead'
    <3>1. CASE i \in lost \cup {toRemove[k] : k \in Since}
      BY <2>1, <2>3, <3>1 DEF Ahead
    <3>2. ASSUME NEW k \in Rest, i = upd.todo[k] PROVE i \in Ahead'
      <4>1. k - 1 \in Rest' /\ i = upd'.todo[k - 1]
        BY <2>4, <3>2
      <4>2. QED
        BY <4>1 DEF Ahead
    <3>3. QED
      BY <3>1, <3>2 DEF Ahead
  <2>6. QED
    BY <1>1, <1>2, <2>1, <2>5 DEF Exists
<1>8. CASE Clear
  <2>1. /\ upd.pc = "loop" /\ upd.todo = <<>> /\ users' = users
        /\ lost' = lost \cup {toRemove[i] : i \in upd.seen + 1 .. Len(toRemove)}
    BY <1>8 DEF Clear, UpdateStep
  <2>2. Rest = {} /\ Since \subseteq upd.seen + 1 .. Len(toRemove)
    BY <2>1 DEF Rest, Since, Walking
  <2>3. Ahead \subseteq Ahead'
    BY <2>1, <2>2 DEF Ahead
  <2>4. QED
    BY <1>1, <1>2, <2>1, <2>3 DEF Exists
<1>9. CASE Tick
  <2>1. /\ upd.pc = "tick" /\ upd' = [upd EXCEPT !.pc = "idle"]
        /\ UNCHANGED <<users, toRemove, lost>>
    BY <1>9 DEF Tick, UpdateStep
  <2>2. Ahead' = Ahead
    BY <2>1 DEF Ahead, Rest, Since, Walking
  <2>3. QED
    BY <1>1, <1>2, <2>1, <2>2 DEF Exists
<1>10. QED
  BY <1>3, <1>4, <1>5, <1>6, <1>7, <1>8, <1>9 DEF UpdateThread

LEMMA AskedKeeps ==
  ASSUME IInv, Asked, [Next]_vars
  PROVE  Asked'
<1> USE DEF IInv, Types, TypeOK
<1>1. ASSUME NEW c \in Client, NEW i \in Id, NEW k \in Canal,
             Join(c, i, k) \/ Leave(c, i, k) \/ LeaveRefused(c, i, k) \/ Message(c, i, k)
      PROVE  Asked'
  BY <1>1, AskedStays DEF Join, Leave, LeaveRefused, Message, Command, Handler, updateVars
<1>2. ASSUME NEW c \in Client, ReadFails(c) \/ ReadBreaks(c) \/ WriteEnds(c) PROVE Asked'
  <2>1. /\ Defined /\ UNCHANGED <<users, adding, id, upd, toRemove, lost, net>>
        /\ adding = None /\ conn' \in {conn, Closing(c)}
    BY <1>2 DEF ReadFails, ReadBreaks, WriteEnds, Handler, updateVars, sessionVars
  <2>2. \A d \in Client : conn'[d] = "closed" => conn[d] = "closed"
    BY <2>1 DEF Closing
  <2>3. QED
    BY <2>1, <2>2, AskedStays
<1>3. CASE StopBegin \/ StopEnd
  BY <1>3, AskedStays DEF StopBegin, StopEnd, Handler, sessionVars, updateVars
<1>4. ASSUME NEW i \in Id, StopRemove(i) PROVE Asked'
  BY <1>4 DEF StopRemove, Objects, Asked, sessionVars
<1>5. CASE AcceptAdd
  BY <1>5, AcceptAsks DEF AcceptAdd
<1>6. CASE NetworkThread
  BY <1>1, <1>2, <1>3, <1>4, <1>5, <1>6, AcceptAsks, CloseAsks DEF NetworkThread
<1>7. CASE UNCHANGED vars
  BY <1>7, AskedStays DEF vars, Defined
<1>8. QED
  BY <1>6, <1>7, UpdateAsks DEF Next

\* A closed session's user has its removal ahead of it, or clear() threw it away.
THEOREM ClosedRequestedTheorem == Spec => []ClosedIsRequested
<1>1. ASSUME IInv, Asked PROVE ClosedIsRequested
  <2>1. Rest \subseteq DOMAIN upd.todo
    BY DEF Rest
  <2>2. Since \subseteq (IF Walking THEN upd.seen + 1 ELSE 1) .. Len(toRemove)
    BY <1>1 DEF Since, IInv, Types, TypeOK
  <2>3. Ahead \subseteq Awaited \cup lost
    BY <2>1, <2>2 DEF Ahead, Awaited
  <2>4. QED
    BY <1>1, <2>3 DEF Asked, ClosedIsRequested
<1>2. Init => Asked
  BY DEF Init, Asked
<1>3. QED
  BY Inductive, <1>1, <1>2, AskedKeeps, PTL DEF Spec
=============================================================================
