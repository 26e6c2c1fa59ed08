---------------------------- MODULE CanalManager ----------------------------
(***************************************************************************)
(* The canals (chat rooms) of a Nectere server: src/Nectere/               *)
(* CanalManager.cpp and Canal.hpp.                                         *)
(*                                                                         *)
(* Two threads call it.  The network thread runs the users' commands one   *)
(* at a time; the update thread runs Update and, for a user that is gone,  *)
(* LeaveAllCanal.  m_Mutex makes every operation atomic for the others,    *)
(* except MessageCanal, which does not take it: it is two steps here, and  *)
(* the loop of LeaveAllCanal, which it can observe, is one step per canal. *)
(* "leaving" is that loop, and m_Mutex is free exactly when it is None.    *)
(***************************************************************************)
EXTENDS IDGenerator, FiniteSets, SequencesExt

CONSTANTS User,       \* ids of the users that appear
          CanalName,  \* names given to canals
          Password,   \* passwords, the empty one included
          Limit,      \* user limits given to canals; -1 is no limit
          Empty,      \* the empty string
          None        \* no call in progress

ASSUME CanalAssumption ==
  /\ IsFiniteSet(User)
  /\ Empty \in Password
  /\ -1 \in Limit /\ Limit \subseteq Int
  /\ None \notin [user : User, canal : Id]
  /\ None \notin [user : User, todo : SUBSET Id, gone : SUBSET Id]

VARIABLES
  canals,      \* m_Canals: canal id -> Canal
  dictionary,  \* m_CanalDictionary: canal name -> canal id
  links,       \* m_ClientLinks: user id -> ids of the canals it joined
  gen,         \* m_IDGenerator
  serving,     \* the configuration is loaded and the server started
  peek,        \* MessageCanal between HaveCanal and GetCanal, or None
  leaving,     \* LeaveAllCanal's user, the links left to visit and the canal it
               \* has just deleted, if any; or None
  out,         \* the events the last step sent
  status       \* "defined", "undefined" once UB was executed, "crashed"

vars == <<canals, dictionary, links, gen, serving, peek, leaving, out, status>>

Canal == [name : CanalName \cup {Empty}, password : Password, limit : Limit,
          marked : BOOLEAN, users : SUBSET User]

NewCanal(name, password, limit) ==
  [name |-> name, password |-> password, limit |-> limit, marked |-> FALSE, users |-> {}]

DefaultCanal == NewCanal(Empty, Empty, -1)

\* Faulty variant: full only once the limit is exceeded.
IsFullBeyond(canal) == canal.limit # -1 /\ Cardinality(canal.users) > canal.limit

IsFull(canal) == canal.limit # -1 /\ Cardinality(canal.users) = canal.limit

\* f with x mapped to v, and f without x.
With(f, x, v) == [y \in DOMAIN f \cup {x} |-> IF y = x THEN v ELSE f[y]]
Without(f, x) == [y \in DOMAIN f \ {x} |-> f[y]]

Event == [to : User, code : {"create", "delete", "join", "leave", "message", "list", "deleted"},
          error : BOOLEAN, canal : Id]

Answer(u, c, code) == [to |-> u, code |-> code, error |-> FALSE, canal |-> c]
Error(u, c, code) == [to |-> u, code |-> code, error |-> TRUE, canal |-> c]

Running == status # "crashed"
MutexFree == leaving = None
\* The network thread can start the command of a user.
CommandReady == Running /\ serving /\ peek = None
LockedCommandReady == CommandReady /\ MutexFree

Init ==
  /\ canals = [c \in {} |-> DefaultCanal]
  /\ dictionary = [n \in {} |-> 0]
  /\ links = [u \in User |-> {}]
  /\ gen = NewGenerator(0)
  /\ serving = FALSE
  /\ peek = None
  /\ leaving = None
  /\ out = {}
  /\ status = "defined"
-----------------------------------------------------------------------------
(* Creating and deleting. *)

\* The private CreateCanal, for a name not in the dictionary.
AddCanal(name, password, limit) ==
  LET id == IdFrom(gen) IN
  /\ name \notin DOMAIN dictionary
  /\ Spare(DOMAIN canals, 0)    \* bound: never all 2^16 canals at once
  /\ gen' = GenerateID(gen)
  /\ dictionary' = With(dictionary, name, id)
  /\ canals' = With(canals, id, NewCanal(name, password, limit))

\* InitConfiguration: one canal of the configuration's list.
Configure(name, password, limit) ==
  /\ ~serving
  /\ AddCanal(name, password, limit)
  /\ UNCHANGED <<links, serving, peek, leaving, out, status>>

StartServing ==
  /\ ~serving
  /\ serving' = TRUE
  /\ UNCHANGED <<canals, dictionary, links, gen, peek, leaving, out, status>>

\* The answer to a refused creation carries canalId, never initialised.
CreateCanal(u, name, password, limit) ==
  /\ LockedCommandReady
  /\ \/ /\ AddCanal(name, password, limit)
        /\ out' = {Answer(u, IdFrom(gen), "create")}
     \/ /\ name \in DOMAIN dictionary
        /\ \E canalId \in Id : out' = {Error(u, canalId, "create")}
        /\ UNCHANGED <<canals, dictionary, gen>>
  /\ UNCHANGED <<links, serving, peek, leaving, status>>

\* CANAL_DELETED, to every user still linked to c.
Notices(c) == {Answer(u, c, "deleted") : u \in {v \in User : c \in links[v]}}

\* Faulty variants: the name stays in the dictionary; the id is not freed.
RemoveCanalKeepName(cs, c, next) ==
  /\ links' = [u \in User |-> links[u] \ {c}]
  /\ canals' = Without(cs, c)
  /\ gen' = FreeID(gen, c)
  /\ status' = next
  /\ UNCHANGED dictionary
RemoveCanalKeepID(cs, c, next) ==
  /\ links' = [u \in User |-> links[u] \ {c}]
  /\ dictionary' = Without(dictionary, cs[c].name)
  /\ canals' = Without(cs, c)
  /\ status' = next
  /\ UNCHANGED gen

\* The private DeleteCanal, on the table cs.  Erasing a name the dictionary
\* does not hold is erase(end()): the process dies there.
RemoveCanal(cs, c, next) ==
  /\ links' = [u \in User |-> links[u] \ {c}]
  /\ \/ /\ cs[c].name \in DOMAIN dictionary
        /\ dictionary' = Without(dictionary, cs[c].name)
        /\ canals' = Without(cs, c)
        /\ gen' = FreeID(gen, c)
        /\ status' = next
     \/ /\ cs[c].name \notin DOMAIN dictionary
        /\ status' = "crashed"
        /\ UNCHANGED <<dictionary, canals, gen>>

\* Faulty variant: a canal in use is deleted at once.
DeleteCanalInUse(u, c) ==
  /\ LockedCommandReady
  /\ c \in DOMAIN canals
  /\ RemoveCanal(canals, c, status)
  /\ out' = Notices(c) \cup {Answer(u, c, "delete")}
  /\ UNCHANGED <<serving, peek, leaving>>

\* Faulty variant: DeleteCanal only marks, and leaves the rest to Update.
DeleteCanalLater(u, c) ==
  /\ LockedCommandReady
  /\ c \in DOMAIN canals
  /\ canals' = [canals EXCEPT ![c].marked = TRUE]
  /\ out' = {Answer(u, c, "delete")}
  /\ UNCHANGED <<dictionary, links, gen, serving, peek, leaving, status>>

DeleteCanal(u, c) ==
  /\ LockedCommandReady
  /\ \/ /\ c \in DOMAIN canals
        /\ canals[c].users = {}
        /\ RemoveCanal(canals, c, status)
        /\ out' = Notices(c) \cup {Answer(u, c, "delete")}
     \/ /\ c \in DOMAIN canals
        /\ canals[c].users # {}
        /\ canals' = [canals EXCEPT ![c].marked = TRUE]
        /\ out' = {Answer(u, c, "delete")}
        /\ UNCHANGED <<dictionary, links, gen, status>>
     \/ /\ c \notin DOMAIN canals
        /\ out' = {Error(u, c, "delete")}
        /\ UNCHANGED <<canals, dictionary, links, gen, status>>
  /\ UNCHANGED <<serving, peek, leaving>>
-----------------------------------------------------------------------------
(* Joining and leaving. *)

CanJoin(c, password) ==
  c \in DOMAIN canals /\ canals[c].password = password /\ ~IsFull(canals[c])

JoinCanal(u, c, password) ==
  /\ LockedCommandReady
  /\ \/ /\ CanJoin(c, password)
        /\ canals' = [canals EXCEPT ![c].users = @ \cup {u}]
        /\ links' = [links EXCEPT ![u] = @ \cup {c}]
        /\ out' = {Answer(u, c, "join")}
     \/ /\ ~CanJoin(c, password)
        /\ out' = {Error(u, 0, "join")}
        /\ UNCHANGED <<canals, links>>
  /\ UNCHANGED <<dictionary, gen, serving, peek, leaving, status>>

\* The table once u is out of c, and whether c goes with it.
TableWithout(u, c) == [canals EXCEPT ![c].users = @ \ {u}]
\* Faulty variants: IsEmpty asked before RemoveUser; IsEmpty not asked.
LastOfMarkedTooEarly(u, c) == canals[c].marked /\ canals[c].users = {}
LastOfMarkedAnyUser(u, c) == canals[c].marked

LastOfMarked(u, c) == canals[c].marked /\ canals[c].users \ {u} = {}

LeaveCanal(u, c) ==
  /\ LockedCommandReady
  /\ \/ /\ c \in DOMAIN canals /\ c \in links[u]
        /\ \/ /\ LastOfMarked(u, c)
              /\ out' = (Notices(c) \ {Answer(u, c, "deleted")}) \cup {Answer(u, c, "leave")}
              /\ RemoveCanal(TableWithout(u, c), c, status)
           \/ /\ ~LastOfMarked(u, c)
              /\ canals' = TableWithout(u, c)
              /\ links' = [links EXCEPT ![u] = @ \ {c}]
              /\ out' = {Answer(u, c, "leave")}
              /\ UNCHANGED <<dictionary, gen, status>>
     \/ /\ ~(c \in DOMAIN canals /\ c \in links[u])
        /\ out' = {Error(u, c, "leave")}
        /\ UNCHANGED <<canals, dictionary, links, gen, status>>
  /\ UNCHANGED <<serving, peek, leaving>>

\* LeaveAllCanal takes m_Mutex and starts to iterate over u's links ...
LeaveAllCanal(u) ==
  /\ Running /\ serving /\ MutexFree
  /\ leaving' = [user |-> u, todo |-> links[u], gone |-> {}]
  /\ out' = {}
  /\ UNCHANGED <<canals, dictionary, links, gen, serving, peek, status>>

\* ... leaves one canal, and may delete it.  DeleteCanal then erases the very link
\* the iteration stands on.
LeaveOne(c) ==
  /\ Running /\ ~MutexFree /\ leaving.gone = {} /\ c \in leaving.todo
  /\ LET u == leaving.user
         rest == leaving.todo \ {c}
     IN \/ /\ c \in DOMAIN canals /\ LastOfMarked(u, c)
           /\ RemoveCanal(TableWithout(u, c), c, status)
           /\ leaving' = [leaving EXCEPT !.todo = rest, !.gone = {c}]
           /\ out' = Notices(c)
        \/ /\ ~(c \in DOMAIN canals /\ LastOfMarked(u, c))
           /\ canals' = IF c \in DOMAIN canals THEN TableWithout(u, c) ELSE canals
           /\ leaving' = [leaving EXCEPT !.todo = rest]
           /\ out' = {}
           /\ UNCHANGED <<dictionary, links, gen, status>>
  /\ UNCHANGED <<serving, peek>>

\* The loop goes on from the erased link: it takes the freed node for another
\* one or for the last one, or faults.
LeaveNext ==
  /\ Running /\ ~MutexFree /\ leaving.gone # {}
  /\ \E todo \in {leaving.todo, {}} : leaving' = [leaving EXCEPT !.todo = todo, !.gone = {}]
  /\ status' \in {"undefined", "crashed"}
  /\ out' = {}
  /\ UNCHANGED <<canals, dictionary, links, gen, serving, peek>>

\* Faulty variant: the links are not erased.
LeaveAllEndKeepLinks ==
  /\ Running /\ ~MutexFree /\ leaving.todo = {} /\ leaving.gone = {}
  /\ leaving' = None
  /\ out' = {}
  /\ UNCHANGED <<canals, dictionary, links, gen, serving, peek, status>>

\* ... erases u's links, logs "has left all canals" and releases m_Mutex.
LeaveAllEnd ==
  /\ Running /\ ~MutexFree /\ leaving.todo = {} /\ leaving.gone = {}
  /\ links' = [links EXCEPT ![leaving.user] = {}]
  /\ leaving' = None
  /\ out' = {}
  /\ UNCHANGED <<canals, dictionary, gen, serving, peek, status>>

\* The generator once the ids of "order" came back, one after the other.
FreeAll(g, order) ==
  LET freed[n \in 0 .. Len(order)] == IF n = 0 THEN g ELSE FreeID(freed[n - 1], order[n])
  IN freed[Len(order)]

\* Update deletes the canals that are marked and empty, in the order of a hash
\* table.
Update ==
  LET toDelete == {c \in DOMAIN canals : canals[c].marked /\ canals[c].users = {}} IN
  /\ Running /\ serving /\ MutexFree
  /\ canals' = [c \in DOMAIN canals \ toDelete |-> canals[c]]
  /\ dictionary' = [n \in DOMAIN dictionary \ {canals[c].name : c \in toDelete} |-> dictionary[n]]
  /\ links' = [u \in User |-> links[u] \ toDelete]
  /\ \E order \in SetToSeqs(toDelete) : gen' = FreeAll(gen, order)
  /\ out' = UNION {Notices(c) : c \in toDelete}
  /\ UNCHANGED <<serving, peek, leaving, status>>
-----------------------------------------------------------------------------
(* Messages. *)

\* What comes of looking at m_Canals, or at the users of c, without m_Mutex while
\* LeaveAllCanal erases from them: what was there before or after, or a fault.
MayRace(c) ==
  LET erases == {d \in DOMAIN canals : LastOfMarked(leaving.user, d)}
  IN \/ status' = status
     \/ ~MutexFree /\ leaving.todo \cap ({c} \cup erases) # {} /\ status' = "crashed"

\* MessageCanal's HaveCanal.  A message to a canal that does not exist is sent to
\* nobody and answered by nothing.
MessageCanal(u, c) ==
  /\ CommandReady
  /\ peek' = IF c \in DOMAIN canals THEN [user |-> u, canal |-> c] ELSE None
  /\ out' = {}
  /\ MayRace(c)
  /\ UNCHANGED <<canals, dictionary, links, gen, serving, leaving>>

\* Its GetCanal, which creates the canal if it is gone by now, the copy of the
\* users, and the sending.
MessageSend ==
  /\ Running /\ peek # None
  /\ LET u == peek.user
         c == peek.canal
     IN /\ canals' = IF c \in DOMAIN canals THEN canals ELSE With(canals, c, DefaultCanal)
        /\ out' = IF u \in canals'[c].users
                  THEN {Answer(v, c, "message") : v \in canals'[c].users \ {u}}
                  ELSE {Error(u, c, "message")}
        /\ MayRace(c)
  /\ peek' = None
  /\ UNCHANGED <<dictionary, links, gen, serving, leaving>>

ListCanal(u) ==
  /\ LockedCommandReady
  /\ out' = {Answer(u, 0, "list")}
  /\ UNCHANGED <<canals, dictionary, links, gen, serving, peek, leaving, status>>
-----------------------------------------------------------------------------
Boot ==
  \/ \E name \in CanalName, password \in Password, limit \in Limit :
       Configure(name, password, limit)
  \/ StartServing

NetworkThread ==
  \/ \E u \in User :
       \/ \E name \in CanalName, password \in Password, limit \in Limit :
            CreateCanal(u, name, password, limit)
       \/ ListCanal(u)
       \/ \E c \in Id :
            \/ DeleteCanal(u, c)
            \/ \E password \in Password : JoinCanal(u, c, password)
            \/ LeaveCanal(u, c)
            \/ MessageCanal(u, c)
  \/ MessageSend

UpdateThread ==
  \/ \E u \in User : LeaveAllCanal(u)
  \/ \E c \in Id : LeaveOne(c)
  \/ LeaveNext
  \/ LeaveAllEnd
  \/ Update

Next == Boot \/ NetworkThread \/ UpdateThread

Spec == Init /\ [][Next]_vars
-----------------------------------------------------------------------------
(* Properties.  C++ promises nothing after undefined behaviour, so the state *)
(* invariants are claimed until then; the runs that expect a violation show  *)
(* that it is reached and what it does.                                      *)

Defined == status = "defined"

TypeOK ==
  /\ DOMAIN canals \subseteq Id
  /\ canals \in [DOMAIN canals -> Canal]
  /\ DOMAIN dictionary \subseteq CanalName
  /\ dictionary \in [DOMAIN dictionary -> Id]
  /\ links \in [User -> SUBSET Id]
  /\ gen \in Generator
  /\ serving \in BOOLEAN
  /\ peek \in [user : User, canal : Id] \cup {None}
  /\ leaving \in [user : User, todo : SUBSET Id, gone : SUBSET Id] \cup {None}
  /\ out \subseteq Event
  /\ status \in {"defined", "undefined", "crashed"}

\* The canal LeaveAllCanal has just deleted; its next step is undefined.
Gone == IF leaving = None THEN {} ELSE leaving.gone

\* u is among the users of c as far as LeaveAllCanal's loop has got.
LinkedTo(u, c) ==
  /\ c \in links[u]
  /\ leaving # None /\ leaving.user = u => c \in leaving.todo

\* The two records of who is in which canal, Canal::m_Users and m_ClientLinks,
\* agree: a user is in the canals it is linked to, and those exist.  Leaving
\* every canal on disconnection relies on it.
LinksAreMemberships ==
  Defined =>
    /\ \A u \in User : links[u] \subseteq DOMAIN canals
    /\ \A u \in User, c \in DOMAIN canals : u \in canals[c].users <=> LinkedTo(u, c)

\* m_Canals and m_CanalDictionary list the same canals: one id for one name,
\* no canal that ListCanal does not show, no name whose canal is gone.  A canal
\* that LeaveAllCanal has just deleted may be back, without a name.
NamesAndIds ==
  Defined =>
    /\ \A n \in DOMAIN dictionary :
         /\ dictionary[n] \in DOMAIN canals \ Gone
         /\ canals[dictionary[n]].name = n
    /\ \A c \in DOMAIN canals \ Gone :
         canals[c].name \in DOMAIN dictionary /\ dictionary[canals[c].name] = c

\* A canal created with a limit never holds more users, although IsFull only
\* compares for equality and joining again counts nobody twice.
WithinLimit ==
  Defined => \A c \in DOMAIN canals :
    canals[c].limit >= 0 => Cardinality(canals[c].users) <= canals[c].limit

\* A canal marked for deletion still has a user: the last one to leave or to
\* disconnect takes it along, so Update, which looks for marked empty canals
\* on every round, never has one to delete.
MarkedInUse ==
  Defined => \A c \in DOMAIN canals : canals[c].marked => canals[c].users # {}

\* Canal ids are neither leaked nor freed twice: each is a canal's or queued.
CanalIdsAccounted == Defined => Accounted(gen, DOMAIN canals \ Gone, 0)

\* MessageCanal holds no lock between the check for a canal and its use: operator[]
\* puts a nameless canal, which nobody can list or delete, into m_Canals if the
\* canal went away.  Only LeaveAllCanal takes it away, when a user that disconnects
\* was the last one of a canal marked for deletion.
CheckedCanalExists == Defined /\ peek # None => peek.canal \in DOMAIN canals \cup Gone

\* u left c in this step of its own accord, or is being disconnected.
OwnDeparture(u, c) ==
  \/ Answer(u, c, "leave") \in out'
  \/ leaving # None /\ leaving.user = u

\* CANAL_DELETED, the event that tells a user its canal is gone, only ever goes
\* to the user that is being disconnected, and so to nobody: a canal is deleted
\* when no other user is linked to it.
DeletedToNobody ==
  [][status = "defined" =>
       \A e \in out' : e.code = "deleted" => leaving # None /\ leaving.user = e.to]_vars

\* Nobody is put out of a canal by what another user does: deleting a canal in
\* use, or leaving one marked for deletion, takes no other member's place.
OnlyOwnDeparture ==
  [][status' = "defined" =>
       \A u \in User, c \in DOMAIN canals :
         u \in canals[c].users /\ (c \in DOMAIN canals' => u \notin canals'[c].users)
           => OwnDeparture(u, c)]_vars

\* The canals, by name, are the rooms of the abstract specification.
RoomsOf ==
  [n \in DOMAIN dictionary |->
     LET canal == canals[dictionary[n]]
     IN [members |-> canal.users, limit |-> canal.limit, closing |-> canal.marked]]

Promise == INSTANCE Rooms WITH
  rooms <- IF Defined THEN RoomsOf ELSE [n \in {} |-> n],
  failed <- ~Defined

\* CanalManager, with its ids, its two tables, its lock and its interleavings,
\* does no more to a canal than the rooms allow.
ImplementsRooms == Promise!Spec

\* The log of LeaveAllCanal, "User u has left all canals": when it is written,
\* u is in no canal.
HasLeftAllCanals ==
  [][leaving # None /\ leaving' = None =>
       \A c \in DOMAIN canals' : leaving.user \notin canals'[c].users]_vars
=============================================================================
