------------------------- MODULE CanalManagerProofs -------------------------
(***************************************************************************)
(* The tables of CanalManager agree for any users, names, passwords,       *)
(* limits and width of an id, until undefined behaviour is executed.       *)
(***************************************************************************)
EXTENDS CanalManager, IDGeneratorProofs, FiniteSetTheorems

\* The invariants lean on each other: that DeleteCanal finds the name to erase
\* is NamesAndIds, that nobody is linked to a canal it deletes is
\* LinksAreMemberships, that Update deletes nothing is MarkedInUse, and that
\* the id it frees was in use is CanalIdsAccounted.
Consistent ==
  /\ TypeOK /\ LinksAreMemberships /\ NamesAndIds /\ MarkedInUse
  /\ CanalIdsAccounted /\ CheckedCanalExists /\ WithinLimit
  /\ ~serving => MutexFree

IInv == Defined => Consistent
-----------------------------------------------------------------------------
\* Joining a canal that is not full keeps within its limit; leaving does, too.
LEMMA UserCount ==
  ASSUME NEW users \in SUBSET User, NEW u \in User, NEW limit \in Int
  PROVE  /\ limit >= 0 /\ Cardinality(users) <= limit /\ Cardinality(users) # limit
              => Cardinality(users \cup {u}) <= limit
         /\ Cardinality(users) <= limit => Cardinality(users \ {u}) <= limit
<1>1. IsFiniteSet(users) /\ Cardinality(users) \in Nat
  BY CanalAssumption, FS_Subset, FS_CardinalityType
<1>2. Cardinality(users \cup {u}) <= Cardinality(users) + 1
  <2>1. Cardinality(users \cup {u}) = IF u \in users THEN Cardinality(users) ELSE Cardinality(users) + 1
    BY <1>1, FS_AddElement
  <2>2. QED
    BY <1>1, <2>1
<1>3. Cardinality(users \ {u}) <= Cardinality(users)
  <2>1. Cardinality(users \ {u}) = IF u \in users THEN Cardinality(users) - 1 ELSE Cardinality(users)
    BY <1>1, FS_RemoveElement
  <2>2. QED
    BY <1>1, <2>1
<1>4. Cardinality(users \cup {u}) \in Nat /\ Cardinality(users \ {u}) \in Nat
  BY CanalAssumption, FS_Subset, FS_CardinalityType
<1>5. QED
  BY <1>1, <1>2, <1>3, <1>4

LEMMA AnswersAreEvents ==
  ASSUME NEW u \in User, NEW c \in Id,
         NEW code \in {"create", "delete", "join", "leave", "message", "list", "deleted"}
  PROVE  Answer(u, c, code) \in Event /\ Error(u, c, code) \in Event
BY DEF Answer, Error, Event

LEMMA InitIInv == Init => IInv
<1> SUFFICES ASSUME Init PROVE Consistent
  BY DEF IInv
<1>1. 0 \in Id
  BY IdSpaceAssumption DEF Id
<1>2. gen \in Generator /\ Accounted(gen, {}, 0)
  BY <1>1, NewAccounted DEF Init
<1>3. DOMAIN canals = {} /\ DOMAIN dictionary = {}
  BY DEF Init
<1>4. TypeOK
  BY <1>2, <1>3 DEF Init, TypeOK
<1>5. LinksAreMemberships /\ NamesAndIds /\ MarkedInUse /\ WithinLimit
  BY <1>3 DEF Init, LinksAreMemberships, NamesAndIds, MarkedInUse, WithinLimit, LinkedTo, Gone
<1>6. CanalIdsAccounted /\ CheckedCanalExists /\ MutexFree
  BY <1>2, <1>3 DEF Init, CanalIdsAccounted, CheckedCanalExists, Gone, MutexFree
<1>7. QED
  BY <1>4, <1>5, <1>6 DEF Consistent
-----------------------------------------------------------------------------
(* Ids that come back in any order: what Update does to the generator. *)

LEMMA OrdersOf ==
  ASSUME NEW S \in SUBSET Id, NEW order \in SetToSeqs(S)
  PROVE  order \in Seq(S) /\ (S = {} => order = <<>>)
<1>1. IsFiniteSet(Id)
  BY IdSpaceAssumption, FS_Interval DEF Id
<1>2. IsFiniteSet(S) /\ Cardinality(S) \in Nat
  BY <1>1, FS_Subset, FS_CardinalityType
<1>3. order \in [1 .. Cardinality(S) -> S]
  BY Zenon DEF SetToSeqs
<1>4. order \in Seq(S) /\ Len(order) = Cardinality(S)
  BY <1>2, <1>3
<1>5. QED
  BY <1>4, FS_EmptySet

\* What a table of the generators one after the other is like.
Frees(g, order, n, f) ==
  f = [k \in 0 .. n |-> IF k = 0 THEN g ELSE FreeID(f[k - 1], order[k])]

LEMMA FreesTypes ==
  ASSUME NEW g \in Generator, NEW order \in Seq(Id), NEW n \in 0 .. Len(order),
         NEW f, Frees(g, order, n, f)
  PROVE  \A k \in 0 .. n : f[k] \in Generator
<1> DEFINE Bad == {k \in Nat : k \in 0 .. n /\ f[k] \notin Generator}
<1>1. SUFFICES ASSUME Bad # {} PROVE FALSE
  OBVIOUS
<1>2. PICK k \in Bad : \A m \in Bad : k <= m
  BY <1>1, LeastNat
<1>3. k \in 0 .. n /\ f[k] = IF k = 0 THEN g ELSE FreeID(f[k - 1], order[k])
  BY DEF Frees
<1>4. k # 0 /\ k - 1 \in Nat /\ k - 1 \notin Bad /\ order[k] \in Id
  BY <1>2, <1>3
<1>5. f[k - 1] \in Generator
  BY <1>3, <1>4
<1>6. QED
  BY <1>2, <1>3, <1>4, <1>5, FreeTypes

LEMMA FreesExists ==
  ASSUME NEW g \in Generator, NEW order \in Seq(Id)
  PROVE  \A n \in 0 .. Len(order) : \E f : Frees(g, order, n, f)
<1> DEFINE Bad == {n \in Nat : n \in 0 .. Len(order) /\ ~\E f : Frees(g, order, n, f)}
<1>1. SUFFICES ASSUME Bad # {} PROVE FALSE
  OBVIOUS
<1>2. PICK n \in Bad : \A m \in Bad : n <= m
  BY <1>1, LeastNat
<1>3. n # 0
  <2>1. Frees(g, order, 0, [k \in 0 .. 0 |-> g])
    BY DEF Frees
  <2>2. QED
    BY <1>2, <2>1
<1>4. PICK f : Frees(g, order, n - 1, f)
  BY <1>2, <1>3
<1> DEFINE h == [k \in 0 .. n |-> IF k = n THEN FreeID(f[n - 1], order[n]) ELSE f[k]]
<1>5. Frees(g, order, n, h)
  <2>1. ASSUME NEW k \in 0 .. n
        PROVE  h[k] = IF k = 0 THEN g ELSE FreeID(h[k - 1], order[k])
    <3>1. \A j \in 0 .. n - 1 : f[j] = IF j = 0 THEN g ELSE FreeID(f[j - 1], order[j])
      BY <1>4 DEF Frees
    <3>2. \A j \in 0 .. n - 1 : h[j] = f[j]
      BY <1>2
    <3>3. h[n] = FreeID(f[n - 1], order[n])
      BY <1>2
    <3> HIDE DEF h
    <3>4. CASE k = n
      BY <1>2, <1>3, <3>2, <3>3, <3>4
    <3>5. CASE k # n
      BY <1>2, <3>1, <3>2, <3>5
    <3>6. QED
      BY <3>4, <3>5
  <2>2. DOMAIN h = 0 .. n /\ h = [k \in 0 .. n |-> h[k]]
    OBVIOUS
  <2> HIDE DEF h
  <2>3. QED
    BY <2>1, <2>2 DEF Frees
<1> HIDE DEF h
<1>6. QED
  BY <1>2, <1>5

LEMMA FreeAllIs ==
  ASSUME NEW g \in Generator, NEW order \in Seq(Id)
  PROVE  \E f : Frees(g, order, Len(order), f) /\ FreeAll(g, order) = f[Len(order)]
<1> DEFINE freed == CHOOSE f : Frees(g, order, Len(order), f)
<1>1. Frees(g, order, Len(order), freed)
  BY FreesExists
<1>2. FreeAll(g, order) = freed[Len(order)]
  BY DEF FreeAll, Frees
<1>3. QED
  BY <1>1, <1>2

LEMMA FreeAllTypes ==
  ASSUME NEW g \in Generator, NEW order \in Seq(Id)
  PROVE  FreeAll(g, order) \in Generator
BY FreeAllIs, FreesTypes

LEMMA FreeNone == ASSUME NEW g \in Generator PROVE FreeAll(g, <<>>) = g
<1>1. <<>> \in Seq(Id) /\ Len(<<>>) = 0
  OBVIOUS
<1>2. PICK f : Frees(g, <<>>, 0, f) /\ FreeAll(g, <<>>) = f[0]
  BY <1>1, FreeAllIs
<1>3. QED
  BY <1>2 DEF Frees
-----------------------------------------------------------------------------
(* A canal is added. *)

LEMMA AddConsistent ==
  ASSUME Consistent, Defined,
         NEW name \in CanalName, NEW password \in Password, NEW limit \in Limit,
         AddCanal(name, password, limit), MutexFree,
         serving' \in BOOLEAN, out' \subseteq Event,
         UNCHANGED <<links, peek, leaving, status>>
  PROVE  Consistent'
<1> DEFINE id == IdFrom(gen)
           canal == NewCanal(name, password, limit)
<1>1. /\ gen \in Generator /\ canals \in [DOMAIN canals -> Canal] /\ DOMAIN canals \subseteq Id
      /\ dictionary \in [DOMAIN dictionary -> Id] /\ DOMAIN dictionary \subseteq CanalName
      /\ links \in [User -> SUBSET Id]
  BY DEF Consistent, TypeOK
<1>0. leaving = None /\ Gone = {} /\ Gone' = {}
  BY DEF MutexFree, Gone
<1>2. Accounted(gen, DOMAIN canals, 0) /\ Spare(DOMAIN canals, 0) /\ 0 \in Id
  BY <1>0, IdSpaceAssumption DEF Consistent, CanalIdsAccounted, Defined, AddCanal, Id
<1>3. id \in Id \ DOMAIN canals /\ gen' \in Generator /\ Accounted(gen', DOMAIN canals \cup {id}, 0)
  BY <1>1, <1>2, GenerateTypes, GenerateFresh, GenerateAccounted DEF AddCanal
<1>4. canal \in Canal /\ canal.name = name /\ canal.users = {} /\ canal.marked = FALSE
  BY DEF NewCanal, Canal
<1>5. /\ DOMAIN canals' = DOMAIN canals \cup {id}
      /\ canals' \in [DOMAIN canals' -> Canal]
      /\ canals'[id] = canal
      /\ \A c \in DOMAIN canals : canals'[c] = canals[c]
  <2>1. canals' = With(canals, id, canal)
    BY DEF AddCanal
  <2> HIDE DEF canal, id
  <2>2. QED
    BY <1>1, <1>3, <1>4, <2>1 DEF With
<1>6. /\ name \notin DOMAIN dictionary
      /\ DOMAIN dictionary' = DOMAIN dictionary \cup {name}
      /\ dictionary' \in [DOMAIN dictionary' -> Id]
      /\ dictionary'[name] = id
      /\ \A n \in DOMAIN dictionary : dictionary'[n] = dictionary[n]
  <2>1. name \notin DOMAIN dictionary /\ dictionary' = With(dictionary, name, id)
    BY DEF AddCanal
  <2> HIDE DEF canal, id
  <2>2. QED
    BY <1>1, <1>3, <2>1 DEF With
<1>7. TypeOK'
  BY <1>1, <1>3, <1>5, <1>6 DEF TypeOK, Consistent
<1>8. LinksAreMemberships'
  <2>1. \A u \in User : links[u] \subseteq DOMAIN canals
    BY DEF Consistent, LinksAreMemberships, Defined
  <2>2. \A u \in User, c \in DOMAIN canals : u \in canals[c].users <=> LinkedTo(u, c)
    BY DEF Consistent, LinksAreMemberships, Defined
  <2>3. QED
    BY <1>1, <1>3, <1>4, <1>5, <2>1, <2>2 DEF LinksAreMemberships, LinkedTo
<1>9. NamesAndIds'
  BY <1>0, <1>3, <1>4, <1>5, <1>6 DEF NamesAndIds, Consistent, Defined
<1>10. MarkedInUse'
  BY <1>4, <1>5 DEF MarkedInUse, Consistent, Defined
<1>11. WithinLimit'
  <2>1. canal.limit >= 0 => Cardinality(canal.users) <= canal.limit
    BY <1>4, CanalAssumption, FS_EmptySet DEF NewCanal
  <2>2. QED
    BY <1>5, <2>1 DEF WithinLimit, Consistent, Defined
<1>12. CanalIdsAccounted' /\ CheckedCanalExists' /\ MutexFree'
  BY <1>0, <1>3, <1>5 DEF CanalIdsAccounted, CheckedCanalExists, Consistent, Defined, MutexFree
<1>13. QED
  BY <1>7, <1>8, <1>9, <1>10, <1>11, <1>12 DEF Consistent
-----------------------------------------------------------------------------
(* A canal is deleted. *)

\* cs is m_Canals when DeleteCanal is called: one user may just have left c.  In
\* the loop of LeaveAllCanal c is gone for a message that is being sent.
LEMMA RemoveConsistent ==
  ASSUME Consistent, Defined, NEW c \in DOMAIN canals, NEW cs,
         DOMAIN cs = DOMAIN canals, cs[c].name = canals[c].name,
         \A d \in DOMAIN canals \ {c} : cs[d] = canals[d],
         RemoveCanal(cs, c, status),
         out' \subseteq Event, UNCHANGED <<serving, peek>>,
         leaving' \in [user : User, todo : SUBSET Id, gone : SUBSET Id] \cup {None},
         leaving' = None <=> leaving = None,
         leaving # None => leaving'.user = leaving.user /\ leaving'.todo = leaving.todo \ {c},
         Gone = {}, Gone' \subseteq {c}, peek = None \/ Gone' = {c}
  PROVE  Consistent'
<1>1. /\ gen \in Generator /\ canals \in [DOMAIN canals -> Canal] /\ DOMAIN canals \subseteq Id
      /\ dictionary \in [DOMAIN dictionary -> Id] /\ DOMAIN dictionary \subseteq CanalName
      /\ links \in [User -> SUBSET Id]
  BY DEF Consistent, TypeOK
<1>2. canals[c].name \in DOMAIN dictionary
  BY DEF Consistent, NamesAndIds, Defined
<1>3. /\ links' = [u \in User |-> links[u] \ {c}]
      /\ dictionary' = Without(dictionary, canals[c].name)
      /\ canals' = Without(cs, c)
      /\ gen' = FreeID(gen, c)
      /\ status' = status
  BY <1>2 DEF RemoveCanal
<1>4. /\ DOMAIN canals' = DOMAIN canals \ {c}
      /\ canals' \in [DOMAIN canals' -> Canal]
      /\ \A d \in DOMAIN canals' : canals'[d] = canals[d]
  BY <1>1, <1>3 DEF Without
<1>5. /\ DOMAIN dictionary' = DOMAIN dictionary \ {canals[c].name}
      /\ dictionary' \in [DOMAIN dictionary' -> Id]
      /\ \A n \in DOMAIN dictionary' : dictionary'[n] = dictionary[n]
  BY <1>1, <1>3 DEF Without
<1>6. gen' \in Generator /\ Accounted(gen', DOMAIN canals', 0) /\ DOMAIN canals' \ Gone' = DOMAIN canals'
  <2>0. DOMAIN canals' \ Gone' = DOMAIN canals'
    BY <1>4
  <2>1. Accounted(gen, DOMAIN canals, 0) /\ 0 \in Id
    BY IdSpaceAssumption DEF Consistent, CanalIdsAccounted, Defined, Id
  <2>2. gen' \in Generator /\ Accounted(gen', DOMAIN canals', 0)
    BY <1>1, <1>3, <1>4, <2>1, FreeTypes, FreeAccounted
  <2>3. QED
    BY <2>0, <2>2
<1>7. TypeOK'
  BY <1>1, <1>3, <1>4, <1>5, <1>6 DEF TypeOK, Consistent
<1>8. LinksAreMemberships'
  <2>1. \A u \in User : links'[u] = links[u] \ {c}
    BY <1>3
  <2>2. \A u \in User : links[u] \subseteq DOMAIN canals
    BY DEF Consistent, LinksAreMemberships, Defined
  <2>3. \A u \in User, d \in DOMAIN canals : u \in canals[d].users <=> LinkedTo(u, d)
    BY DEF Consistent, LinksAreMemberships, Defined
  <2>4. \A u \in User, d \in DOMAIN canals' : LinkedTo(u, d)' <=> LinkedTo(u, d)
    BY <1>4, <2>1 DEF LinkedTo
  <2>5. QED
    BY <1>1, <1>4, <2>1, <2>2, <2>3, <2>4 DEF LinksAreMemberships
<1>9. NamesAndIds'
  <2>1. \A n \in DOMAIN dictionary : dictionary[n] \in DOMAIN canals /\ canals[dictionary[n]].name = n
    BY DEF Consistent, NamesAndIds, Defined
  <2>2. \A d \in DOMAIN canals : canals[d].name \in DOMAIN dictionary /\ dictionary[canals[d].name] = d
    BY DEF Consistent, NamesAndIds, Defined
  <2>3. \A n \in DOMAIN dictionary' : dictionary'[n] \in DOMAIN canals' /\ canals'[dictionary'[n]].name = n
    BY <1>4, <1>5, <2>1, <2>2
  <2>4. \A d \in DOMAIN canals' : canals'[d].name \in DOMAIN dictionary' /\ dictionary'[canals'[d].name] = d
    BY <1>4, <1>5, <2>2
  <2>5. QED
    BY <1>6, <2>3, <2>4 DEF NamesAndIds
<1>10. MarkedInUse' /\ WithinLimit'
  BY <1>4 DEF MarkedInUse, WithinLimit, Consistent, Defined
<1>11. CanalIdsAccounted' /\ CheckedCanalExists' /\ (~serving' => MutexFree')
  BY <1>4, <1>6 DEF CanalIdsAccounted, CheckedCanalExists, Consistent, Defined, MutexFree
<1>12. QED
  BY <1>7, <1>8, <1>9, <1>10, <1>11 DEF Consistent
-----------------------------------------------------------------------------
(* The users of one canal change, or its mark. *)

\* canals' differs from canals in c at most, whose name and limit stay.
LEMMA ChangeConsistent ==
  ASSUME Consistent, Defined, NEW c \in DOMAIN canals, NEW canal \in Canal,
         canal.name = canals[c].name, canal.limit = canals[c].limit,
         canal.marked => canal.users # {},
         canal.limit >= 0 => Cardinality(canal.users) <= canal.limit,
         canals' = [canals EXCEPT ![c] = canal],
         LinksAreMemberships',
         links' \in [User -> SUBSET Id],
         leaving' \in [user : User, todo : SUBSET Id, gone : SUBSET Id] \cup {None},
         leaving' = None <=> leaving = None, UNCHANGED Gone,
         out' \subseteq Event,
         UNCHANGED <<dictionary, gen, serving, peek, status>>
  PROVE  Consistent'
<1>1. canals \in [DOMAIN canals -> Canal]
  BY DEF Consistent, TypeOK
<1>2. /\ DOMAIN canals' = DOMAIN canals
      /\ canals' \in [DOMAIN canals -> Canal]
      /\ canals'[c] = canal
      /\ \A d \in DOMAIN canals \ {c} : canals'[d] = canals[d]
  BY <1>1
<1>3. TypeOK'
  BY <1>2 DEF TypeOK, Consistent
<1>4. NamesAndIds'
  <2>1. \A d \in DOMAIN canals : canals'[d].name = canals[d].name
    BY <1>2
  <2>2. QED
    BY <1>2, <2>1 DEF NamesAndIds, Consistent, Defined
<1>5. MarkedInUse' /\ WithinLimit'
  BY <1>2 DEF MarkedInUse, WithinLimit, Consistent, Defined
<1>6. CanalIdsAccounted' /\ CheckedCanalExists' /\ (~serving' => MutexFree')
  BY <1>2 DEF CanalIdsAccounted, CheckedCanalExists, Consistent, Defined, MutexFree
<1>7. QED
  BY <1>3, <1>4, <1>5, <1>6 DEF Consistent

\* Nothing changes but what is under way and what is sent.
LEMMA SameConsistent ==
  ASSUME Consistent, LinksAreMemberships',
         links' \in [User -> SUBSET Id], serving' \in BOOLEAN, out' \subseteq Event,
         leaving' \in [user : User, todo : SUBSET Id, gone : SUBSET Id] \cup {None},
         peek' \in [user : User, canal : Id] \cup {None},
         peek' # None => peek'.canal \in DOMAIN canals \cup Gone, UNCHANGED Gone,
         ~serving' => MutexFree',
         UNCHANGED <<canals, dictionary, gen, status>>
  PROVE  Consistent'
BY DEF Consistent, TypeOK, NamesAndIds, MarkedInUse, WithinLimit, CanalIdsAccounted,
       CheckedCanalExists, Defined
-----------------------------------------------------------------------------
(* One lemma per operation. *)

\* What every operation finds.
LEMMA Facts ==
  ASSUME Consistent, Defined
  PROVE  /\ canals \in [DOMAIN canals -> Canal] /\ DOMAIN canals \subseteq Id
         /\ links \in [User -> SUBSET Id] /\ serving \in BOOLEAN /\ 0 \in Id
         /\ peek \in [user : User, canal : Id] \cup {None}
         /\ leaving \in [user : User, todo : SUBSET Id, gone : SUBSET Id] \cup {None}
         /\ \A u \in User : links[u] \subseteq DOMAIN canals
         /\ \A u \in User, c \in DOMAIN canals : u \in canals[c].users <=> LinkedTo(u, c)
         /\ ~serving => leaving = None
         /\ leaving = None => Gone = {}
BY IdSpaceAssumption DEF Consistent, TypeOK, LinksAreMemberships, Defined, Id, MutexFree, Gone

LEMMA NoticesAreEvents == ASSUME NEW c \in Id PROVE Notices(c) \subseteq Event
BY AnswersAreEvents DEF Notices

\* A refused command, or one that only reads.
LEMMA ReadOnly ==
  ASSUME Consistent, Defined, out' \subseteq Event, serving' \in BOOLEAN, serving => serving',
         UNCHANGED <<canals, dictionary, links, gen, peek, leaving, status>>
  PROVE  Consistent'
<1>1. LinksAreMemberships'
  BY DEF Consistent, LinksAreMemberships, LinkedTo, Defined
<1>2. /\ peek' # None => peek'.canal \in DOMAIN canals \cup Gone
      /\ UNCHANGED Gone /\ (~serving' => MutexFree')
  BY DEF Consistent, CheckedCanalExists, Defined, Gone, MutexFree
<1>3. QED
  BY <1>1, <1>2, Facts, SameConsistent

\* status never becomes "defined" again.
LEMMA StaysUndefined ==
  ASSUME [Next]_vars, Defined'
  PROVE  Defined
<1>1. CASE Boot
  BY <1>1 DEF Boot, Configure, StartServing, Defined
<1>2. CASE NetworkThread
  <2>1. CASE MessageSend
    BY <2>1 DEF MessageSend, MayRace, Defined
  <2>2. ASSUME NEW u \in User, NEW c \in Id, DeleteCanal(u, c) PROVE Defined
    BY <2>2 DEF DeleteCanal, RemoveCanal, Defined
  <2>3. ASSUME NEW u \in User, NEW c \in Id, LeaveCanal(u, c) PROVE Defined
    BY <2>3 DEF LeaveCanal, RemoveCanal, Defined
  <2>4. QED
    BY <1>2, <2>1, <2>2, <2>3
       DEF NetworkThread, CreateCanal, ListCanal, JoinCanal, MessageCanal, MayRace, Defined
<1>3. CASE UpdateThread
  <2>1. ASSUME NEW c \in Id, LeaveOne(c) PROVE Defined
    BY <2>1 DEF LeaveOne, RemoveCanal, Defined
  <2>2. QED
    BY <1>3, <2>1 DEF UpdateThread, LeaveAllCanal, LeaveNext, LeaveAllEnd, Update, Defined
<1>4. CASE UNCHANGED vars
  BY <1>4 DEF vars, Defined
<1>5. QED
  BY <1>1, <1>2, <1>3, <1>4 DEF Next

LEMMA CreateCanalConsistent ==
  ASSUME Consistent, Defined, NEW u \in User, NEW name \in CanalName,
         NEW password \in Password, NEW limit \in Limit,
         CreateCanal(u, name, password, limit)
  PROVE  Consistent'
<1>1. CASE AddCanal(name, password, limit) /\ out' = {Answer(u, IdFrom(gen), "create")}
  <2>1. IdFrom(gen) \in Id
    BY GenerateTypes DEF Consistent, TypeOK
  <2>2. out' \subseteq Event /\ UNCHANGED <<links, serving, peek, leaving, status>>
    BY <1>1, <2>1, AnswersAreEvents DEF CreateCanal
  <2>3. MutexFree
    BY DEF CreateCanal, LockedCommandReady
  <2>4. QED
    BY <1>1, <2>2, <2>3, Facts, AddConsistent
<1>2. CASE /\ \E canalId \in Id : out' = {Error(u, canalId, "create")}
           /\ UNCHANGED <<canals, dictionary, gen>>
  <2>1. out' \subseteq Event /\ UNCHANGED <<links, serving, peek, leaving, status>>
    BY <1>2, AnswersAreEvents DEF CreateCanal
  <2>2. QED
    BY <1>2, <2>1, Facts, ReadOnly
<1>3. QED
  BY <1>1, <1>2 DEF CreateCanal

LEMMA DeleteCanalConsistent ==
  ASSUME Consistent, Defined, NEW u \in User, NEW c \in Id, DeleteCanal(u, c)
  PROVE  Consistent'
<1>1. peek = None /\ leaving = None /\ Gone = {} /\ Gone' = {} /\ UNCHANGED <<serving, peek, leaving>>
  BY DEF DeleteCanal, LockedCommandReady, CommandReady, MutexFree, Gone
<1>2. CASE /\ c \in DOMAIN canals /\ RemoveCanal(canals, c, status)
           /\ out' = Notices(c) \cup {Answer(u, c, "delete")}
  <2>1. out' \subseteq Event
    BY <1>2, AnswersAreEvents, NoticesAreEvents
  <2>2. QED
    BY <1>1, <1>2, <2>1, Facts, RemoveConsistent
<1>3. CASE /\ c \in DOMAIN canals /\ canals[c].users # {}
           /\ canals' = [canals EXCEPT ![c].marked = TRUE]
           /\ out' = {Answer(u, c, "delete")}
           /\ UNCHANGED <<dictionary, links, gen, status>>
  <2> DEFINE canal == [canals[c] EXCEPT !.marked = TRUE]
  <2>1. /\ canals[c] \in Canal /\ canal \in Canal /\ canal.name = canals[c].name
        /\ canal.limit = canals[c].limit /\ canal.users = canals[c].users
    BY <1>3, Facts DEF Canal
  <2>2. canals' = [canals EXCEPT ![c] = canal]
    BY <1>3, Facts
  <2>3. /\ DOMAIN canals' = DOMAIN canals
        /\ \A d \in DOMAIN canals : canals'[d].users = canals[d].users
    BY <2>1, <2>2, <1>3, Facts
  <2>4. LinksAreMemberships'
    BY <1>1, <1>3, <2>3, Facts DEF LinksAreMemberships, LinkedTo
  <2>5. canal.limit >= 0 => Cardinality(canal.users) <= canal.limit
    BY <1>3, <2>1 DEF Consistent, WithinLimit, Defined
  <2>6. out' \subseteq Event
    BY <1>3, AnswersAreEvents
  <2> HIDE DEF canal
  <2>7. QED
    BY <1>1, <1>3, <2>1, <2>2, <2>4, <2>5, <2>6, Facts, ChangeConsistent
<1>4. CASE out' = {Error(u, c, "delete")} /\ UNCHANGED <<canals, dictionary, links, gen, status>>
  <2>1. out' \subseteq Event
    BY <1>4, AnswersAreEvents
  <2>2. QED
    BY <1>1, <1>4, <2>1, Facts, ReadOnly
<1>5. QED
  BY <1>2, <1>3, <1>4 DEF DeleteCanal

LEMMA JoinCanalConsistent ==
  ASSUME Consistent, Defined, NEW u \in User, NEW c \in Id, NEW password \in Password,
         JoinCanal(u, c, password)
  PROVE  Consistent'
<1>1. /\ leaving = None /\ Gone = {} /\ Gone' = {}
      /\ UNCHANGED <<dictionary, gen, serving, peek, leaving, status>>
  BY DEF JoinCanal, LockedCommandReady, MutexFree, Gone
<1>2. CASE /\ CanJoin(c, password)
           /\ canals' = [canals EXCEPT ![c].users = @ \cup {u}]
           /\ links' = [links EXCEPT ![u] = @ \cup {c}]
           /\ out' = {Answer(u, c, "join")}
  <2> DEFINE canal == [canals[c] EXCEPT !.users = @ \cup {u}]
  <2>1. c \in DOMAIN canals /\ ~IsFull(canals[c])
    BY <1>2 DEF CanJoin
  <2>2. /\ canals[c] \in Canal /\ canal \in Canal /\ canal.name = canals[c].name
        /\ canal.limit = canals[c].limit /\ canal.users = canals[c].users \cup {u}
    BY <2>1, Facts DEF Canal
  <2>3. canals' = [canals EXCEPT ![c] = canal]
    BY <1>2, <2>1, Facts
  <2>4. /\ DOMAIN canals' = DOMAIN canals
        /\ canals'[c].users = canals[c].users \cup {u}
        /\ \A d \in DOMAIN canals \ {c} : canals'[d] = canals[d]
    BY <2>1, <2>2, <2>3, Facts
  <2>5. links' \in [User -> SUBSET Id]
    BY <1>2, Facts
  <2>6. LinksAreMemberships'
    BY <1>1, <1>2, <2>1, <2>4, Facts DEF LinksAreMemberships, LinkedTo
  <2>7. canal.limit >= 0 => Cardinality(canal.users) <= canal.limit
    <3>1. canals[c].users \in SUBSET User /\ canals[c].limit \in Int
      BY <2>2, CanalAssumption DEF Canal
    <3>2. canals[c].limit >= 0 => Cardinality(canals[c].users) <= canals[c].limit
      BY <2>1 DEF Consistent, WithinLimit, Defined
    <3>3. canals[c].limit >= 0 => Cardinality(canals[c].users) # canals[c].limit
      BY <2>1, <3>1 DEF IsFull
    <3> HIDE DEF canal
    <3>4. QED
      BY <2>2, <3>1, <3>2, <3>3, UserCount
  <2>8. out' \subseteq Event
    BY <1>2, AnswersAreEvents
  <2> HIDE DEF canal
  <2>9. QED
    BY <1>1, <2>1, <2>2, <2>3, <2>5, <2>6, <2>7, <2>8, Facts, ChangeConsistent
<1>3. CASE out' = {Error(u, 0, "join")} /\ UNCHANGED <<canals, links>>
  <2>1. out' \subseteq Event
    BY <1>3, AnswersAreEvents, Facts
  <2>2. QED
    BY <1>1, <1>3, <2>1, Facts, ReadOnly
<1>4. QED
  BY <1>2, <1>3 DEF JoinCanal

LEMMA LeaveCanalConsistent ==
  ASSUME Consistent, Defined, NEW u \in User, NEW c \in Id, LeaveCanal(u, c)
  PROVE  Consistent'
<1> DEFINE canal == [canals[c] EXCEPT !.users = @ \ {u}]
           cs == TableWithout(u, c)
<1>1. leaving = None /\ peek = None /\ Gone = {} /\ Gone' = {} /\ UNCHANGED <<serving, peek, leaving>>
  BY DEF LeaveCanal, LockedCommandReady, CommandReady, MutexFree, Gone
<1>2. ASSUME c \in DOMAIN canals
      PROVE  /\ canals[c] \in Canal /\ canal \in Canal /\ canal.name = canals[c].name
             /\ canal.limit = canals[c].limit /\ canal.users = canals[c].users \ {u}
             /\ canal.marked = canals[c].marked
             /\ cs = [canals EXCEPT ![c] = canal]
             /\ DOMAIN cs = DOMAIN canals /\ cs[c] = canal
             /\ \A d \in DOMAIN canals \ {c} : cs[d] = canals[d]
  <2>1. canals[c] \in Canal
    BY <1>2, Facts
  <2>2. /\ canal \in Canal /\ canal.name = canals[c].name /\ canal.limit = canals[c].limit
        /\ canal.users = canals[c].users \ {u} /\ canal.marked = canals[c].marked
    BY <2>1 DEF Canal
  <2>3. cs = [canals EXCEPT ![c] = canal]
    BY <1>2, Facts DEF TableWithout
  <2> HIDE DEF cs, canal
  <2>4. QED
    BY <1>2, <2>1, <2>2, <2>3, Facts
<1>3. CASE /\ c \in DOMAIN canals
           /\ out' = (Notices(c) \ {Answer(u, c, "deleted")}) \cup {Answer(u, c, "leave")}
           /\ RemoveCanal(cs, c, status)
  <2>1. out' \subseteq Event
    BY <1>3, AnswersAreEvents, NoticesAreEvents
  <2> HIDE DEF cs, canal
  <2>2. QED
    BY <1>1, <1>2, <1>3, <2>1, Facts, RemoveConsistent
<1>4. CASE /\ c \in DOMAIN canals /\ ~LastOfMarked(u, c)
           /\ canals' = cs
           /\ links' = [links EXCEPT ![u] = @ \ {c}]
           /\ out' = {Answer(u, c, "leave")}
           /\ UNCHANGED <<dictionary, gen, status>>
  <2>1. links' \in [User -> SUBSET Id]
    BY <1>4, Facts
  <2>2. LinksAreMemberships'
    <3> HIDE DEF cs, canal
    <3>1. /\ DOMAIN canals' = DOMAIN canals
          /\ canals'[c].users = canals[c].users \ {u}
          /\ \A d \in DOMAIN canals \ {c} : canals'[d] = canals[d]
      BY <1>2, <1>4
    <3>2. QED
      BY <1>1, <1>4, <3>1, Facts DEF LinksAreMemberships, LinkedTo
  <2>3. canal.limit >= 0 => Cardinality(canal.users) <= canal.limit
    <3>1. canals[c].users \in SUBSET User /\ canals[c].limit \in Int
      BY <1>2, <1>4, CanalAssumption DEF Canal
    <3>2. canals[c].limit >= 0 => Cardinality(canals[c].users) <= canals[c].limit
      BY <1>4 DEF Consistent, WithinLimit, Defined
    <3> HIDE DEF cs, canal
    <3>3. QED
      BY <1>2, <1>4, <3>1, <3>2, UserCount
  <2>4. canal.marked => canal.users # {}
    BY <1>2, <1>4 DEF LastOfMarked
  <2>5. out' \subseteq Event
    BY <1>4, AnswersAreEvents
  <2> HIDE DEF cs, canal
  <2>6. QED
    BY <1>1, <1>2, <1>4, <2>1, <2>2, <2>3, <2>4, <2>5, Facts, ChangeConsistent
<1>5. CASE /\ out' = {Error(u, c, "leave")}
           /\ UNCHANGED <<canals, dictionary, links, gen, status>>
  <2>1. out' \subseteq Event
    BY <1>5, AnswersAreEvents
  <2>2. QED
    BY <1>1, <1>5, <2>1, Facts, ReadOnly
<1>6. QED
  BY <1>3, <1>4, <1>5 DEF LeaveCanal

LEMMA LeaveAllCanalConsistent ==
  ASSUME Consistent, Defined, NEW u \in User, LeaveAllCanal(u)
  PROVE  Consistent'
<1>1. /\ leaving = None /\ leaving' = [user |-> u, todo |-> links[u], gone |-> {}] /\ out' = {}
      /\ UNCHANGED <<canals, dictionary, links, gen, serving, peek, status>> /\ serving
  BY DEF LeaveAllCanal, MutexFree
<1>0. UNCHANGED Gone
  BY <1>1 DEF Gone
<1>2. leaving' \in [user : User, todo : SUBSET Id, gone : SUBSET Id] \cup {None}
  BY <1>1, Facts
<1>3. LinksAreMemberships'
  BY <1>1, Facts DEF LinksAreMemberships, LinkedTo
<1>4. peek # None => peek.canal \in DOMAIN canals \cup Gone
  BY DEF Consistent, CheckedCanalExists, Defined
<1>5. QED
  BY <1>0, <1>1, <1>2, <1>3, <1>4, Facts, SameConsistent

LEMMA LeaveOneConsistent ==
  ASSUME Consistent, Defined, NEW c \in Id, LeaveOne(c), Defined'
  PROVE  Consistent'
<1> DEFINE u == leaving.user
           rest == leaving.todo \ {c}
           canal == [canals[c] EXCEPT !.users = @ \ {u}]
<1>1. leaving # None /\ c \in leaving.todo /\ UNCHANGED <<serving, peek>>
  BY DEF LeaveOne, MutexFree
<1>2. u \in User /\ leaving.todo \subseteq Id /\ leaving = [user |-> u, todo |-> leaving.todo, gone |-> leaving.gone]
  BY <1>1, Facts
<1>3. leaving.gone = {} /\ Gone = {}
  BY <1>1 DEF LeaveOne, Gone
<1>4. ASSUME ~(c \in DOMAIN canals /\ LastOfMarked(u, c))
      PROVE  /\ canals' = IF c \in DOMAIN canals THEN TableWithout(u, c) ELSE canals
             /\ leaving' = [user |-> u, todo |-> rest, gone |-> {}]
             /\ leaving' \in [user : User, todo : SUBSET Id, gone : SUBSET Id] \cup {None}
             /\ leaving' # None /\ UNCHANGED Gone
             /\ out' = {}
             /\ UNCHANGED <<dictionary, links, gen, status>>
  BY <1>2, <1>3, <1>4, CanalAssumption DEF LeaveOne, Gone
<1>5. peek # None => peek.canal \in DOMAIN canals \cup Gone
  BY DEF Consistent, CheckedCanalExists, Defined
<1>6. CASE c \notin DOMAIN canals
  <2>1. LinksAreMemberships'
    BY <1>1, <1>2, <1>4, <1>6, Facts DEF LinksAreMemberships, LinkedTo
  <2>2. QED
    BY <1>1, <1>4, <1>5, <1>6, <2>1, Facts, SameConsistent DEF MutexFree
<1>7. CASE c \in DOMAIN canals /\ ~LastOfMarked(u, c)
  <2>1. canals[c] \in Canal
    BY <1>7, Facts
  <2>2. /\ canal \in Canal /\ canal.name = canals[c].name /\ canal.limit = canals[c].limit
        /\ canal.users = canals[c].users \ {u} /\ canal.marked = canals[c].marked
    BY <2>1 DEF Canal
  <2>3. canals' = [canals EXCEPT ![c] = canal]
    BY <1>4, <1>7 DEF TableWithout
  <2>4. canal.marked => canal.users # {}
    BY <1>7, <2>2 DEF LastOfMarked
  <2> HIDE DEF canal, u
  <2>5. /\ DOMAIN canals' = DOMAIN canals
        /\ canals'[c].users = canals[c].users \ {u}
        /\ \A d \in DOMAIN canals \ {c} : canals'[d] = canals[d]
    BY <1>7, <2>2, <2>3, Facts
  <2>6. LinksAreMemberships'
    <3>1. leaving.user = u /\ leaving'.user = u /\ leaving'.todo = leaving.todo \ {c}
      BY <1>2, <1>4, <1>7
    <3>2. QED
      BY <1>1, <1>4, <1>7, <2>5, <3>1, Facts DEF LinksAreMemberships, LinkedTo
  <2>7. canal.limit >= 0 => Cardinality(canal.users) <= canal.limit
    <3>1. canals[c].users \in SUBSET User /\ canals[c].limit \in Int
      BY <2>1, CanalAssumption DEF Canal
    <3>2. canals[c].limit >= 0 => Cardinality(canals[c].users) <= canals[c].limit
      BY <1>7 DEF Consistent, WithinLimit, Defined
    <3>3. QED
      BY <1>2, <2>2, <3>1, <3>2, UserCount
  <2>8. QED
    BY <1>1, <1>4, <1>7, <2>2, <2>3, <2>4, <2>6, <2>7, Facts, ChangeConsistent
<1>8. CASE c \in DOMAIN canals /\ LastOfMarked(u, c)
  <2> DEFINE cs == TableWithout(u, c)
  <2>1. canals[c] \in Canal /\ canal.name = canals[c].name /\ cs = [canals EXCEPT ![c] = canal]
    BY <1>8, Facts DEF Canal, TableWithout
  <2>2. /\ DOMAIN cs = DOMAIN canals /\ cs[c].name = canals[c].name
        /\ \A d \in DOMAIN canals \ {c} : cs[d] = canals[d]
    <3> HIDE DEF cs, canal
    <3>1. QED
      BY <1>8, <2>1, Facts
  <2>3. /\ leaving' = [user |-> u, todo |-> rest, gone |-> {c}]
        /\ leaving' \in [user : User, todo : SUBSET Id, gone : SUBSET Id] \cup {None}
        /\ leaving' # None /\ Gone' = {c}
    <3>1. leaving' = [leaving EXCEPT !.todo = rest, !.gone = {c}]
      BY <1>8 DEF LeaveOne
    <3>2. leaving' = [user |-> u, todo |-> rest, gone |-> {c}]
      BY <1>2, <3>1
    <3> HIDE DEF u, rest
    <3>3. leaving' \in [user : User, todo : SUBSET Id, gone : SUBSET Id]
      BY <1>2, <3>2 DEF rest
    <3>4. QED
      BY <3>2, <3>3, CanalAssumption DEF Gone
  <2>4. RemoveCanal(cs, c, status) /\ out' \subseteq Event
    BY <1>8, NoticesAreEvents DEF LeaveOne
  <2> HIDE DEF cs, canal
  <2>5. QED
    BY <1>1, <1>3, <1>8, <2>2, <2>3, <2>4, RemoveConsistent
<1>9. QED
  BY <1>6, <1>7, <1>8

LEMMA LeaveAllEndConsistent ==
  ASSUME Consistent, Defined, LeaveAllEnd
  PROVE  Consistent'
<1>1. /\ leaving # None /\ leaving.todo = {} /\ leaving.gone = {}
      /\ links' = [links EXCEPT ![leaving.user] = {}]
      /\ leaving' = None /\ out' = {}
      /\ UNCHANGED <<canals, dictionary, gen, serving, peek, status>>
  BY DEF LeaveAllEnd, MutexFree
<1>0. UNCHANGED Gone /\ MutexFree'
  BY <1>1 DEF Gone, MutexFree
<1>2. leaving.user \in User
  BY <1>1, Facts
<1>3. links' \in [User -> SUBSET Id]
  BY <1>1, Facts
<1>4. LinksAreMemberships'
  BY <1>1, <1>2, Facts DEF LinksAreMemberships, LinkedTo
<1>5. peek # None => peek.canal \in DOMAIN canals \cup Gone
  BY DEF Consistent, CheckedCanalExists, Defined
<1>6. QED
  BY <1>0, <1>1, <1>3, <1>4, <1>5, Facts, SameConsistent

\* Update has nothing to delete: a marked canal has users.
LEMMA UpdateConsistent ==
  ASSUME Consistent, Defined, Update
  PROVE  Consistent'
<1> DEFINE toDelete == {c \in DOMAIN canals : canals[c].marked /\ canals[c].users = {}}
<1>1. toDelete = {}
  BY DEF Consistent, MarkedInUse, Defined
<1>2. /\ canals' = [c \in DOMAIN canals \ toDelete |-> canals[c]]
      /\ dictionary' = [n \in DOMAIN dictionary \ {canals[c].name : c \in toDelete} |-> dictionary[n]]
      /\ links' = [u \in User |-> links[u] \ toDelete]
      /\ \E order \in SetToSeqs(toDelete) : gen' = FreeAll(gen, order)
      /\ out' = UNION {Notices(c) : c \in toDelete}
      /\ UNCHANGED <<serving, peek, leaving, status>>
  BY DEF Update
<1> HIDE DEF toDelete
<1>3. canals' = canals
  <2>1. canals' = [c \in DOMAIN canals |-> canals[c]]
    BY <1>1, <1>2
  <2>2. QED
    BY <2>1, Facts
<1>4. dictionary' = dictionary
  <2>1. dictionary' = [n \in DOMAIN dictionary |-> dictionary[n]]
    BY <1>1, <1>2
  <2>2. dictionary \in [DOMAIN dictionary -> Id]
    BY DEF Consistent, TypeOK
  <2>3. QED
    BY <2>1, <2>2
<1>5. links' = links
  BY <1>1, <1>2, Facts
<1>6. gen' = gen /\ out' \subseteq Event
  <2>1. PICK order \in SetToSeqs(toDelete) : gen' = FreeAll(gen, order)
    BY <1>2
  <2>2. order = <<>>
    BY <1>1, OrdersOf
  <2>3. gen' = gen
    BY <2>1, <2>2, FreeNone, Facts DEF Consistent, TypeOK
  <2>4. QED
    BY <1>1, <1>2, <2>3
<1>7. QED
  BY <1>2, <1>3, <1>4, <1>5, <1>6, Facts, ReadOnly

LEMMA MessageConsistent ==
  ASSUME Consistent, Defined, NEW u \in User, NEW c \in Id, MessageCanal(u, c), Defined'
  PROVE  Consistent'
<1>1. /\ peek' = IF c \in DOMAIN canals THEN [user |-> u, canal |-> c] ELSE None
      /\ out' = {}
      /\ UNCHANGED <<canals, dictionary, links, gen, serving, leaving, status>>
  BY DEF MessageCanal, MayRace, Defined
<1>2. LinksAreMemberships'
  BY <1>1 DEF Consistent, LinksAreMemberships, LinkedTo, Defined
<1>3. UNCHANGED Gone /\ (~serving' => MutexFree')
  BY <1>1 DEF Consistent, Gone, MutexFree
<1>4. QED
  BY <1>1, <1>2, <1>3, Facts, SameConsistent

\* The canal a message is sent to is there, or is put back without a name and
\* without users while LeaveAllCanal stands where it has deleted it.
LEMMA MessageSendConsistent ==
  ASSUME Consistent, Defined, MessageSend, Defined'
  PROVE  Consistent'
<1> DEFINE c == peek.canal
<1>1. /\ peek # None /\ peek' = None
      /\ UNCHANGED <<dictionary, links, gen, serving, leaving, status>>
  BY DEF MessageSend, MayRace, Defined
<1>2. peek.user \in User /\ c \in Id /\ c \in DOMAIN canals \cup Gone
  BY <1>1, Facts DEF Consistent, CheckedCanalExists, Defined
<1>3. /\ canals' = IF c \in DOMAIN canals THEN canals ELSE With(canals, c, DefaultCanal)
      /\ out' = IF peek.user \in canals'[c].users
                THEN {Answer(v, c, "message") : v \in canals'[c].users \ {peek.user}}
                ELSE {Error(peek.user, c, "message")}
  BY DEF MessageSend
<1>4. DefaultCanal \in Canal /\ DefaultCanal.users = {} /\ DefaultCanal.marked = FALSE
      /\ DefaultCanal.limit = -1
  BY CanalAssumption DEF DefaultCanal, NewCanal, Canal
<1> HIDE DEF c
<1>5. /\ DOMAIN canals' = DOMAIN canals \cup {c} /\ canals' \in [DOMAIN canals' -> Canal]
      /\ \A d \in DOMAIN canals : canals'[d] = canals[d]
      /\ c \notin DOMAIN canals => canals'[c] = DefaultCanal
  <2>1. CASE c \in DOMAIN canals
    BY <1>3, <2>1, Facts
  <2>2. CASE c \notin DOMAIN canals
    <3>1. canals' = With(canals, c, DefaultCanal)
      BY <1>3, <2>2
    <3> HIDE DEF DefaultCanal
    <3>2. QED
      BY <1>4, <2>2, <3>1, Facts DEF With
  <2>3. QED
    BY <2>1, <2>2
<1>6. UNCHANGED Gone /\ (~serving' => MutexFree')
  BY <1>1 DEF Consistent, Gone, MutexFree
<1>7. DOMAIN canals' \ Gone' = DOMAIN canals \ Gone
  BY <1>2, <1>5, <1>6
<1>8. out' \subseteq Event
  <2>1. canals'[c].users \subseteq User
    BY <1>5 DEF Canal
  <2>2. QED
    BY <1>2, <1>3, <2>1, AnswersAreEvents
<1>9. TypeOK'
  BY <1>1, <1>2, <1>5, <1>8 DEF TypeOK, Consistent
<1>10. LinksAreMemberships'
  <2>1. \A u \in User : links[u] \subseteq DOMAIN canals
    BY Facts
  <2>2. \A u \in User, d \in DOMAIN canals : u \in canals[d].users <=> LinkedTo(u, d)
    BY Facts
  <2>3. QED
    BY <1>1, <1>4, <1>5, <2>1, <2>2 DEF LinksAreMemberships, LinkedTo
<1>11. NamesAndIds'
  BY <1>1, <1>5, <1>7 DEF NamesAndIds, Consistent, Defined
<1>12. MarkedInUse' /\ WithinLimit'
  BY <1>4, <1>5 DEF MarkedInUse, WithinLimit, Consistent, Defined
<1>13. CanalIdsAccounted' /\ CheckedCanalExists'
  BY <1>1, <1>7 DEF CanalIdsAccounted, CheckedCanalExists, Consistent, Defined
<1>14. QED
  BY <1>6, <1>9, <1>10, <1>11, <1>12, <1>13 DEF Consistent
-----------------------------------------------------------------------------
LEMMA NextConsistent ==
  ASSUME Consistent, Defined, Next, Defined'
  PROVE  Consistent'
<1>1. CASE Boot
  <2>1. ASSUME NEW name \in CanalName, NEW password \in Password, NEW limit \in Limit,
               Configure(name, password, limit)
        PROVE  Consistent'
    <3>1. /\ AddCanal(name, password, limit) /\ MutexFree
          /\ UNCHANGED <<links, serving, peek, leaving, out, status>>
      BY <2>1 DEF Configure, Consistent
    <3>2. out \subseteq Event /\ serving \in BOOLEAN
      BY DEF Consistent, TypeOK
    <3>3. QED
      BY <3>1, <3>2, AddConsistent
  <2>2. CASE StartServing
    <3>1. out \subseteq Event /\ serving' = TRUE
          /\ UNCHANGED <<canals, dictionary, links, gen, peek, leaving, out, status>>
      BY <2>2 DEF StartServing, Consistent, TypeOK
    <3>2. QED
      BY <3>1, ReadOnly
  <2>3. QED
    BY <1>1, <2>1, <2>2 DEF Boot
<1>2. CASE NetworkThread
  <2>1. ASSUME NEW u \in User, ListCanal(u) PROVE Consistent'
    <3>1. out' \subseteq Event /\ serving' \in BOOLEAN /\ serving' = serving
          /\ UNCHANGED <<canals, dictionary, links, gen, peek, leaving, status>>
      BY <2>1, AnswersAreEvents, Facts DEF ListCanal
    <3>2. QED
      BY <3>1, ReadOnly
  <2>2. QED
    BY <1>2, <2>1, CreateCanalConsistent, DeleteCanalConsistent, JoinCanalConsistent,
       LeaveCanalConsistent, MessageConsistent, MessageSendConsistent DEF NetworkThread
<1>3. CASE UpdateThread
  BY <1>3, LeaveAllCanalConsistent, LeaveOneConsistent, LeaveAllEndConsistent,
     UpdateConsistent DEF UpdateThread, LeaveNext, Defined
<1>4. QED
  BY <1>1, <1>2, <1>3 DEF Next

LEMMA IInvInductive == Spec => []IInv
<1>1. IInv /\ [Next]_vars => IInv'
  <2> SUFFICES ASSUME IInv, [Next]_vars, Defined' PROVE Consistent'
    BY DEF IInv
  <2>1. Defined /\ Consistent
    BY StaysUndefined DEF IInv
  <2>2. CASE Next
    BY <2>1, <2>2, NextConsistent
  <2>3. CASE UNCHANGED vars
    BY <2>1, <2>3 DEF vars, Consistent, TypeOK, LinksAreMemberships, LinkedTo, NamesAndIds,
       MarkedInUse, WithinLimit, CanalIdsAccounted, CheckedCanalExists, Defined, Gone, MutexFree
  <2>4. QED
    BY <2>2, <2>3
<1>2. QED
  BY InitIInv, <1>1, PTL DEF Spec

\* Canal::m_Users and CanalManager::m_ClientLinks agree, also while the update
\* thread is half way through LeaveAllCanal.
THEOREM LinksTheorem == Spec => []LinksAreMemberships
<1>1. IInv => LinksAreMemberships
  BY DEF IInv, Consistent, LinksAreMemberships
<1>2. QED
  BY IInvInductive, <1>1, PTL

\* m_Canals and m_CanalDictionary list the same canals.
THEOREM NamesTheorem == Spec => []NamesAndIds
<1>1. IInv => NamesAndIds
  BY DEF IInv, Consistent, NamesAndIds
<1>2. QED
  BY IInvInductive, <1>1, PTL

\* No canal has more users than its limit.
THEOREM LimitTheorem == Spec => []WithinLimit
<1>1. IInv => WithinLimit
  BY DEF IInv, Consistent, WithinLimit
<1>2. QED
  BY IInvInductive, <1>1, PTL

\* A canal that is marked for deletion still has a user.
THEOREM MarkedTheorem == Spec => []MarkedInUse
<1>1. IInv => MarkedInUse
  BY DEF IInv, Consistent, MarkedInUse
<1>2. QED
  BY IInvInductive, <1>1, PTL

\* Canal ids are neither lost nor given out twice.
THEOREM CanalIdsTheorem == Spec => []CanalIdsAccounted
<1>1. IInv => CanalIdsAccounted
  BY DEF IInv, Consistent, CanalIdsAccounted
<1>2. QED
  BY IInvInductive, <1>1, PTL

\* MessageCanal's unlocked check-then-use finds its canal, unless the loop of
\* LeaveAllCanal stands where it has just deleted it.
THEOREM CheckedCanalTheorem == Spec => []CheckedCanalExists
<1>1. IInv => CheckedCanalExists
  BY DEF IInv, Consistent, CheckedCanalExists
<1>2. QED
  BY IInvInductive, <1>1, PTL
-----------------------------------------------------------------------------
(* Types, whatever happened: undefined behaviour leaves well-formed tables. *)

\* f with an entry more, or less.
LEMMA WithTypes ==
  ASSUME NEW D, NEW R, NEW f, DOMAIN f \subseteq D, f \in [DOMAIN f -> R],
         NEW x \in D, NEW v \in R
  PROVE  /\ DOMAIN With(f, x, v) \subseteq D /\ With(f, x, v) \in [DOMAIN With(f, x, v) -> R]
         /\ DOMAIN Without(f, x) \subseteq D /\ Without(f, x) \in [DOMAIN Without(f, x) -> R]
BY DEF With, Without

LEMMA AddTypes ==
  ASSUME TypeOK, NEW name \in CanalName, NEW password \in Password, NEW limit \in Limit,
         AddCanal(name, password, limit), serving' \in BOOLEAN, out' \subseteq Event,
         UNCHANGED <<links, peek, leaving, status>>
  PROVE  TypeOK'
<1>1. IdFrom(gen) \in Id /\ gen' \in Generator
  BY GenerateTypes DEF TypeOK, AddCanal
<1>2. NewCanal(name, password, limit) \in Canal
  BY DEF NewCanal, Canal
<1>3. /\ canals' = With(canals, IdFrom(gen), NewCanal(name, password, limit))
      /\ dictionary' = With(dictionary, name, IdFrom(gen))
  BY DEF AddCanal
<1>4. /\ DOMAIN canals \subseteq Id /\ canals \in [DOMAIN canals -> Canal]
      /\ DOMAIN dictionary \subseteq CanalName /\ dictionary \in [DOMAIN dictionary -> Id]
  BY DEF TypeOK
<1>5. DOMAIN canals' \subseteq Id /\ canals' \in [DOMAIN canals' -> Canal]
  BY <1>1, <1>2, <1>3, <1>4, WithTypes
<1>6. DOMAIN dictionary' \subseteq CanalName /\ dictionary' \in [DOMAIN dictionary' -> Id]
  BY <1>1, <1>3, <1>4, WithTypes
<1>7. QED
  BY <1>1, <1>5, <1>6 DEF TypeOK

LEMMA RemoveTypes ==
  ASSUME TypeOK, NEW c \in Id, NEW cs, DOMAIN cs \subseteq Id, cs \in [DOMAIN cs -> Canal],
         NEW next \in {"defined", "undefined", "crashed"}, RemoveCanal(cs, c, next),
         serving' \in BOOLEAN, out' \subseteq Event,
         leaving' \in [user : User, todo : SUBSET Id, gone : SUBSET Id] \cup {None}, UNCHANGED peek
  PROVE  TypeOK'
<1>1. links' \in [User -> SUBSET Id]
  BY DEF RemoveCanal, TypeOK
<1>2. CASE UNCHANGED <<dictionary, canals, gen>> /\ status' = "crashed"
  BY <1>1, <1>2 DEF TypeOK
<1>3. CASE /\ dictionary' = Without(dictionary, cs[c].name)
           /\ canals' = Without(cs, c)
           /\ gen' = FreeID(gen, c)
           /\ status' = next
  <2>1. gen' \in Generator
    BY <1>3, FreeTypes DEF TypeOK
  <2>2. DOMAIN canals' \subseteq Id /\ canals' \in [DOMAIN canals' -> Canal]
    BY <1>3 DEF Without
  <2>3. DOMAIN dictionary' \subseteq CanalName /\ dictionary' \in [DOMAIN dictionary' -> Id]
    BY <1>3 DEF Without, TypeOK
  <2>4. QED
    BY <1>1, <1>3, <2>1, <2>2, <2>3 DEF TypeOK
<1>4. QED
  BY <1>2, <1>3 DEF RemoveCanal

\* The users of a canal, or its mark, change.
LEMMA ChangeTypes ==
  ASSUME TypeOK, NEW c \in DOMAIN canals, NEW u \in User
  PROVE  /\ DOMAIN TableWithout(u, c) = DOMAIN canals
         /\ TableWithout(u, c) \in [DOMAIN canals -> Canal]
         /\ [canals EXCEPT ![c].users = @ \cup {u}] \in [DOMAIN canals -> Canal]
         /\ [canals EXCEPT ![c].marked = TRUE] \in [DOMAIN canals -> Canal]
<1>1. canals \in [DOMAIN canals -> Canal] /\ canals[c] \in Canal
  BY DEF TypeOK
<1>2. /\ [canals[c] EXCEPT !.users = @ \ {u}] \in Canal
      /\ [canals[c] EXCEPT !.users = @ \cup {u}] \in Canal
      /\ [canals[c] EXCEPT !.marked = TRUE] \in Canal
  BY <1>1 DEF Canal
<1>3. QED
  BY <1>1, <1>2 DEF TableWithout

LEMMA BootTypes == ASSUME TypeOK, Boot PROVE TypeOK'
<1>1. ASSUME NEW name \in CanalName, NEW password \in Password, NEW limit \in Limit,
             Configure(name, password, limit)
      PROVE  TypeOK'
  <2>1. /\ AddCanal(name, password, limit)
        /\ UNCHANGED <<links, peek, leaving, status>>
        /\ serving' \in BOOLEAN /\ out' \subseteq Event
    BY <1>1 DEF Configure, TypeOK
  <2>2. QED
    BY <2>1, AddTypes
<1>2. CASE StartServing
  BY <1>2 DEF StartServing, TypeOK
<1>3. QED
  BY <1>1, <1>2 DEF Boot

LEMMA NetworkTypes ==
  ASSUME TypeOK, NetworkThread
  PROVE  TypeOK'
<1>0. 0 \in Id
  BY IdSpaceAssumption DEF Id
<1>1. ASSUME NEW u \in User, NEW name \in CanalName, NEW password \in Password,
             NEW limit \in Limit, CreateCanal(u, name, password, limit)
      PROVE  TypeOK'
  <2>1. CASE AddCanal(name, password, limit) /\ out' = {Answer(u, IdFrom(gen), "create")}
    <3>1. out' \subseteq Event /\ UNCHANGED <<links, peek, leaving, status>> /\ serving' \in BOOLEAN
      BY <1>1, <2>1, AnswersAreEvents, GenerateTypes DEF CreateCanal, TypeOK
    <3>2. QED
      BY <2>1, <3>1, AddTypes
  <2>2. CASE /\ \E canalId \in Id : out' = {Error(u, canalId, "create")}
             /\ UNCHANGED <<canals, dictionary, gen>>
    <3>1. out' \subseteq Event
      BY <2>2, AnswersAreEvents
    <3>2. QED
      BY <1>1, <2>2, <3>1 DEF CreateCanal, TypeOK
  <2>3. QED
    BY <1>1, <2>1, <2>2 DEF CreateCanal
<1>2. ASSUME NEW u \in User, ListCanal(u) PROVE TypeOK'
  <2>1. out' \subseteq Event
    BY <1>0, <1>2, AnswersAreEvents DEF ListCanal
  <2>2. QED
    BY <1>2, <2>1 DEF ListCanal, TypeOK
<1>3. ASSUME NEW u \in User, NEW c \in Id, DeleteCanal(u, c) PROVE TypeOK'
  <2>1. Notices(c) \subseteq Event /\ Answer(u, c, "delete") \in Event /\ Error(u, c, "delete") \in Event
    BY AnswersAreEvents, NoticesAreEvents
  <2>2. UNCHANGED <<serving, peek, leaving>> /\ out' \subseteq Event
    BY <1>3, <2>1 DEF DeleteCanal
  <2>3. CASE RemoveCanal(canals, c, status)
    BY <2>2, <2>3, RemoveTypes DEF TypeOK
  <2>4. CASE /\ c \in DOMAIN canals /\ canals' = [canals EXCEPT ![c].marked = TRUE]
             /\ UNCHANGED <<dictionary, links, gen, status>>
    <3>1. DOMAIN canals' = DOMAIN canals /\ canals' \in [DOMAIN canals -> Canal]
      BY <2>4, ChangeTypes
    <3>2. QED
      BY <2>2, <2>4, <3>1 DEF TypeOK
  <2>5. CASE UNCHANGED <<canals, dictionary, links, gen, status>>
    BY <2>2, <2>5 DEF TypeOK
  <2>6. QED
    BY <1>3, <2>3, <2>4, <2>5 DEF DeleteCanal
<1>4. ASSUME NEW u \in User, NEW c \in Id, NEW password \in Password, JoinCanal(u, c, password)
      PROVE  TypeOK'
  <2>1. out' \subseteq Event /\ UNCHANGED <<dictionary, gen, serving, peek, leaving, status>>
    BY <1>0, <1>4, AnswersAreEvents DEF JoinCanal
  <2>2. CASE /\ c \in DOMAIN canals
             /\ canals' = [canals EXCEPT ![c].users = @ \cup {u}]
             /\ links' = [links EXCEPT ![u] = @ \cup {c}]
    <3>1. DOMAIN canals' = DOMAIN canals /\ canals' \in [DOMAIN canals -> Canal]
      BY <2>2, ChangeTypes
    <3>2. links' \in [User -> SUBSET Id]
      BY <2>2 DEF TypeOK
    <3>3. QED
      BY <2>1, <3>1, <3>2 DEF TypeOK
  <2>3. CASE UNCHANGED <<canals, links>>
    BY <2>1, <2>3 DEF TypeOK
  <2>4. QED
    BY <1>4, <2>2, <2>3 DEF JoinCanal, CanJoin
<1>5. ASSUME NEW u \in User, NEW c \in Id, LeaveCanal(u, c) PROVE TypeOK'
  <2>1. Notices(c) \subseteq Event /\ Answer(u, c, "leave") \in Event /\ Error(u, c, "leave") \in Event
    BY AnswersAreEvents, NoticesAreEvents
  <2>2. UNCHANGED <<serving, peek, leaving>> /\ out' \subseteq Event
    BY <1>5, <2>1 DEF LeaveCanal
  <2>3. CASE c \in DOMAIN canals /\ RemoveCanal(TableWithout(u, c), c, status)
    <3>1. /\ DOMAIN TableWithout(u, c) = DOMAIN canals
          /\ TableWithout(u, c) \in [DOMAIN canals -> Canal]
      BY <2>3, ChangeTypes
    <3>2. DOMAIN canals \subseteq Id /\ status \in {"defined", "undefined", "crashed"}
      BY DEF TypeOK
    <3>3. serving' \in BOOLEAN /\ leaving' \in [user : User, todo : SUBSET Id, gone : SUBSET Id] \cup {None}
      BY <2>2 DEF TypeOK
    <3>4. QED
      BY <2>2, <2>3, <3>1, <3>2, <3>3, RemoveTypes
  <2>4. CASE /\ c \in DOMAIN canals /\ canals' = TableWithout(u, c)
             /\ links' = [links EXCEPT ![u] = @ \ {c}]
             /\ UNCHANGED <<dictionary, gen, status>>
    <3>1. DOMAIN canals' = DOMAIN canals /\ canals' \in [DOMAIN canals -> Canal]
      BY <2>4, ChangeTypes
    <3>2. links' \in [User -> SUBSET Id]
      BY <2>4 DEF TypeOK
    <3>3. QED
      BY <2>2, <2>4, <3>1, <3>2 DEF TypeOK
  <2>5. CASE UNCHANGED <<canals, dictionary, links, gen, status>>
    BY <2>2, <2>5 DEF TypeOK
  <2>6. QED
    BY <1>5, <2>3, <2>4, <2>5 DEF LeaveCanal
<1>6. ASSUME NEW u \in User, NEW c \in Id, MessageCanal(u, c) PROVE TypeOK'
  BY <1>6 DEF MessageCanal, MayRace, TypeOK
<1>7. CASE MessageSend
  <2>1. peek \in [user : User, canal : Id]
    BY <1>7 DEF MessageSend, TypeOK
  <2>2. PICK u \in User, c \in Id : u = peek.user /\ c = peek.canal
    BY <2>1
  <2>3. DOMAIN canals' \subseteq Id /\ canals' \in [DOMAIN canals' -> Canal]
    <3>1. DefaultCanal \in Canal
      BY CanalAssumption DEF DefaultCanal, NewCanal, Canal
    <3>2. canals' = canals \/ canals' = With(canals, c, DefaultCanal)
      BY <1>7, <2>2 DEF MessageSend
    <3>3. DOMAIN canals \subseteq Id /\ canals \in [DOMAIN canals -> Canal]
      BY DEF TypeOK
    <3>4. /\ DOMAIN With(canals, c, DefaultCanal) \subseteq Id
          /\ With(canals, c, DefaultCanal) \in [DOMAIN With(canals, c, DefaultCanal) -> Canal]
      BY <3>1, <3>3, WithTypes
    <3>5. QED
      BY <3>2, <3>3, <3>4
  <2>4. c \in DOMAIN canals'
    BY <1>7, <2>2 DEF MessageSend, With
  <2>5. canals'[c].users \subseteq User
    BY <2>3, <2>4 DEF Canal
  <2>6. out' \subseteq Event
    <3>1. out' = (IF u \in canals'[c].users
                  THEN {Answer(v, c, "message") : v \in canals'[c].users \ {u}}
                  ELSE {Error(u, c, "message")})
      BY <1>7, <2>2 DEF MessageSend
    <3>2. QED
      BY <2>5, <3>1, AnswersAreEvents
  <2>7. status' \in {"defined", "undefined", "crashed"}
    BY <1>7 DEF MessageSend, MayRace, TypeOK
  <2>8. UNCHANGED <<dictionary, links, gen, serving, leaving>> /\ peek' = None
    BY <1>7 DEF MessageSend
  <2>9. QED
    BY <2>3, <2>6, <2>7, <2>8 DEF TypeOK
<1>8. QED
  BY <1>1, <1>2, <1>3, <1>4, <1>5, <1>6, <1>7 DEF NetworkThread

LEMMA UpdateThreadTypes ==
  ASSUME TypeOK, UpdateThread
  PROVE  TypeOK'
<1>1. ASSUME NEW u \in User, LeaveAllCanal(u) PROVE TypeOK'
  <2>1. leaving' \in [user : User, todo : SUBSET Id, gone : SUBSET Id]
    BY <1>1 DEF LeaveAllCanal, TypeOK
  <2>2. QED
    BY <1>1, <2>1 DEF LeaveAllCanal, TypeOK
<1>2. ASSUME NEW c \in Id, LeaveOne(c) PROVE TypeOK'
  <2>1. leaving \in [user : User, todo : SUBSET Id, gone : SUBSET Id]
    BY <1>2 DEF LeaveOne, MutexFree, TypeOK
  <2>2. PICK u \in User : u = leaving.user
    BY <2>1
  <2>3. /\ leaving' \in [user : User, todo : SUBSET Id, gone : SUBSET Id]
        /\ Notices(c) \subseteq Event
        /\ out' = Notices(c) \/ out' = {}
        /\ UNCHANGED <<serving, peek>>
    BY <1>2, <2>1, NoticesAreEvents DEF LeaveOne
  <2>4. CASE c \in DOMAIN canals /\ RemoveCanal(TableWithout(u, c), c, status)
    <3>1. /\ DOMAIN TableWithout(u, c) = DOMAIN canals
          /\ TableWithout(u, c) \in [DOMAIN canals -> Canal]
      BY <2>4, ChangeTypes
    <3>2. /\ DOMAIN canals \subseteq Id /\ serving' \in BOOLEAN
          /\ status \in {"defined", "undefined", "crashed"}
      BY <2>3 DEF TypeOK
    <3>3. QED
      BY <2>3, <2>4, <3>1, <3>2, RemoveTypes
  <2>5. CASE /\ canals' = IF c \in DOMAIN canals THEN TableWithout(u, c) ELSE canals
             /\ UNCHANGED <<dictionary, links, gen, status>>
    <3>1. DOMAIN canals' = DOMAIN canals /\ canals' \in [DOMAIN canals -> Canal]
      BY <2>5, ChangeTypes DEF TypeOK
    <3>2. QED
      BY <2>3, <2>5, <3>1 DEF TypeOK
  <2>6. QED
    BY <1>2, <2>2, <2>4, <2>5 DEF LeaveOne
<1>3. CASE LeaveAllEnd
  BY <1>3 DEF LeaveAllEnd, TypeOK
<1>6. CASE LeaveNext
  <2>1. leaving \in [user : User, todo : SUBSET Id, gone : SUBSET Id]
    BY <1>6 DEF LeaveNext, MutexFree, TypeOK
  <2>2. leaving' \in [user : User, todo : SUBSET Id, gone : SUBSET Id]
    BY <1>6, <2>1 DEF LeaveNext
  <2>3. QED
    BY <1>6, <2>2 DEF LeaveNext, TypeOK
<1>4. CASE Update
  <2> DEFINE toDelete == {c \in DOMAIN canals : canals[c].marked /\ canals[c].users = {}}
  <2>1. toDelete \subseteq Id /\ toDelete \subseteq DOMAIN canals
    BY DEF TypeOK
  <2>2. /\ canals' = [c \in DOMAIN canals \ toDelete |-> canals[c]]
        /\ dictionary' = [n \in DOMAIN dictionary \ {canals[c].name : c \in toDelete} |-> dictionary[n]]
        /\ links' = [u \in User |-> links[u] \ toDelete]
        /\ \E order \in SetToSeqs(toDelete) : gen' = FreeAll(gen, order)
        /\ out' = UNION {Notices(c) : c \in toDelete}
        /\ UNCHANGED <<serving, peek, leaving, status>>
    BY <1>4 DEF Update
  <2> HIDE DEF toDelete
  <2>3. gen' \in Generator
    <3>1. PICK order \in SetToSeqs(toDelete) : gen' = FreeAll(gen, order)
      BY <2>2
    <3>2. order \in Seq(Id)
      BY <2>1, OrdersOf
    <3>3. QED
      BY <3>1, <3>2, FreeAllTypes DEF TypeOK
  <2>4. out' \subseteq Event
    BY <2>1, <2>2, NoticesAreEvents
  <2>5. DOMAIN canals' \subseteq Id /\ canals' \in [DOMAIN canals' -> Canal]
    BY <2>2 DEF TypeOK
  <2>6. DOMAIN dictionary' \subseteq CanalName /\ dictionary' \in [DOMAIN dictionary' -> Id]
    BY <2>2 DEF TypeOK
  <2>7. links' \in [User -> SUBSET Id]
    BY <2>2 DEF TypeOK
  <2>8. QED
    BY <2>2, <2>3, <2>4, <2>5, <2>6, <2>7 DEF TypeOK
<1>5. QED
  BY <1>1, <1>2, <1>3, <1>4, <1>6 DEF UpdateThread

\* The variables keep their types, after undefined behaviour as well.
THEOREM CanalTypes == Spec => []TypeOK
<1>1. Init => TypeOK
  <2>1. 0 \in Id
    BY IdSpaceAssumption DEF Id
  <2>2. NewGenerator(0) \in Generator
    BY <2>1, NewAccounted
  <2>3. QED
    BY <2>2 DEF Init, TypeOK
<1>2. TypeOK /\ [Next]_vars => TypeOK'
  <2> SUFFICES ASSUME TypeOK, [Next]_vars PROVE TypeOK'
    OBVIOUS
  <2>1. CASE UNCHANGED vars
    BY <2>1 DEF vars, TypeOK
  <2>2. QED
    BY <2>1, BootTypes, NetworkTypes, UpdateThreadTypes DEF Next
<1>3. QED
  BY <1>1, <1>2, PTL DEF Spec
=============================================================================
