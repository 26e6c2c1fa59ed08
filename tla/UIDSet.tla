------------------------------- MODULE UIDSet -------------------------------
(***************************************************************************)
(* The table of users, applications or commands, src/Nectere/UIDSet.hpp:   *)
(* two vectors sorted by id, searched by interpolation, here beside the    *)
(* generator its ids come from (UserManager::AddUser, LoadApplication).    *)
(* That it is a map from ids to elements is what UserManager and           *)
(* ApplicationManager take for granted.  Positions start at 1 instead of 0.*)
(***************************************************************************)
EXTENDS IDPool

Vector == INSTANCE SequencesExt

CONSTANT m_Null   \* the Ptr that Get returns when there is no such id

VARIABLE set      \* the table: both of its vectors

tableVars == <<gen, held, set>>

\* An element is named for its id and for who added it.
Element == [id : Id, by : Holder]

EmptySet == [elements |-> <<>>, ptrs |-> <<>>]

NotFound == 0   \* size() + 1 in the code: a position that no element has

\* The loop of Search from left and right on.  The quotient of two integers is
\* 0 as long as the id lies between the two ends, so that pos is left.
Narrow(e, id) ==
  LET narrow[ends \in (1 .. Len(e)) \X (1 .. Len(e))] ==
        LET left == ends[1]
            right == ends[2]
            pos == left + (right - left) * ((id - e[left].id) \div (e[right].id - e[left].id))
        IN IF e[left].id # e[right].id /\ id > e[left].id /\ id < e[right].id
           THEN CASE e[pos].id < id -> narrow[<<pos + 1, right>>]
                  [] e[pos].id > id -> narrow[<<left, pos - 1>>]
                  [] OTHER -> [pos |-> pos, left |-> pos, right |-> pos]
           ELSE [pos |-> NotFound, left |-> left, right |-> right]
  IN narrow[<<1, Len(e)>>]

\* Faulty variant: only the left end is compared.
AtLeftEnd(e, id, found) ==
  [found EXCEPT !.pos = CASE @ # NotFound -> @
                          [] e[found.left].id = id -> found.left
                          [] OTHER -> NotFound]

\* What Search returns once the loop has ended between two ends.
AtAnEnd(e, id, found) ==
  [found EXCEPT !.pos = CASE @ # NotFound -> @
                          [] e[found.left].id = id -> found.left
                          [] e[found.right].id = id -> found.right
                          [] OTHER -> NotFound]

Search(e, id) == AtAnEnd(e, id, Narrow(e, id))

Position(s, id) == IF s.elements = <<>> THEN NotFound ELSE Search(s.elements, id).pos

Insert(s, pos, element) ==
  [elements |-> Vector!InsertAt(s.elements, pos, element), ptrs |-> Vector!InsertAt(s.ptrs, pos, element)]

\* An element whose id is taken is refused; no caller looks at the answer.
Add(s, element) ==
  IF s.elements = <<>> THEN Insert(s, 1, element)
  ELSE LET found == Search(s.elements, element.id)
       IN IF found.pos # NotFound THEN s
          ELSE CASE element.id < s.elements[found.left].id -> Insert(s, found.left, element)
                 [] element.id > s.elements[found.right].id -> Insert(s, found.right + 1, element)
                 [] OTHER -> s

Find(s, id) == Position(s, id) # NotFound

Get(s, id) == IF Position(s, id) = NotFound THEN m_Null ELSE s.ptrs[Position(s, id)]

Remove(s, id) ==
  IF Position(s, id) = NotFound THEN s
  ELSE [elements |-> Vector!RemoveAt(s.elements, Position(s, id)),
        ptrs |-> Vector!RemoveAt(s.ptrs, Position(s, id))]
-----------------------------------------------------------------------------
InitTable == Init /\ set = EmptySet

\* An element is made with an id of its own and added ...
AddNew(h) == Generate(h) /\ set' = Add(set, [id |-> IdFrom(gen), by |-> h])

\* ... or with one it has been given by somebody else: a plugin chooses the ids
\* of its commands, and two may be the same (Application::AddCommand).
AddTaken(h, id) ==
  /\ id \in Live
  /\ set' = Add(set, [id |-> id, by |-> h])
  /\ UNCHANGED <<gen, held>>

RemoveElement(h, id) == Free(h, id) /\ set' = Remove(set, id)

\* The table goes, with its generator, when its manager is destroyed.
Clear ==
  /\ set' = EmptySet
  /\ gen' = NewGenerator(First)
  /\ held' = [h \in Holder |-> {}]

NextTable ==
  \/ \E h \in Holder : AddNew(h)
  \/ \E h \in Holder, id \in Id : AddTaken(h, id)
  \/ \E h \in Holder, id \in Id : RemoveElement(h, id)
  \/ Clear

SpecTable == InitTable /\ [][NextTable]_tableVars
-----------------------------------------------------------------------------
\* The table is a map: Find and Get answer for every id as a map from the ids
\* in use to their elements would, whatever was added, refused and removed
\* before.  It needs the vectors sorted and of one order, and Search to find
\* an element at either end, in the middle and nowhere.
SetIsMap ==
  \A id \in Id :
    /\ Find(set, id) <=> id \in Live
    /\ Get(set, id) = IF id \in Live
                      THEN [id |-> id, by |-> CHOOSE h \in Holder : id \in held[h]]
                      ELSE m_Null
=============================================================================
