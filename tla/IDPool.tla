------------------------------- MODULE IDPool -------------------------------
(***************************************************************************)
(* One IDGenerator shared by several holders (the network thread, which    *)
(* gives ids to users and canals, and the update thread, which takes them  *)
(* back).  A holder only frees an id it holds: RemoveUserInstant,          *)
(* DeleteCanal and UnloadApplication each look the id up first.            *)
(***************************************************************************)
EXTENDS IDGenerator

CONSTANTS Holder,   \* who holds ids
          First     \* the id the generator starts at: 0, or 1 for applications

ASSUME FirstAssumption == First \in Id

VARIABLES gen,      \* the generator
          held      \* the ids each holder has been given and has not freed

vars == <<gen, held>>

Live == UNION {held[h] : h \in Holder}

Init ==
  /\ gen = NewGenerator(First)
  /\ held = [h \in Holder |-> {}]

\* Bound: a generator is not asked for an id while all of them are in use.
Generate(h) ==
  /\ Spare(Live, First)
  /\ held' = [held EXCEPT ![h] = @ \cup {IdFrom(gen)}]
  /\ gen' = GenerateID(gen)

Free(h, id) ==
  /\ id \in held[h]
  /\ held' = [held EXCEPT ![h] = @ \ {id}]
  /\ gen' = FreeID(gen, id)

Next == \E h \in Holder : Generate(h) \/ \E id \in Id : Free(h, id)

Spec == Init /\ [][Next]_vars
-----------------------------------------------------------------------------
TypeOK ==
  /\ gen \in Generator
  /\ held \in [Holder -> SUBSET Id]

\* No id is ever in two hands: what makes an id in a message name one user,
\* one canal or one application, although ids are recycled.
Unique == \A h, k \in Holder : held[h] \cap held[k] # {} => h = k

\* The id GenerateID is about to hand out is used by nobody, as long as one is
\* left: it holds at the wrap of m_ID and whatever order ids come back in.
FreshNext == Spare(Live, First) => IdFrom(gen) \notin Live

\* The inductive invariant behind the two.
IdsAccounted == Accounted(gen, Live, First)
=============================================================================
