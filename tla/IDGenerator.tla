---------------------------- MODULE IDGenerator ----------------------------
(***************************************************************************)
(* The identifiers of users, canals and applications: src/Nectere/         *)
(* IDGenerator.cpp.  A generator is a value (a record), so that the        *)
(* components that own one (CanalManager, UserManager, ApplicationManager) *)
(* keep it in a variable of theirs.  m_Mutex makes GenerateID and FreeID   *)
(* atomic, so each is one operator.                                        *)
(***************************************************************************)
EXTENDS Integers, Sequences

CONSTANT IdSpace   \* how many values a uint16_t takes: 2^16 in the program

ASSUME IdSpaceAssumption == IdSpace \in Nat \ {0}

Id == 0 .. IdSpace - 1

\* m_ID (the first id never handed out) and the queue m_FreedID.
Generator == [next : Id, freed : Seq(Id)]

NewGenerator(first) == [next |-> first, freed |-> <<>>]

\* What GenerateID returns ...
IdFrom(g) == IF g.freed = <<>> THEN g.next ELSE Head(g.freed)

\* Faulty variant, which a run must refute: an id read from the queue but not
\* popped.
GenerateIDNoPop(g) ==
  IF g.freed = <<>> THEN [g EXCEPT !.next = (@ + 1) % IdSpace] ELSE g

\* ... and the generator it leaves.  ++m_ID wraps.
GenerateID(g) ==
  IF g.freed = <<>>
  THEN [g EXCEPT !.next = (@ + 1) % IdSpace]
  ELSE [g EXCEPT !.freed = Tail(@)]

\* Faulty variants: any id handed out lowers m_ID; the id is queued as well.
FreeIDAnyLowers(g, id) ==
  IF g.next > id THEN [g EXCEPT !.next = @ - 1] ELSE [g EXCEPT !.freed = Append(@, id)]
FreeIDQueuesToo(g, id) ==
  [next |-> IF g.next = id + 1 THEN g.next - 1 ELSE g.next, freed |-> Append(g.freed, id)]

\* FreeID: the highest id handed out is taken back by lowering m_ID, any other
\* one is queued.  m_ID == (id + 1) is compared in int: it is false when m_ID
\* has wrapped to 0.
FreeID(g, id) ==
  IF g.next = id + 1
  THEN [g EXCEPT !.next = @ - 1]
  ELSE [g EXCEPT !.freed = Append(@, id)]
-----------------------------------------------------------------------------
\* How a generator that started at "first" relates to the ids in use.

FreedIds(g) == {g.freed[i] : i \in DOMAIN g.freed}

\* S is what has been handed out: the ids below m_ID or, once it wrapped, all.
HandedOut(g, first, S) ==
  \/ first <= g.next /\ S = first .. g.next - 1
  \/ g.next = 0 /\ S = first .. IdSpace - 1

\* Every id handed out is either in use or queued, never both, never twice.
Accounted(g, live, first) ==
  /\ HandedOut(g, first, live \cup FreedIds(g))
  /\ live \cap FreedIds(g) = {}
  /\ \A i, j \in DOMAIN g.freed : g.freed[i] = g.freed[j] => i = j

\* Some id is left to hand out: the bound under which ids are unique.
Spare(live, first) == live # first .. IdSpace - 1
=============================================================================
