------------------------- MODULE IDGeneratorProofs -------------------------
(***************************************************************************)
(* What the operators of IDGenerator preserve, for every width of an id    *)
(* and every first id.  The components that own a generator cite these     *)
(* lemmas.                                                                 *)
(***************************************************************************)
EXTENDS IDGenerator, WellFoundedInduction, TLAPS

\* A set of naturals has a least member.  Stated of a set, not of a predicate,
\* it serves for every induction in these proofs.
LEMMA LeastNat ==
  ASSUME NEW S \in SUBSET Nat, S # {}
  PROVE  \E n \in S : \A m \in S : n <= m
<1>1. PICK n \in S : \A m \in S : ~(<<m, n>> \in OpToRel(<, Nat))
  BY NatLessThanWellFounded, WFMin
<1>2. OpToRel(<, Nat) = {ss \in Nat \X Nat : ss[1] < ss[2]}
  BY Zenon DEF OpToRel
<1>3. \A m \in S : ~(<<m, n>> \in {ss \in Nat \X Nat : ss[1] < ss[2]})
  BY Zenon, <1>1, <1>2
<1>4. ASSUME NEW m \in S, m < n PROVE FALSE
  <2>1. <<m, n>> \in {ss \in Nat \X Nat : ss[1] < ss[2]}
    BY <1>4
  <2>2. QED
    BY <1>3, <2>1
<1>5. \A m \in S : n <= m
  BY <1>4
<1>6. QED
  BY <1>5

\* GenerateID returns an id and leaves a generator.
LEMMA GenerateTypes ==
  ASSUME NEW g \in Generator
  PROVE  IdFrom(g) \in Id /\ GenerateID(g) \in Generator
<1>1. CASE g.freed = <<>>
  BY <1>1, IdSpaceAssumption DEF Generator, IdFrom, GenerateID, Id
<1>2. CASE g.freed # <<>>
  <2>1. g.freed \in Seq(Id) /\ g.next \in Id
    BY DEF Generator
  <2>2. Head(g.freed) \in Id /\ Tail(g.freed) \in Seq(Id)
    BY <1>2, <2>1
  <2>3. QED
    BY <1>2, <2>2 DEF Generator, IdFrom, GenerateID
<1>3. QED
  BY <1>1, <1>2

\* FreeID leaves a generator.
LEMMA FreeTypes ==
  ASSUME NEW g \in Generator, NEW id \in Id
  PROVE  FreeID(g, id) \in Generator
<1>1. g.freed \in Seq(Id) /\ g.next \in Id
  BY DEF Generator
<1>2. Append(g.freed, id) \in Seq(Id)
  BY <1>1
<1>3. CASE g.next = id + 1
  BY <1>1, <1>3 DEF Generator, FreeID, Id
<1>4. CASE g.next # id + 1
  BY <1>1, <1>2, <1>4 DEF Generator, FreeID
<1>5. QED
  BY <1>3, <1>4

\* Popping a queue without duplicates removes exactly its head.
LEMMA PoppedIds ==
  ASSUME NEW q \in Seq(Id), q # <<>>,
         \A i, j \in DOMAIN q : q[i] = q[j] => i = j
  PROVE  /\ {Tail(q)[i] : i \in DOMAIN Tail(q)} = {q[i] : i \in DOMAIN q} \ {Head(q)}
         /\ Head(q) \in {q[i] : i \in DOMAIN q}
         /\ \A i, j \in DOMAIN Tail(q) : Tail(q)[i] = Tail(q)[j] => i = j
<1>1. /\ Len(q) \in Nat /\ Len(q) > 0
      /\ DOMAIN q = 1 .. Len(q)
      /\ DOMAIN Tail(q) = 1 .. Len(q) - 1
      /\ \A i \in 1 .. Len(q) - 1 : Tail(q)[i] = q[i + 1]
      /\ Head(q) = q[1]
  OBVIOUS
<1>2. ASSUME NEW i \in DOMAIN Tail(q)
      PROVE  Tail(q)[i] \in {q[k] : k \in DOMAIN q} \ {Head(q)}
  <2>1. i + 1 \in DOMAIN q /\ i + 1 # 1 /\ 1 \in DOMAIN q
    BY <1>1
  <2>2. Tail(q)[i] = q[i + 1] /\ q[i + 1] # q[1]
    BY <1>1, <2>1
  <2>3. QED
    BY <1>1, <2>1, <2>2
<1>3. ASSUME NEW k \in DOMAIN q, q[k] # Head(q)
      PROVE  q[k] \in {Tail(q)[i] : i \in DOMAIN Tail(q)}
  <2>1. k - 1 \in DOMAIN Tail(q) /\ Tail(q)[k - 1] = q[k]
    BY <1>1, <1>3
  <2>2. QED
    BY <2>1
<1>4. {Tail(q)[i] : i \in DOMAIN Tail(q)} = {q[i] : i \in DOMAIN q} \ {Head(q)}
  BY <1>2, <1>3
<1>5. Head(q) \in {q[i] : i \in DOMAIN q}
  BY <1>1
<1>6. ASSUME NEW i \in DOMAIN Tail(q), NEW j \in DOMAIN Tail(q), Tail(q)[i] = Tail(q)[j]
      PROVE  i = j
  <2>1. /\ i \in Int /\ j \in Int
        /\ i + 1 \in DOMAIN q /\ j + 1 \in DOMAIN q
        /\ q[i + 1] = q[j + 1]
    BY <1>1, <1>6
  <2>2. i + 1 = j + 1
    BY <2>1
  <2>3. QED
    BY <2>1, <2>2
<1>7. QED
  BY <1>4, <1>5, <1>6

\* Queueing an id that is not queued adds exactly that id.
LEMMA PushedIds ==
  ASSUME NEW q \in Seq(Id), NEW id \in Id,
         \A i, j \in DOMAIN q : q[i] = q[j] => i = j,
         id \notin {q[i] : i \in DOMAIN q}
  PROVE  /\ {Append(q, id)[i] : i \in DOMAIN Append(q, id)} = {q[i] : i \in DOMAIN q} \cup {id}
         /\ \A i, j \in DOMAIN Append(q, id) : Append(q, id)[i] = Append(q, id)[j] => i = j
<1> DEFINE p == Append(q, id)
<1>1. /\ Len(q) \in Nat
      /\ DOMAIN q = 1 .. Len(q)
      /\ DOMAIN p = 1 .. Len(q) + 1
      /\ \A i \in 1 .. Len(q) : p[i] = q[i]
      /\ p[Len(q) + 1] = id
  OBVIOUS
<1>2. \A i \in DOMAIN p : i \in DOMAIN q \/ i = Len(q) + 1
  BY <1>1
<1>3. {p[i] : i \in DOMAIN p} = {q[i] : i \in DOMAIN q} \cup {id}
  <2>1. ASSUME NEW i \in DOMAIN p PROVE p[i] \in {q[k] : k \in DOMAIN q} \cup {id}
    BY <1>1, <1>2
  <2>2. ASSUME NEW i \in DOMAIN q PROVE q[i] \in {p[k] : k \in DOMAIN p}
    <3>1. i \in DOMAIN p /\ p[i] = q[i]
      BY <1>1
    <3>2. QED
      BY <3>1
  <2>3. id \in {p[k] : k \in DOMAIN p}
    <3>1. Len(q) + 1 \in DOMAIN p
      BY <1>1
    <3>2. QED
      BY <1>1, <3>1
  <2>4. QED
    BY <2>1, <2>2, <2>3
<1>4. ASSUME NEW i \in DOMAIN p, NEW j \in DOMAIN p, p[i] = p[j]
      PROVE  i = j
  <2>1. CASE i \in DOMAIN q /\ j \in DOMAIN q
    BY <1>1, <1>4, <2>1
  <2>2. CASE i \in DOMAIN q /\ j = Len(q) + 1
    BY <1>1, <1>4, <2>2
  <2>3. CASE i = Len(q) + 1 /\ j \in DOMAIN q
    BY <1>1, <1>4, <2>3
  <2>4. QED
    BY <1>2, <2>1, <2>2, <2>3
<1>5. QED
  BY <1>3, <1>4
-----------------------------------------------------------------------------
\* With an empty queue and an id to spare, the ids in use are those below m_ID.
LEMMA NoneQueued ==
  ASSUME NEW g \in Generator, NEW first \in Id, NEW live,
         Accounted(g, live, first), Spare(live, first), g.freed = <<>>
  PROVE  first <= g.next /\ live = first .. g.next - 1
<1>1. FreedIds(g) = {}
  <2>1. DOMAIN g.freed = {}
    OBVIOUS
  <2>2. QED
    BY <2>1 DEF FreedIds
<1>2. HandedOut(g, first, live)
  <2>1. live \cup FreedIds(g) = live
    BY <1>1
  <2>2. QED
    BY <2>1 DEF Accounted
<1>3. QED
  BY <1>2 DEF HandedOut, Spare

\* The id handed out is in use nowhere, wrap of m_ID included.
LEMMA GenerateFresh ==
  ASSUME NEW g \in Generator, NEW first \in Id, NEW live,
         Accounted(g, live, first), Spare(live, first)
  PROVE  IdFrom(g) \notin live
<1>1. CASE g.freed = <<>>
  <2>1. live = first .. g.next - 1
    BY <1>1, NoneQueued
  <2>2. g.next \in Int /\ first \in Int
    BY IdSpaceAssumption DEF Generator, Id
  <2>3. QED
    BY <1>1, <2>1, <2>2 DEF IdFrom
<1>2. CASE g.freed # <<>>
  <2>1. g.freed \in Seq(Id)
    BY DEF Generator
  <2>2. 1 \in DOMAIN g.freed /\ Head(g.freed) = g.freed[1]
    BY <1>2, <2>1
  <2>3. Head(g.freed) \in FreedIds(g)
    BY <2>2 DEF FreedIds
  <2>4. QED
    BY <1>2, <2>3 DEF IdFrom, Accounted
<1>3. QED
  BY <1>1, <1>2

\* Every id stays accounted for when one is handed out ...
LEMMA GenerateAccounted ==
  ASSUME NEW g \in Generator, NEW first \in Id, NEW live,
         Accounted(g, live, first), Spare(live, first)
  PROVE  Accounted(GenerateID(g), live \cup {IdFrom(g)}, first)
<1> DEFINE h == GenerateID(g)
           rest == live \cup {IdFrom(g)}
<1>1. CASE g.freed = <<>>
  <2>1. first <= g.next /\ live = first .. g.next - 1
    BY <1>1, NoneQueued
  <2>2. h.next = (g.next + 1) % IdSpace /\ h.freed = <<>>
    BY <1>1 DEF GenerateID, Generator
  <2>3. FreedIds(h) = {} /\ DOMAIN h.freed = {}
    <3>1. DOMAIN h.freed = {}
      BY <2>2
    <3>2. QED
      BY <3>1 DEF FreedIds
  <2>4. g.next \in 0 .. IdSpace - 1 /\ first \in 0 .. IdSpace - 1 /\ IdSpace \in Nat \ {0}
    BY IdSpaceAssumption DEF Generator, Id
  <2>5. rest = first .. g.next
    BY <1>1, <2>1, <2>4 DEF IdFrom
  <2>6. HandedOut(h, first, rest)
    <3>1. CASE g.next = IdSpace - 1
      <4>1. h.next = 0
        BY <2>2, <2>4, <3>1
      <4>2. QED
        BY <2>5, <3>1, <4>1 DEF HandedOut
    <3>2. CASE g.next # IdSpace - 1
      <4>1. h.next = g.next + 1
        BY <2>2, <2>4, <3>2
      <4>2. first <= h.next /\ h.next - 1 = g.next
        BY <2>1, <2>4, <4>1
      <4>3. QED
        BY <2>5, <4>2 DEF HandedOut
    <3>3. QED
      BY <3>1, <3>2
  <2>7. rest \cup FreedIds(h) = rest /\ rest \cap FreedIds(h) = {}
    BY <2>3
  <2>8. QED
    BY <2>3, <2>6, <2>7 DEF Accounted
<1>2. CASE g.freed # <<>>
  <2>1. /\ g.freed \in Seq(Id)
        /\ \A i, j \in DOMAIN g.freed : g.freed[i] = g.freed[j] => i = j
    BY DEF Generator, Accounted
  <2>2. h.next = g.next /\ h.freed = Tail(g.freed)
    BY <1>2 DEF GenerateID, Generator
  <2>3. IdFrom(g) = Head(g.freed)
    BY <1>2 DEF IdFrom
  <2>4. /\ FreedIds(h) = FreedIds(g) \ {IdFrom(g)}
        /\ IdFrom(g) \in FreedIds(g)
        /\ \A i, j \in DOMAIN h.freed : h.freed[i] = h.freed[j] => i = j
    <3>1. /\ FreedIds(h) = {Tail(g.freed)[i] : i \in DOMAIN Tail(g.freed)}
          /\ FreedIds(g) = {g.freed[i] : i \in DOMAIN g.freed}
      BY <2>2 DEF FreedIds
    <3>2. /\ {Tail(g.freed)[i] : i \in DOMAIN Tail(g.freed)}
               = {g.freed[i] : i \in DOMAIN g.freed} \ {Head(g.freed)}
          /\ Head(g.freed) \in {g.freed[i] : i \in DOMAIN g.freed}
          /\ \A i, j \in DOMAIN Tail(g.freed) : Tail(g.freed)[i] = Tail(g.freed)[j] => i = j
      BY <1>2, <2>1, PoppedIds
    <3>3. QED
      BY <2>2, <2>3, <3>1, <3>2
  <2>5. rest \cup FreedIds(h) = live \cup FreedIds(g) /\ rest \cap FreedIds(h) = {}
    BY <2>4 DEF Accounted
  <2>6. HandedOut(h, first, rest \cup FreedIds(h))
    BY <2>2, <2>5 DEF HandedOut, Accounted
  <2>7. QED
    BY <2>4, <2>5, <2>6 DEF Accounted
<1>3. QED
  BY <1>1, <1>2

\* ... and when one comes back, whichever it is.
LEMMA FreeAccounted ==
  ASSUME NEW g \in Generator, NEW first \in Id, NEW live,
         Accounted(g, live, first), NEW id \in live
  PROVE  Accounted(FreeID(g, id), live \ {id}, first)
<1> DEFINE h == FreeID(g, id)
           rest == live \ {id}
<1>1. /\ g.freed \in Seq(Id) /\ g.next \in 0 .. IdSpace - 1
      /\ first \in 0 .. IdSpace - 1 /\ IdSpace \in Nat \ {0}
  BY IdSpaceAssumption DEF Generator, Id
<1>2. /\ HandedOut(g, first, live \cup FreedIds(g))
      /\ live \cap FreedIds(g) = {}
      /\ \A i, j \in DOMAIN g.freed : g.freed[i] = g.freed[j] => i = j
  BY DEF Accounted
<1>3. id \in Id /\ first <= id
  BY <1>1, <1>2 DEF HandedOut, Id
<1>4. CASE g.next = id + 1
  <2>1. h.next = id /\ h.freed = g.freed
    BY <1>1, <1>3, <1>4 DEF FreeID, Generator, Id
  <2>2. FreedIds(h) = FreedIds(g)
    BY <2>1 DEF FreedIds
  <2>3. live \cup FreedIds(g) = first .. id
    BY <1>1, <1>2, <1>3, <1>4 DEF HandedOut, Id
  <2>4. rest \cup FreedIds(h) = first .. id - 1
    <3>1. rest \cup FreedIds(h) = (live \cup FreedIds(g)) \ {id}
      BY <1>2, <2>2
    <3>2. (first .. id) \ {id} = first .. id - 1
      BY <1>1, <1>3 DEF Id
    <3>3. QED
      BY <2>3, <3>1, <3>2
  <2>5. HandedOut(h, first, rest \cup FreedIds(h))
    BY <1>3, <2>1, <2>4 DEF HandedOut
  <2>6. QED
    BY <1>2, <2>1, <2>2, <2>5 DEF Accounted
<1>5. CASE g.next # id + 1
  <2>1. h.next = g.next /\ h.freed = Append(g.freed, id)
    BY <1>5 DEF FreeID, Generator
  <2>2. id \notin FreedIds(g)
    BY <1>2
  <2>3. /\ FreedIds(h) = FreedIds(g) \cup {id}
        /\ \A i, j \in DOMAIN h.freed : h.freed[i] = h.freed[j] => i = j
    <3>1. /\ FreedIds(h) = {Append(g.freed, id)[i] : i \in DOMAIN Append(g.freed, id)}
          /\ FreedIds(g) = {g.freed[i] : i \in DOMAIN g.freed}
      BY <2>1 DEF FreedIds
    <3>2. /\ {Append(g.freed, id)[i] : i \in DOMAIN Append(g.freed, id)}
               = {g.freed[i] : i \in DOMAIN g.freed} \cup {id}
          /\ \A i, j \in DOMAIN Append(g.freed, id) :
               Append(g.freed, id)[i] = Append(g.freed, id)[j] => i = j
      <4>1. id \notin {g.freed[i] : i \in DOMAIN g.freed}
        BY <2>2 DEF FreedIds
      <4>2. QED
        BY <1>1, <1>2, <1>3, <4>1, PushedIds
    <3>3. QED
      BY <2>1, <3>1, <3>2
  <2>4. rest \cup FreedIds(h) = live \cup FreedIds(g) /\ rest \cap FreedIds(h) = {}
    BY <1>2, <2>2, <2>3
  <2>5. HandedOut(h, first, rest \cup FreedIds(h))
    BY <1>2, <2>1, <2>4 DEF HandedOut
  <2>6. QED
    BY <2>3, <2>4, <2>5 DEF Accounted
<1>6. QED
  BY <1>4, <1>5

\* A generator that has handed nothing out.
LEMMA NewAccounted ==
  ASSUME NEW first \in Id
  PROVE  NewGenerator(first) \in Generator /\ Accounted(NewGenerator(first), {}, first)
<1> DEFINE g == NewGenerator(first)
<1>1. g \in Generator /\ g.next = first /\ g.freed = <<>>
  BY DEF NewGenerator, Generator
<1>2. first \in Int
  BY IdSpaceAssumption DEF Id
<1>3. FreedIds(g) = {} /\ DOMAIN g.freed = {}
  <2>1. DOMAIN g.freed = {}
    BY <1>1
  <2>2. QED
    BY <2>1 DEF FreedIds
<1>4. {} = first .. g.next - 1 /\ first <= g.next
  BY <1>1, <1>2
<1>5. HandedOut(g, first, {} \cup FreedIds(g))
  BY <1>3, <1>4 DEF HandedOut
<1>6. QED
  BY <1>1, <1>3, <1>5 DEF Accounted
=============================================================================
