---------------------------- MODULE IDPoolProofs ----------------------------
(***************************************************************************)
(* Ids are unique whoever frees them and in whatever order, and the table  *)
(* sorted by id (UIDSet) is a map, for every width of an id, every first   *)
(* id and every set of holders.                                            *)
(***************************************************************************)
EXTENDS UIDSet, IDGeneratorProofs

\* IdsAccounted alone says which ids are in use, not that one holder uses
\* each: freeing an id takes it out of Live only because of Unique.
IInv == TypeOK /\ IdsAccounted /\ Unique

LEMMA InitIInv == Init => IInv
<1> SUFFICES ASSUME Init PROVE IInv
  OBVIOUS
<1>1. Live = {}
  BY DEF Init, Live
<1>2. gen \in Generator /\ IdsAccounted
  BY <1>1, FirstAssumption, NewAccounted DEF Init, IdsAccounted
<1>3. QED
  BY <1>2 DEF Init, IInv, TypeOK, Unique

LEMMA GenerateIInv ==
  ASSUME IInv, NEW h \in Holder, Generate(h)
  PROVE  IInv'
<1> DEFINE id == IdFrom(gen)
<1>1. gen \in Generator /\ First \in Id /\ Accounted(gen, Live, First) /\ Spare(Live, First)
  BY FirstAssumption DEF IInv, TypeOK, IdsAccounted, Generate
<1>2. id \in Id /\ id \notin Live
  BY <1>1, GenerateTypes, GenerateFresh
<1>3. held' = [held EXCEPT ![h] = @ \cup {id}] /\ held \in [Holder -> SUBSET Id]
  BY DEF Generate, IInv, TypeOK
<1>4. Live' = Live \cup {id}
  BY <1>3 DEF Live
<1>5. TypeOK'
  BY <1>1, <1>2, <1>3, GenerateTypes DEF TypeOK, Generate
<1>6. IdsAccounted'
  BY <1>1, <1>4, GenerateAccounted DEF IdsAccounted, Generate
<1>7. Unique'
  <2>1. \A k \in Holder : id \notin held[k]
    BY <1>2 DEF Live
  <2>2. QED
    BY <1>3, <2>1 DEF Unique, IInv
<1>8. QED
  BY <1>5, <1>6, <1>7 DEF IInv

LEMMA FreeIInv ==
  ASSUME IInv, NEW h \in Holder, NEW id \in Id, Free(h, id)
  PROVE  IInv'
<1>1. gen \in Generator /\ First \in Id /\ Accounted(gen, Live, First)
  BY FirstAssumption DEF IInv, TypeOK, IdsAccounted
<1>2. /\ id \in held[h]
      /\ held' = [held EXCEPT ![h] = @ \ {id}]
      /\ held \in [Holder -> SUBSET Id]
      /\ gen' = FreeID(gen, id)
  BY DEF Free, IInv, TypeOK
<1>3. \A k \in Holder \ {h} : id \notin held[k]
  BY <1>2 DEF IInv, Unique
<1>4. Live' = Live \ {id} /\ id \in Live
  BY <1>2, <1>3 DEF Live
<1>5. TypeOK'
  BY <1>1, <1>2, FreeTypes DEF TypeOK
<1>6. IdsAccounted'
  BY <1>1, <1>2, <1>4, FreeAccounted DEF IdsAccounted
<1>7. Unique'
  BY <1>2 DEF Unique, IInv
<1>8. QED
  BY <1>5, <1>6, <1>7 DEF IInv

LEMMA Inductive == Spec => []IInv
<1>1. IInv /\ [Next]_vars => IInv'
  <2> SUFFICES ASSUME IInv, [Next]_vars PROVE IInv'
    OBVIOUS
  <2>1. CASE Next
    BY <2>1, GenerateIInv, FreeIInv DEF Next
  <2>2. CASE UNCHANGED vars
    BY <2>2 DEF vars, IInv, TypeOK, IdsAccounted, Unique, Live
  <2>3. QED
    BY <2>1, <2>2
<1>2. QED
  BY InitIInv, <1>1, PTL DEF Spec

\* No id is ever in two hands (IDGenerator::GenerateID, FreeID).
THEOREM IdsUnique == Spec => []Unique
<1>1. IInv => Unique
  BY DEF IInv
<1>2. QED
  BY Inductive, <1>1, PTL

\* GenerateID never hands out an id in use while one is left.
THEOREM IdsFresh == Spec => []FreshNext
<1>1. IInv => FreshNext
  BY FirstAssumption, GenerateFresh DEF IInv, TypeOK, IdsAccounted, FreshNext
<1>2. QED
  BY Inductive, <1>1, PTL

\* No id is lost and none freed twice: each is held or queued, never both.
THEOREM IdsAccountedTheorem == Spec => []IdsAccounted
<1>1. IInv => IdsAccounted
  BY DEF IInv
<1>2. QED
  BY Inductive, <1>1, PTL
-----------------------------------------------------------------------------
(* The loop of Search. *)

Sorted(e) == \A i, j \in DOMAIN e : i < j => e[i].id < e[j].id

\* What the loop goes on under.
Between(e, id, left, right) ==
  e[left].id # e[right].id /\ id > e[left].id /\ id < e[right].id

\* The left end where the loop that starts at "left" stops.
StopsAt(e, id, left, right, k) ==
  /\ k \in left .. Len(e) /\ ~Between(e, id, k, right)
  /\ \A j \in left .. k - 1 : Between(e, id, j, right)

\* Id lies strictly between the ends, so the quotient is 0 and pos is left.
LEMMA QuotientZero ==
  ASSUME NEW a \in Int, NEW b \in Int, 0 < a, a < b
  PROVE  a \div b = 0
<1>1. a \div b \in Int /\ b * (a \div b) <= a /\ a < b * (a \div b) + b
  OBVIOUS
<1>2. ASSUME a \div b >= 1 PROVE FALSE
  <2> DEFINE q == a \div b
  <2>1. b * q >= b
    BY <1>1, <1>2
  <2>2. QED
    BY <1>1, <2>1
<1>3. ASSUME a \div b <= -1 PROVE FALSE
  <2> DEFINE q == a \div b
  <2>1. b * q + b <= 0
    BY <1>1, <1>3
  <2>2. QED
    BY <1>1, <2>1
<1>4. QED
  BY <1>1, <1>2, <1>3

LEMMA IdsAreInts ==
  /\ \A id \in Id : id \in Int
  /\ \A e \in Seq(Element) : \A k \in 1 .. Len(e) : e[k] \in Element /\ e[k].id \in Int
<1>1. \A id \in Id : id \in Int
  BY IdSpaceAssumption DEF Id
<1>2. \A x \in Element : x.id \in Id
  BY DEF Element
<1>3. \A e \in Seq(Element) : \A k \in 1 .. Len(e) : e[k] \in Element
  OBVIOUS
<1>4. QED
  BY <1>1, <1>2, <1>3

LEMMA StopExists ==
  ASSUME NEW e \in Seq(Element), Sorted(e), NEW id \in Id,
         NEW left \in 1 .. Len(e), NEW right \in 1 .. Len(e)
  PROVE  \E k : StopsAt(e, id, left, right, k)
<1> DEFINE S == {k \in Nat : k \in left .. Len(e) /\ ~Between(e, id, k, right)}
<1>1. \A k \in 1 .. Len(e) : e[k].id \in Int
  BY IdsAreInts
<1>2. id \in Int
  BY IdsAreInts
<1>3. S # {}
  <2>1. CASE left <= right
    BY <2>1 DEF Between
  <2>2. CASE left > right
    <3>1. e[right].id < e[left].id
      BY <2>2 DEF Sorted
    <3>2. ~Between(e, id, left, right)
      BY <1>1, <1>2, <3>1 DEF Between
    <3>3. QED
      BY <3>2
  <2>3. QED
    BY <2>1, <2>2
<1>4. PICK k \in S : \A m \in S : k <= m
  BY <1>3, LeastNat
<1>5. \A j \in left .. k - 1 : j \notin S
  BY <1>4
<1>6. StopsAt(e, id, left, right, k)
  BY <1>4, <1>5 DEF StopsAt
<1>7. QED
  BY <1>6

\* f is the loop: what Narrow defines recursively.
Loop(e, id, f) ==
  f = [ends \in (1 .. Len(e)) \X (1 .. Len(e)) |->
        LET left == ends[1]
            right == ends[2]
            pos == left + (right - left) * ((id - e[left].id) \div (e[right].id - e[left].id))
        IN IF e[left].id # e[right].id /\ id > e[left].id /\ id < e[right].id
           THEN CASE e[pos].id < id -> f[<<pos + 1, right>>]
                  [] e[pos].id > id -> f[<<left, pos - 1>>]
                  [] OTHER -> [pos |-> pos, left |-> pos, right |-> pos]
           ELSE [pos |-> NotFound, left |-> left, right |-> right]]

\* The step of the loop: the left end moves on by one.
LoopStep(e, id, f) ==
  /\ f = [ends \in (1 .. Len(e)) \X (1 .. Len(e)) |-> f[ends]]
  /\ \A left, right \in 1 .. Len(e) :
       f[<<left, right>>] =
         IF Between(e, id, left, right) THEN f[<<left + 1, right>>]
         ELSE [pos |-> NotFound, left |-> left, right |-> right]

LEMMA LoopSteps ==
  ASSUME NEW e \in Seq(Element), NEW id \in Id, NEW f
  PROVE  Loop(e, id, f) <=> LoopStep(e, id, f)
<1> DEFINE Body(left, right) ==
        LET pos == left + (right - left) * ((id - e[left].id) \div (e[right].id - e[left].id))
        IN IF e[left].id # e[right].id /\ id > e[left].id /\ id < e[right].id
           THEN CASE e[pos].id < id -> f[<<pos + 1, right>>]
                  [] e[pos].id > id -> f[<<left, pos - 1>>]
                  [] OTHER -> [pos |-> pos, left |-> pos, right |-> pos]
           ELSE [pos |-> NotFound, left |-> left, right |-> right]
<1>1. ASSUME NEW left \in 1 .. Len(e), NEW right \in 1 .. Len(e)
      PROVE  Body(left, right) =
               IF Between(e, id, left, right) THEN f[<<left + 1, right>>]
               ELSE [pos |-> NotFound, left |-> left, right |-> right]
  <2>1. e[left].id \in Int /\ e[right].id \in Int /\ id \in Int
    BY IdsAreInts
  <2>2. CASE Between(e, id, left, right)
    <3> DEFINE a == id - e[left].id
               b == e[right].id - e[left].id
               pos == left + (right - left) * (a \div b)
    <3>1. a \in Int /\ b \in Int /\ 0 < a /\ a < b
      BY <2>1, <2>2 DEF Between
    <3>2. a \div b = 0
      <4> HIDE DEF a, b
      <4>1. QED
        BY <3>1, QuotientZero
    <3>3. pos = left
      BY <3>2
    <3>4. Body(left, right) = CASE e[pos].id < id -> f[<<pos + 1, right>>]
                                [] e[pos].id > id -> f[<<left, pos - 1>>]
                                [] OTHER -> [pos |-> pos, left |-> pos, right |-> pos]
      BY Zenon, <2>2 DEF Between
    <3>5. e[left].id < id
      BY <2>1, <2>2 DEF Between
    <3> HIDE DEF pos, Body
    <3>6. QED
      BY <2>1, <2>2, <3>3, <3>4, <3>5
  <2>3. CASE ~Between(e, id, left, right)
    BY <2>3 DEF Between
  <2>4. QED
    BY <2>2, <2>3
<1>2. Loop(e, id, f) <=> f = [ends \in (1 .. Len(e)) \X (1 .. Len(e)) |-> Body(ends[1], ends[2])]
  BY Zenon DEF Loop
<1> HIDE DEF Body
<1>3. Loop(e, id, f) => LoopStep(e, id, f)
  BY <1>1, <1>2 DEF LoopStep
<1>4. LoopStep(e, id, f) => Loop(e, id, f)
  <2> SUFFICES ASSUME LoopStep(e, id, f) PROVE Loop(e, id, f)
    OBVIOUS
  <2>1. ASSUME NEW ends \in (1 .. Len(e)) \X (1 .. Len(e))
        PROVE  f[ends] = Body(ends[1], ends[2])
    <3>1. PICK left \in 1 .. Len(e), right \in 1 .. Len(e) : ends = <<left, right>>
      OBVIOUS
    <3>2. ends[1] = left /\ ends[2] = right
      BY <3>1
    <3>3. f[<<left, right>>] = Body(left, right)
      <4> DEFINE next == IF Between(e, id, left, right) THEN f[<<left + 1, right>>]
                         ELSE [pos |-> NotFound, left |-> left, right |-> right]
      <4>1. Body(left, right) = next
        BY <1>1
      <4>2. f[<<left, right>>] = next
        BY DEF LoopStep
      <4>3. QED
        BY Zenon, <4>1, <4>2
    <3>4. QED
      BY <3>1, <3>2, <3>3
  <2>2. f = [ends \in (1 .. Len(e)) \X (1 .. Len(e)) |-> f[ends]]
    BY DEF LoopStep
  <2>3. [ends \in (1 .. Len(e)) \X (1 .. Len(e)) |-> f[ends]]
          = [ends \in (1 .. Len(e)) \X (1 .. Len(e)) |-> Body(ends[1], ends[2])]
    BY <2>1
  <2>4. QED
    BY <1>2, <2>2, <2>3
<1>5. QED
  BY <1>3, <1>4

LEMMA LoopExists ==
  ASSUME NEW e \in Seq(Element), Sorted(e), NEW id \in Id
  PROVE  \E f : Loop(e, id, f)
<1> DEFINE Stop(left, right) == CHOOSE k : StopsAt(e, id, left, right, k)
           f == [ends \in (1 .. Len(e)) \X (1 .. Len(e)) |->
                   [pos |-> NotFound, left |-> Stop(ends[1], ends[2]), right |-> ends[2]]]
<1>1. ASSUME NEW left \in 1 .. Len(e), NEW right \in 1 .. Len(e)
      PROVE  StopsAt(e, id, left, right, Stop(left, right))
  BY StopExists
<1>2. ASSUME NEW left \in 1 .. Len(e), NEW right \in 1 .. Len(e), Between(e, id, left, right)
      PROVE  left + 1 \in 1 .. Len(e) /\ Stop(left, right) = Stop(left + 1, right)
  <2>1. \A k : StopsAt(e, id, left, right, k) <=> StopsAt(e, id, left + 1, right, k)
    BY <1>2 DEF StopsAt
  <2>2. left + 1 \in 1 .. Len(e)
    BY <1>1, <1>2 DEF StopsAt
  <2>3. QED
    BY Zenon, <2>1, <2>2
<1>3. ASSUME NEW left \in 1 .. Len(e), NEW right \in 1 .. Len(e), ~Between(e, id, left, right)
      PROVE  Stop(left, right) = left
  <2> DEFINE k == Stop(left, right)
  <2>1. StopsAt(e, id, left, right, k)
    BY <1>1
  <2> HIDE DEF k
  <2>2. k = left
    BY <1>3, <2>1 DEF StopsAt
  <2>3. QED
    BY <2>2 DEF k
<1> HIDE DEF Stop
<1>4. \A left, right \in 1 .. Len(e) :
        f[<<left, right>>] = [pos |-> NotFound, left |-> Stop(left, right), right |-> right]
  OBVIOUS
<1>5. f = [ends \in (1 .. Len(e)) \X (1 .. Len(e)) |-> f[ends]]
  OBVIOUS
<1> HIDE DEF f
<1>6. LoopStep(e, id, f)
  <2>1. ASSUME NEW left \in 1 .. Len(e), NEW right \in 1 .. Len(e)
        PROVE  f[<<left, right>>] =
                 IF Between(e, id, left, right) THEN f[<<left + 1, right>>]
                 ELSE [pos |-> NotFound, left |-> left, right |-> right]
    <3>1. CASE Between(e, id, left, right)
      <4>1. f[<<left + 1, right>>] =
              [pos |-> NotFound, left |-> Stop(left + 1, right), right |-> right]
        BY <1>2, <1>4, <3>1
      <4>2. QED
        BY <1>2, <1>4, <3>1, <4>1
    <3>2. CASE ~Between(e, id, left, right)
      BY <1>3, <1>4, <3>2
    <3>3. QED
      BY <3>1, <3>2
  <2>2. QED
    BY <1>5, <2>1 DEF LoopStep
<1>7. QED
  BY <1>6, LoopSteps

\* Narrow moves the left end to where the loop stops, and the right one never.
LEMMA Narrowed ==
  ASSUME NEW e \in Seq(Element), Sorted(e), e # <<>>, NEW id \in Id
  PROVE  \E k : /\ StopsAt(e, id, 1, Len(e), k)
                /\ Narrow(e, id) = [pos |-> NotFound, left |-> k, right |-> Len(e)]
<1> DEFINE f == CHOOSE g : Loop(e, id, g)
           last == Len(e)
           Result(k) == [pos |-> NotFound, left |-> k, right |-> last]
           Good(left) == \E k : StopsAt(e, id, left, last, k) /\ f[<<left, last>>] = Result(k)
           Bad == {n \in Nat : n < last /\ ~Good(last - n)}
<1>1. Narrow(e, id) = f[<<1, last>>]
  BY Zenon DEF Narrow, Loop
<1>2. LoopStep(e, id, f)
  BY LoopExists, LoopSteps
<1>3. last \in Nat /\ last >= 1
  OBVIOUS
<1> HIDE DEF f, last, Result
<1>4. Bad = {}
  <2> SUFFICES ASSUME Bad # {} PROVE FALSE
    OBVIOUS
  <2>1. PICK n \in Bad : \A m \in Bad : n <= m
    BY LeastNat
  <2> DEFINE left == last - n
  <2>2. left \in 1 .. last /\ ~Good(left) /\ last \in 1 .. last
    BY <1>3, <2>1
  <2>3. CASE Between(e, id, left, last)
    <3>1. left # last
      BY <2>3 DEF Between
    <3>2. n - 1 \in Nat /\ n - 1 < last /\ n - 1 \notin Bad /\ last - (n - 1) = left + 1
      BY <1>3, <2>1, <2>2, <3>1
    <3>3. Good(left + 1)
      BY <3>2
    <3>4. PICK k : StopsAt(e, id, left + 1, last, k) /\ f[<<left + 1, last>>] = Result(k)
      BY <3>3
    <3>5. StopsAt(e, id, left, last, k)
      <4>1. /\ k \in left + 1 .. last /\ ~Between(e, id, k, last)
            /\ \A j \in left + 1 .. k - 1 : Between(e, id, j, last)
        BY <3>4 DEF StopsAt, last
      <4>2. k \in left .. last /\ \A j \in left .. k - 1 : j = left \/ j \in left + 1 .. k - 1
        BY <2>2, <4>1
      <4>3. QED
        BY <2>3, <4>1, <4>2 DEF StopsAt, last
    <3>6. f[<<left, last>>] = f[<<left + 1, last>>]
      BY <1>2, <2>2, <2>3 DEF LoopStep, last
    <3>7. QED
      BY <2>2, <3>4, <3>5, <3>6
  <2>4. CASE ~Between(e, id, left, last)
    <3>1. StopsAt(e, id, left, last, left)
      BY <2>2, <2>4 DEF StopsAt, last
    <3>2. f[<<left, last>>] = Result(left)
      BY <1>2, <2>2, <2>4 DEF LoopStep, last, Result
    <3>3. QED
      BY <2>2, <3>1, <3>2
  <2>5. QED
    BY <2>3, <2>4
<1>5. Good(1)
  <2>1. last - 1 \in Nat /\ last - 1 < last /\ last - (last - 1) = 1
    BY <1>3
  <2>2. last - 1 \notin Bad
    BY <1>4
  <2>3. QED
    BY <2>1, <2>2
<1>6. QED
  BY <1>1, <1>5 DEF Result, last

\* Search finds the id where it is, or shows between which two it belongs.
LEMMA SearchFinds ==
  ASSUME NEW e \in Seq(Element), Sorted(e), e # <<>>, NEW id \in Id
  PROVE  LET found == Search(e, id)
         IN  \/ found.pos \in 1 .. Len(e) /\ e[found.pos].id = id
             \/ /\ found.pos = NotFound
                /\ found.left \in 1 .. Len(e) /\ found.right = Len(e)
                /\ \A j \in 1 .. found.left - 1 : e[j].id < id
                /\ id < e[found.left].id \/ id > e[Len(e)].id
                /\ \A j \in 1 .. Len(e) : e[j].id # id
<1> DEFINE last == Len(e)
<1>1. PICK k : /\ StopsAt(e, id, 1, last, k)
               /\ Narrow(e, id) = [pos |-> NotFound, left |-> k, right |-> last]
  BY Narrowed
<1>2. /\ id \in Int /\ last \in 1 .. Len(e) /\ \A j \in 1 .. Len(e) : e[j].id \in Int
      /\ \A i, j \in 1 .. Len(e) : i < j => e[i].id < e[j].id
  BY IdsAreInts DEF Sorted
<1>3. k \in 1 .. last /\ ~Between(e, id, k, last) /\ \A j \in 1 .. k - 1 : e[j].id < id
  BY <1>1, <1>2 DEF StopsAt, Between
<1>4. Search(e, id) = [pos |-> CASE e[k].id = id -> k
                                 [] e[last].id = id -> last
                                 [] OTHER -> NotFound,
                       left |-> k, right |-> last]
  BY <1>1 DEF Search, AtAnEnd, NotFound
<1> HIDE DEF last
<1>5. CASE e[k].id = id
  <2>1. Search(e, id).pos = k
    <3>1. e[last].id = id => last = k
      <4>1. last \in 1 .. Len(e) /\ k \in 1 .. Len(e) /\ (last = k \/ k < last)
        BY <1>2, <1>3
      <4>2. k < last => e[k].id < e[last].id
        BY <1>2, <4>1
      <4>3. QED
        BY <1>2, <1>5, <4>1, <4>2
    <3>2. QED
      BY <1>4, <1>5, <3>1
  <2>2. QED
    BY <1>3, <1>5, <2>1 DEF last
<1>6. CASE e[k].id # id /\ e[last].id = id
  <2>1. Search(e, id).pos = last
    BY <1>4, <1>6
  <2>2. QED
    BY <1>2, <1>6, <2>1
<1>7. CASE e[k].id # id /\ e[last].id # id
  <2>1. Search(e, id) = [pos |-> NotFound, left |-> k, right |-> last]
    BY <1>4, <1>7
  <2>2. id < e[k].id \/ id > e[last].id
    BY <1>2, <1>3, <1>7 DEF Between
  <2>3. ASSUME NEW j \in 1 .. Len(e), e[j].id = id PROVE FALSE
    <3>1. j >= k /\ j # k
      BY <1>3, <1>7, <2>3, <1>2
    <3>2. e[k].id < e[j].id /\ (j = last \/ e[j].id < e[last].id)
      <4>1. k \in 1 .. Len(e) /\ j \in 1 .. Len(e) /\ k < j /\ last \in 1 .. Len(e)
            /\ (j = last \/ j < last)
        BY <1>2, <1>3, <3>1 DEF last
      <4>2. QED
        BY <1>2, <4>1
    <3>3. QED
      BY <1>2, <1>3, <1>7, <2>2, <2>3, <3>2
  <2>4. QED
    BY <1>2, <1>3, <2>1, <2>2, <2>3 DEF last
<1>8. QED
  BY <1>5, <1>6, <1>7
-----------------------------------------------------------------------------
(* Insertion and removal in a vector. *)

Members(e) == {e[i] : i \in DOMAIN e}

LEMMA InsertIs ==
  ASSUME NEW e \in Seq(Element), NEW pos \in 1 .. Len(e) + 1, NEW x \in Element
  PROVE  LET t == Vector!InsertAt(e, pos, x)
         IN  /\ t \in Seq(Element) /\ Len(t) = Len(e) + 1
             /\ \A i \in 1 .. pos - 1 : t[i] = e[i]
             /\ t[pos] = x
             /\ \A i \in pos + 1 .. Len(e) + 1 : t[i] = e[i - 1]
<1> DEFINE front == SubSeq(e, 1, pos - 1)
           back == SubSeq(e, pos, Len(e))
<1>1. /\ front \in Seq(Element) /\ Len(front) = pos - 1
      /\ \A i \in 1 .. pos - 1 : front[i] = e[i]
  OBVIOUS
<1>2. /\ back \in Seq(Element) /\ Len(back) = Len(e) - pos + 1
      /\ \A i \in 1 .. Len(e) - pos + 1 : back[i] = e[pos + i - 1]
  OBVIOUS
<1>3. Vector!InsertAt(e, pos, x) = front \o <<x>> \o back
  BY DEF Vector!InsertAt
<1> HIDE DEF front, back
<1>4. /\ front \o <<x>> \in Seq(Element) /\ Len(front \o <<x>>) = pos
      /\ \A i \in 1 .. pos - 1 : (front \o <<x>>)[i] = e[i]
      /\ (front \o <<x>>)[pos] = x
  BY <1>1
<1> DEFINE start == front \o <<x>>
<1> HIDE DEF start
<1>5. start \in Seq(Element) /\ Len(start) = pos /\ start[pos] = x
      /\ \A i \in 1 .. pos - 1 : start[i] = e[i]
  BY <1>4 DEF start
<1>6. start \o back \in Seq(Element) /\ Len(start \o back) = Len(e) + 1
      /\ (\A i \in 1 .. pos : (start \o back)[i] = start[i])
      /\ (\A i \in pos + 1 .. Len(e) + 1 : (start \o back)[i] = back[i - pos])
  BY <1>2, <1>5
<1>7. \A i \in pos + 1 .. Len(e) + 1 : back[i - pos] = e[i - 1]
  <2> SUFFICES ASSUME NEW i \in pos + 1 .. Len(e) + 1 PROVE back[i - pos] = e[i - 1]
    OBVIOUS
  <2>1. i - pos \in 1 .. Len(e) - pos + 1 /\ pos + (i - pos) - 1 = i - 1
    OBVIOUS
  <2>2. QED
    BY <1>2, <2>1
<1>8. Vector!InsertAt(e, pos, x) = start \o back
  BY <1>3 DEF start
<1>9. QED
  BY <1>5, <1>6, <1>7, <1>8

LEMMA RemoveIs ==
  ASSUME NEW e \in Seq(Element), NEW pos \in 1 .. Len(e)
  PROVE  LET t == Vector!RemoveAt(e, pos)
         IN  /\ t \in Seq(Element) /\ Len(t) = Len(e) - 1
             /\ \A i \in 1 .. pos - 1 : t[i] = e[i]
             /\ \A i \in pos .. Len(e) - 1 : t[i] = e[i + 1]
<1> DEFINE front == SubSeq(e, 1, pos - 1)
           back == SubSeq(e, pos + 1, Len(e))
<1>1. /\ front \in Seq(Element) /\ Len(front) = pos - 1
      /\ \A i \in 1 .. pos - 1 : front[i] = e[i]
  OBVIOUS
<1>2. /\ back \in Seq(Element) /\ Len(back) = Len(e) - pos
      /\ \A i \in 1 .. Len(e) - pos : back[i] = e[pos + i]
  OBVIOUS
<1>3. Vector!RemoveAt(e, pos) = front \o back
  BY DEF Vector!RemoveAt
<1> HIDE DEF front, back
<1>4. front \o back \in Seq(Element) /\ Len(front \o back) = Len(e) - 1
      /\ (\A i \in 1 .. pos - 1 : (front \o back)[i] = front[i])
      /\ (\A i \in pos .. Len(e) - 1 : (front \o back)[i] = back[i - Len(front)])
  <2>1. /\ front \o back \in Seq(Element) /\ Len(front \o back) = Len(front) + Len(back)
        /\ \A i \in 1 .. Len(front) : (front \o back)[i] = front[i]
        /\ \A i \in Len(front) + 1 .. Len(front) + Len(back) :
             (front \o back)[i] = back[i - Len(front)]
    <3>1. front \in Seq(Element) /\ back \in Seq(Element)
      BY <1>1, <1>2
    <3>2. QED
      BY <3>1
  <2>2. Len(front) = pos - 1 /\ Len(back) = Len(e) - pos
    BY <1>1, <1>2
  <2>3. Len(front) + 1 = pos /\ Len(front) + Len(back) = Len(e) - 1
    BY <2>2
  <2>4. QED
    BY <2>1, <2>2, <2>3
<1>5. \A i \in pos .. Len(e) - 1 : back[i - Len(front)] = e[i + 1]
  <2> SUFFICES ASSUME NEW i \in pos .. Len(e) - 1 PROVE back[i - Len(front)] = e[i + 1]
    OBVIOUS
  <2>1. i - Len(front) \in 1 .. Len(e) - pos /\ pos + (i - Len(front)) = i + 1
    BY <1>1
  <2>2. QED
    BY <1>2, <2>1
<1>6. QED
  BY <1>1, <1>3, <1>4, <1>5

\* x put before the first greater element keeps the vector sorted.
LEMMA InsertKeeps ==
  ASSUME NEW e \in Seq(Element), Sorted(e), NEW pos \in 1 .. Len(e) + 1, NEW x \in Element,
         \A j \in 1 .. pos - 1 : e[j].id < x.id,
         \A j \in pos .. Len(e) : x.id < e[j].id
  PROVE  LET t == Vector!InsertAt(e, pos, x)
         IN t \in Seq(Element) /\ Sorted(t) /\ Members(t) = Members(e) \cup {x}
<1> DEFINE t == Vector!InsertAt(e, pos, x)
<1>1. /\ t \in Seq(Element) /\ Len(t) = Len(e) + 1
      /\ \A i \in 1 .. pos - 1 : t[i] = e[i]
      /\ t[pos] = x
      /\ \A i \in pos + 1 .. Len(e) + 1 : t[i] = e[i - 1]
  BY InsertIs
<1>2. /\ DOMAIN t = 1 .. Len(e) + 1 /\ DOMAIN e = 1 .. Len(e)
      /\ Len(e) \in Nat
  BY <1>1
<1> HIDE DEF t
<1>3. Sorted(t)
  <2> SUFFICES ASSUME NEW i \in 1 .. Len(e) + 1, NEW j \in 1 .. Len(e) + 1, i < j
               PROVE  t[i].id < t[j].id
    BY <1>2 DEF Sorted
  <2>1. CASE j < pos
    BY <1>1, <1>2, <2>1 DEF Sorted
  <2>2. CASE j = pos
    BY <1>1, <2>2
  <2>3. CASE j > pos /\ i = pos
    <3>1. j - 1 \in pos .. Len(e) /\ j \in pos + 1 .. Len(e) + 1
      BY <1>2, <2>3
    <3>2. t[i] = x /\ t[j] = e[j - 1]
      BY <1>1, <2>3, <3>1
    <3>3. QED
      BY <3>1, <3>2
  <2>4. CASE i > pos
    <3>1. i - 1 \in DOMAIN e /\ j - 1 \in DOMAIN e /\ i - 1 < j - 1
      BY <1>2, <2>4
    <3>2. t[i] = e[i - 1] /\ t[j] = e[j - 1]
      BY <1>1, <2>4
    <3>3. QED
      BY <3>1, <3>2 DEF Sorted
  <2>5. CASE i < pos /\ j > pos
    <3>1. i \in DOMAIN e /\ j - 1 \in DOMAIN e /\ i < j - 1
      BY <1>2, <2>5
    <3>2. t[i] = e[i] /\ t[j] = e[j - 1]
      BY <1>1, <2>5
    <3>3. QED
      BY <3>1, <3>2 DEF Sorted
  <2>6. QED
    BY <2>1, <2>2, <2>3, <2>4, <2>5
<1>4. Members(t) \subseteq Members(e) \cup {x}
  <2> SUFFICES ASSUME NEW i \in 1 .. Len(e) + 1 PROVE t[i] \in Members(e) \cup {x}
    BY <1>2 DEF Members
  <2>1. CASE i > pos
    <3>1. t[i] = e[i - 1] /\ i - 1 \in DOMAIN e
      BY <1>1, <1>2, <2>1
    <3>2. QED
      BY <3>1 DEF Members
  <2>2. CASE i < pos
    <3>1. t[i] = e[i] /\ i \in DOMAIN e
      BY <1>1, <1>2, <2>2
    <3>2. QED
      BY <3>1 DEF Members
  <2>3. QED
    BY <1>1, <2>1, <2>2
<1>5. Members(e) \cup {x} \subseteq Members(t)
  <2>1. x \in Members(t)
    BY <1>1, <1>2 DEF Members
  <2>2. ASSUME NEW i \in DOMAIN e PROVE e[i] \in Members(t)
    <3>1. CASE i < pos
      <4>1. e[i] = t[i] /\ i \in DOMAIN t
        BY <1>1, <1>2, <3>1
      <4>2. QED
        BY <4>1 DEF Members
    <3>2. CASE i >= pos
      <4>1. i + 1 \in pos + 1 .. Len(e) + 1 /\ i + 1 \in DOMAIN t /\ (i + 1) - 1 = i
        BY <1>2, <3>2
      <4>2. e[i] = t[i + 1]
        BY <1>1, <4>1
      <4>3. QED
        BY <4>1, <4>2 DEF Members
    <3>3. QED
      BY <1>2, <3>1, <3>2
  <2>3. QED
    BY <2>1, <2>2 DEF Members
<1>6. QED
  BY <1>1, <1>3, <1>4, <1>5 DEF t

\* Taking one element out keeps the vector sorted, and loses that one only.
LEMMA RemoveKeeps ==
  ASSUME NEW e \in Seq(Element), Sorted(e), NEW pos \in 1 .. Len(e)
  PROVE  LET t == Vector!RemoveAt(e, pos)
         IN t \in Seq(Element) /\ Sorted(t) /\ Members(t) = Members(e) \ {e[pos]}
<1> DEFINE t == Vector!RemoveAt(e, pos)
<1>1. /\ t \in Seq(Element) /\ Len(t) = Len(e) - 1
      /\ \A i \in 1 .. pos - 1 : t[i] = e[i]
      /\ \A i \in pos .. Len(e) - 1 : t[i] = e[i + 1]
  BY RemoveIs
<1>2. DOMAIN t = 1 .. Len(e) - 1 /\ DOMAIN e = 1 .. Len(e) /\ Len(e) \in Nat
  BY <1>1
<1>3. /\ \A i \in DOMAIN e : e[i].id \in Int
      /\ \A i, j \in DOMAIN e : i < j => e[i].id < e[j].id
  BY <1>2, IdsAreInts DEF Sorted
<1> HIDE DEF t
<1> DEFINE From(i) == IF i < pos THEN i ELSE i + 1
<1>4. \A i \in DOMAIN t : From(i) \in DOMAIN e /\ t[i] = e[From(i)] /\ From(i) # pos
  BY <1>1, <1>2
<1>5. Sorted(t)
  <2> SUFFICES ASSUME NEW i \in DOMAIN t, NEW j \in DOMAIN t, i < j
               PROVE  t[i].id < t[j].id
    BY DEF Sorted
  <2>1. From(i) < From(j)
    BY <1>2
  <2> HIDE DEF From
  <2>2. QED
    BY <1>3, <1>4, <2>1
<1>6. \A i \in DOMAIN e : i # pos => e[i] # e[pos]
  <2> SUFFICES ASSUME NEW i \in DOMAIN e, i # pos PROVE e[i].id # e[pos].id
    OBVIOUS
  <2>1. pos \in DOMAIN e /\ (i < pos \/ pos < i)
    BY <1>2
  <2>2. QED
    BY <1>3, <2>1
<1>7. Members(t) \subseteq Members(e) \ {e[pos]}
  <2> HIDE DEF From
  <2>1. QED
    BY <1>4, <1>6 DEF Members
<1>8. Members(e) \ {e[pos]} \subseteq Members(t)
  <2> SUFFICES ASSUME NEW i \in DOMAIN e, i # pos PROVE e[i] \in Members(t)
    BY DEF Members
  <2>1. CASE i < pos
    <3>1. i \in DOMAIN t /\ t[i] = e[i]
      BY <1>1, <1>2, <2>1
    <3>2. QED
      BY <3>1 DEF Members
  <2>2. CASE i > pos
    <3>1. i - 1 \in DOMAIN t /\ t[i - 1] = e[i]
      BY <1>1, <1>2, <2>2
    <3>2. QED
      BY <3>1 DEF Members
  <2>3. QED
    BY <1>2, <2>1, <2>2
<1>9. QED
  BY <1>1, <1>5, <1>7, <1>8 DEF t
-----------------------------------------------------------------------------
(* The operations of the table.  Both of its vectors are e. *)

TableOf(e) == [elements |-> e, ptrs |-> e]

Ids(e) == {x.id : x \in Members(e)}

LEMMA MembersAre ==
  ASSUME NEW e \in Seq(Element)
  PROVE  /\ Members(e) \subseteq Element
         /\ \A id : id \in Ids(e) <=> \E i \in 1 .. Len(e) : e[i].id = id
         /\ e = <<>> => Members(e) = {}
BY DEF Members, Ids

LEMMA AddRefused ==
  ASSUME NEW e \in Seq(Element), Sorted(e), NEW x \in Element, x.id \in Ids(e)
  PROVE  Add(TableOf(e), x) = TableOf(e)
<1>1. e # <<>> /\ x.id \in Id /\ TableOf(e).elements = e
  BY MembersAre DEF Element, TableOf, Ids
<1> DEFINE found == Search(e, x.id)
<1>2. found.pos # NotFound
  BY <1>1, SearchFinds, MembersAre DEF NotFound
<1>3. QED
  BY <1>1, <1>2 DEF Add

LEMMA InsertTable ==
  ASSUME NEW e, NEW pos, NEW x
  PROVE  Insert(TableOf(e), pos, x) = TableOf(Vector!InsertAt(e, pos, x))
BY DEF Insert, TableOf

LEMMA AddKeeps ==
  ASSUME NEW e \in Seq(Element), Sorted(e), NEW x \in Element, x.id \notin Ids(e)
  PROVE  \E t \in Seq(Element) : /\ Add(TableOf(e), x) = TableOf(t)
                                 /\ Sorted(t) /\ Members(t) = Members(e) \cup {x}
<1>1. x.id \in Id /\ TableOf(e).elements = e /\ Len(e) \in Nat
  BY DEF Element, TableOf
<1>2. /\ x.id \in Int /\ \A j \in 1 .. Len(e) : e[j].id \in Int
      /\ \A i, j \in 1 .. Len(e) : i < j => e[i].id < e[j].id
  BY <1>1, IdsAreInts DEF Sorted
<1>3. CASE e = <<>>
  <2> DEFINE pos == 1
  <2>1. Add(TableOf(e), x) = TableOf(Vector!InsertAt(e, pos, x))
    BY <1>1, <1>3, InsertTable DEF Add
  <2>2. /\ pos \in 1 .. Len(e) + 1
        /\ \A j \in 1 .. pos - 1 : e[j].id < x.id
        /\ \A j \in pos .. Len(e) : x.id < e[j].id
    BY <1>3
  <2> HIDE DEF pos
  <2>3. QED
    BY <2>1, <2>2, InsertKeeps
<1>4. CASE e # <<>>
  <2> DEFINE found == Search(e, x.id)
  <2>1. /\ found.pos = NotFound
        /\ found.left \in 1 .. Len(e) /\ found.right = Len(e)
        /\ \A j \in 1 .. found.left - 1 : e[j].id < x.id
        /\ x.id < e[found.left].id \/ x.id > e[Len(e)].id
    BY <1>1, <1>4, SearchFinds, MembersAre
  <2>2. Add(TableOf(e), x) =
          CASE x.id < e[found.left].id -> Insert(TableOf(e), found.left, x)
            [] x.id > e[found.right].id -> Insert(TableOf(e), found.right + 1, x)
            [] OTHER -> TableOf(e)
    BY <1>1, <1>4, <2>1 DEF Add
  <2> HIDE DEF found
  <2>3. e[found.left].id <= e[Len(e)].id
    <3>1. found.left = Len(e) \/ found.left < Len(e)
      BY <2>1
    <3>2. Len(e) \in 1 .. Len(e)
      BY <2>1
    <3>3. QED
      BY <1>2, <2>1, <3>1, <3>2
  <2>4. CASE x.id < e[found.left].id
    <3>1. ~(x.id > e[found.right].id)
      BY <1>1, <1>2, <2>1, <2>3, <2>4
    <3>2. Add(TableOf(e), x) = TableOf(Vector!InsertAt(e, found.left, x))
      BY <2>1, <2>2, <2>4, <3>1, InsertTable
    <3>3. \A j \in found.left .. Len(e) : x.id < e[j].id
      <4> SUFFICES ASSUME NEW j \in found.left .. Len(e) PROVE x.id < e[j].id
        OBVIOUS
      <4>1. j \in 1 .. Len(e) /\ (j = found.left \/ found.left < j)
        BY <2>1
      <4>2. QED
        BY <1>2, <2>1, <2>4, <4>1
    <3>4. found.left \in 1 .. Len(e) + 1
      BY <2>1
    <3>5. QED
      BY <2>1, <3>2, <3>3, <3>4, InsertKeeps
  <2>5. CASE ~(x.id < e[found.left].id)
    <3>1. x.id > e[Len(e)].id
      BY <2>1, <2>5
    <3>2. Add(TableOf(e), x) = TableOf(Vector!InsertAt(e, Len(e) + 1, x))
      BY <2>1, <2>2, <2>5, <3>1, InsertTable
    <3>3. \A j \in 1 .. Len(e) : e[j].id < x.id
      <4> SUFFICES ASSUME NEW j \in 1 .. Len(e) PROVE e[j].id < x.id
        OBVIOUS
      <4>1. (j = Len(e) \/ j < Len(e)) /\ Len(e) \in 1 .. Len(e)
        BY <1>1
      <4>2. QED
        BY <1>2, <3>1, <4>1
    <3>4. Len(e) + 1 \in 1 .. Len(e) + 1
      BY <1>1
    <3>5. /\ \A j \in 1 .. (Len(e) + 1) - 1 : e[j].id < x.id
          /\ \A j \in Len(e) + 1 .. Len(e) : x.id < e[j].id
      BY <1>1, <3>3
    <3>6. QED
      BY <3>2, <3>4, <3>5, InsertKeeps
  <2>6. QED
    BY <2>4, <2>5
<1>5. QED
  BY <1>3, <1>4

\* Position answers for every id.
LEMMA PositionIs ==
  ASSUME NEW e \in Seq(Element), Sorted(e), NEW id \in Id
  PROVE  LET pos == Position(TableOf(e), id)
         IN  /\ id \in Ids(e) => pos \in 1 .. Len(e) /\ e[pos].id = id
             /\ id \notin Ids(e) => pos = NotFound
<1>1. TableOf(e).elements = e
  BY DEF TableOf
<1>2. CASE e = <<>>
  BY <1>1, <1>2, MembersAre DEF Position, Ids
<1>3. CASE e # <<>>
  BY <1>1, <1>3, SearchFinds, MembersAre DEF Position
<1>4. QED
  BY <1>2, <1>3

LEMMA RemoveKept ==
  ASSUME NEW e \in Seq(Element), Sorted(e), NEW id \in Ids(e)
  PROVE  \E t \in Seq(Element) :
           /\ Remove(TableOf(e), id) = TableOf(t)
           /\ Sorted(t) /\ Members(t) = {x \in Members(e) : x.id # id}
<1> DEFINE pos == Position(TableOf(e), id)
           t == Vector!RemoveAt(e, pos)
<1>1. id \in Id
  <2>1. PICK x \in Members(e) : x.id = id
    BY DEF Ids
  <2>2. x \in Element
    BY MembersAre
  <2>3. QED
    BY <2>1, <2>2 DEF Element
<1>2. pos \in 1 .. Len(e) /\ e[pos].id = id /\ pos # NotFound
  BY <1>1, PositionIs DEF NotFound
<1>3. Remove(TableOf(e), id) = TableOf(t)
  BY <1>2 DEF Remove, TableOf
<1> HIDE DEF pos
<1>4. t \in Seq(Element) /\ Sorted(t) /\ Members(t) = Members(e) \ {e[pos]}
  BY <1>2, RemoveKeeps
<1>5. ASSUME NEW x \in Members(e) PROVE x = e[pos] <=> x.id = id
  <2>1. PICK i \in DOMAIN e : x = e[i]
    BY DEF Members
  <2>2. i \in 1 .. Len(e) /\ i \in Int /\ pos \in Int /\ pos \in DOMAIN e
    BY <1>2
  <2>3. \A j \in 1 .. Len(e) : e[j].id \in Int
    BY IdsAreInts
  <2>4. CASE i = pos
    BY <1>2, <2>1, <2>4
  <2>5. CASE i < pos
    BY <1>2, <2>1, <2>2, <2>3, <2>5 DEF Sorted
  <2>6. CASE i > pos
    BY <1>2, <2>1, <2>2, <2>3, <2>6 DEF Sorted
  <2>7. QED
    BY <2>2, <2>4, <2>5, <2>6
<1>6. QED
  BY <1>3, <1>4, <1>5
-----------------------------------------------------------------------------
(* The table and its generator.  Sorted alone is not enough: that an added  *)
(* element takes no other's id comes from the generator.                    *)

\* Both vectors hold, in the order of their ids, an element of its holder's for
\* each id in use and no other.
Table ==
  \E e \in Seq(Element) :
    /\ set = TableOf(e) /\ Sorted(e)
    /\ \A x \in Members(e) : x.id \in held[x.by]
    /\ Live \subseteq Ids(e)

TableInv == IInv /\ Table

LEMMA EmptyTable ==
  ASSUME gen = NewGenerator(First), held = [h \in Holder |-> {}], set = EmptySet
  PROVE  TableInv
<1>1. IInv
  BY InitIInv DEF Init
<1>2. <<>> \in Seq(Element) /\ Sorted(<<>>) /\ Members(<<>>) = {} /\ Live = {}
  BY DEF Sorted, Members, Live
<1>3. set = TableOf(<<>>)
  BY DEF EmptySet, TableOf
<1>4. QED
  BY <1>1, <1>2, <1>3 DEF TableInv, Table

LEMMA AddNewTable ==
  ASSUME TableInv, NEW h \in Holder, AddNew(h)
  PROVE  TableInv'
<1> DEFINE id == IdFrom(gen)
           x == [id |-> id, by |-> h]
<1>1. PICK e \in Seq(Element) : /\ set = TableOf(e) /\ Sorted(e)
                                /\ \A y \in Members(e) : y.id \in held[y.by]
                                /\ Live \subseteq Ids(e)
  BY DEF TableInv, Table
<1>2. gen \in Generator /\ First \in Id /\ Accounted(gen, Live, First) /\ Spare(Live, First)
  BY FirstAssumption DEF TableInv, IInv, TypeOK, IdsAccounted, AddNew, Generate
<1>3. id \in Id /\ id \notin Live
  BY <1>2, GenerateTypes, GenerateFresh
<1>4. /\ held' = [held EXCEPT ![h] = @ \cup {id}] /\ held \in [Holder -> SUBSET Id]
      /\ set' = Add(set, x)
  BY DEF AddNew, Generate, TableInv, IInv, TypeOK
<1> HIDE DEF id
<1>5. x \in Element /\ x.id = id /\ x.by = h
  BY <1>3 DEF Element
<1>6. \A y \in Members(e) : y.by \in Holder /\ y.id \in Id /\ y.id \in held[y.by]
  BY <1>1, MembersAre DEF Element
<1>7. id \notin Ids(e)
  BY <1>3, <1>6 DEF Ids, Live
<1> HIDE DEF x
<1>8. PICK t \in Seq(Element) : /\ Add(TableOf(e), x) = TableOf(t)
                                /\ Sorted(t) /\ Members(t) = Members(e) \cup {x}
  BY <1>1, <1>5, <1>7, AddKeeps
<1>9. \A y \in Members(t) : y.id \in held'[y.by]
  BY <1>4, <1>5, <1>6, <1>8
<1>10. Live' = Live \cup {id} /\ Ids(t) = Ids(e) \cup {id}
  BY <1>4, <1>5, <1>8 DEF Live, Ids
<1>11. IInv'
  BY GenerateIInv DEF TableInv, AddNew
<1>12. QED
  BY <1>1, <1>4, <1>8, <1>9, <1>10, <1>11 DEF TableInv, Table

LEMMA AddTakenTable ==
  ASSUME TableInv, NEW h \in Holder, NEW id \in Id, AddTaken(h, id)
  PROVE  TableInv'
<1>1. PICK e \in Seq(Element) : set = TableOf(e) /\ Sorted(e) /\ Live \subseteq Ids(e)
  BY DEF TableInv, Table
<1>2. [id |-> id, by |-> h] \in Element /\ [id |-> id, by |-> h].id \in Ids(e)
  BY <1>1 DEF Element, AddTaken
<1>3. set' = set /\ gen' = gen /\ held' = held
  BY <1>1, <1>2, AddRefused DEF AddTaken
<1>4. QED
  BY <1>3 DEF TableInv, Table, IInv, TypeOK, IdsAccounted, Unique, Live

LEMMA RemoveElementTable ==
  ASSUME TableInv, NEW h \in Holder, NEW id \in Id, RemoveElement(h, id)
  PROVE  TableInv'
<1>1. PICK e \in Seq(Element) : /\ set = TableOf(e) /\ Sorted(e)
                                /\ \A y \in Members(e) : y.id \in held[y.by]
                                /\ Live \subseteq Ids(e)
  BY DEF TableInv, Table
<1>2. /\ id \in held[h] /\ held' = [held EXCEPT ![h] = @ \ {id}]
      /\ held \in [Holder -> SUBSET Id] /\ set' = Remove(set, id)
  BY DEF RemoveElement, Free, TableInv, IInv, TypeOK
<1>3. id \in Ids(e)
  BY <1>1, <1>2 DEF Live
<1>4. PICK t \in Seq(Element) : /\ Remove(TableOf(e), id) = TableOf(t)
                                /\ Sorted(t) /\ Members(t) = {y \in Members(e) : y.id # id}
  BY <1>1, <1>3, RemoveKept
<1>5. \A y \in Members(e) : y.by \in Holder
  BY MembersAre DEF Element
<1>6. \A y \in Members(t) : y.id \in held'[y.by]
  BY <1>1, <1>2, <1>4, <1>5
<1>7. \A k \in Holder : k # h => id \notin held[k]
  BY <1>2 DEF TableInv, IInv, Unique
<1>8. Live' = Live \ {id} /\ Ids(t) = Ids(e) \ {id}
  BY <1>2, <1>4, <1>7 DEF Live, Ids
<1>9. IInv'
  BY FreeIInv DEF TableInv, RemoveElement
<1>10. QED
  BY <1>1, <1>2, <1>4, <1>6, <1>8, <1>9 DEF TableInv, Table

LEMMA TableInductive == SpecTable => []TableInv
<1>1. InitTable => TableInv
  BY EmptyTable DEF InitTable, Init
<1>2. TableInv /\ [NextTable]_tableVars => TableInv'
  <2> SUFFICES ASSUME TableInv, [NextTable]_tableVars PROVE TableInv'
    OBVIOUS
  <2>1. ASSUME NEW h \in Holder, AddNew(h) PROVE TableInv'
    BY <2>1, AddNewTable
  <2>2. ASSUME NEW h \in Holder, NEW id \in Id, AddTaken(h, id) PROVE TableInv'
    BY <2>2, AddTakenTable
  <2>3. ASSUME NEW h \in Holder, NEW id \in Id, RemoveElement(h, id) PROVE TableInv'
    BY <2>3, RemoveElementTable
  <2>4. CASE Clear
    <3>1. (gen = NewGenerator(First) /\ held = [h \in Holder |-> {}] /\ set = EmptySet)'
      BY <2>4 DEF Clear
    <3>2. QED
      BY <3>1, EmptyTable, PTL
  <2>5. CASE UNCHANGED tableVars
    BY <2>5 DEF tableVars, TableInv, Table, IInv, TypeOK, IdsAccounted, Unique, Live
  <2>6. QED
    BY <2>1, <2>2, <2>3, <2>4, <2>5 DEF NextTable
<1>3. QED
  BY <1>1, <1>2, PTL DEF SpecTable

\* The two sorted vectors, searched by interpolation, are the map from the ids in
\* use to their elements (UIDSet::Search, Add, Get and Remove), whatever was
\* added, refused and removed before.
THEOREM TableIsMap == SpecTable => []SetIsMap
<1>1. ASSUME TableInv PROVE SetIsMap
  <2>1. PICK e \in Seq(Element) : /\ set = TableOf(e) /\ Sorted(e)
                                  /\ \A y \in Members(e) : y.id \in held[y.by]
                                  /\ Live \subseteq Ids(e)
    BY <1>1 DEF TableInv, Table
  <2>2. \A y \in Members(e) : y \in Element /\ y.by \in Holder /\ y.id \in held[y.by]
    BY <2>1, MembersAre DEF Element
  <2>3. Live = Ids(e)
    BY <2>1, <2>2 DEF Live, Ids
  <2> SUFFICES ASSUME NEW id \in Id
               PROVE  /\ Find(set, id) <=> id \in Live
                      /\ Get(set, id) = IF id \in Live
                           THEN [id |-> id, by |-> CHOOSE h \in Holder : id \in held[h]]
                           ELSE m_Null
    BY DEF SetIsMap
  <2> DEFINE pos == Position(set, id)
  <2>4. /\ id \in Live => pos \in 1 .. Len(e) /\ e[pos].id = id
        /\ id \notin Live => pos = NotFound
    BY <2>1, <2>3, PositionIs
  <2>5. CASE id \notin Live
    BY <2>4, <2>5 DEF Find, Get
  <2>6. CASE id \in Live
    <3> HIDE DEF pos
    <3>1. pos # NotFound /\ pos \in DOMAIN e /\ e[pos].id = id
      BY <2>4, <2>6 DEF NotFound
    <3>2. e[pos] \in Members(e)
      BY <3>1 DEF Members
    <3>3. e[pos] \in Element /\ e[pos].by \in Holder /\ id \in held[e[pos].by]
      BY <2>2, <3>1, <3>2
    <3>4. \A h \in Holder : id \in held[h] => h = e[pos].by
      BY <1>1, <3>3 DEF TableInv, IInv, Unique
    <3>5. (CHOOSE h \in Holder : id \in held[h]) = e[pos].by
      BY <3>3, <3>4
    <3>6. e[pos] = [id |-> id, by |-> e[pos].by]
      BY <3>1, <3>3 DEF Element
    <3>7. Get(set, id) = e[pos] /\ Find(set, id)
      BY <2>1, <3>1 DEF Get, Find, TableOf, pos
    <3>8. QED
      BY <2>6, <3>5, <3>6, <3>7
  <2>7. QED
    BY <2>5, <2>6
<1>2. QED
  BY TableInductive, <1>1, PTL

\* Beside the table, and across the destruction of the manager that owns both
\* (UIDSet, IDGenerator), ids stay unique, fresh and accounted for.
THEOREM TableIds == SpecTable => [](Unique /\ FreshNext /\ IdsAccounted)
<1>1. TableInv => Unique /\ FreshNext /\ IdsAccounted
  BY FirstAssumption, GenerateFresh DEF TableInv, IInv, TypeOK, IdsAccounted, FreshNext
<1>2. QED
  BY TableInductive, <1>1, PTL
=============================================================================
