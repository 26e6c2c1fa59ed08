---------------------------------- MODULE Node ----------------------------------
(***************************************************************************)
(* Nectere::Dp::Node (src/Nectere/Dp/Node.cpp): a tree of named values that *)
(* JSON and XML are loaded to and printed from.  A key is a path of names   *)
(* separated by '.', and "name(n)" is the n-th child of that name.          *)
(*                                                                         *)
(* The assignment of a node copies everything but the name.  The children  *)
(* are in a std::vector, which moves them by assignment when it erases,    *)
(* when it inserts with room left and when it is assigned over old         *)
(* children: names then stay where they were while values move.  Whether a *)
(* vector has room left depends on its history: it is the parameter spare, *)
(* one choice for an operation.                                            *)
(***************************************************************************)
EXTENDS Text, SequencesExt

NodeOf(name, value) ==
    [nullNode |-> FALSE, null |-> FALSE, string |-> FALSE, notString |-> FALSE,
     array |-> FALSE, name |-> name, value |-> value, childs |-> <<>>]

Empty == NodeOf("", "")

(* What GetNode and the readers return for nothing.                        *)
NULL_NODE == [Empty EXCEPT !.nullNode = TRUE]

IsNotNullNode(node) == ~node.nullNode
HaveChild(node) == node.childs # <<>>
HaveValue(node) == node.value # ""
IsEmpty(node) == ~HaveValue(node) /\ ~HaveChild(node)
HaveNamedChild(node) == \E i \in DOMAIN node.childs : node.childs[i].name # ""
Emplace(node, child) == [node EXCEPT !.childs = Append(@, child)]

(* operator==                                                              *)
RECURSIVE Equal(_, _)
Equal(node, other) ==
    \/ node.nullNode /\ other.nullNode
    \/ /\ node.name = other.name /\ node.null = other.null /\ node.value = other.value
       /\ Len(node.childs) = Len(other.childs)
       /\ \A i \in DOMAIN node.childs : Equal(node.childs[i], other.childs[i])

(* Faulty variant: the name is copied as well.                             *)
AssignWithName(node, other, spare) == other

(* operator=, and the assignment of the vector of children in it: over the *)
(* old children as far as there are, unless it needs more room.            *)
RECURSIVE Assign(_, _, _)
Assign(node, other, spare) ==
    [other EXCEPT
        !.name = node.name,
        !.childs =
            IF Len(@) > Len(node.childs) /\ ~spare THEN @
            ELSE [i \in DOMAIN @ |-> IF i \in DOMAIN node.childs
                                     THEN Assign(node.childs[i], @[i], spare) ELSE @[i]]]

(* m_Childs.erase: each later child is assigned to the one before it.      *)
Erased(childs, at, spare) ==
    [i \in 1..(Len(childs) - 1) |->
        IF i < at THEN childs[i] ELSE Assign(childs[i], childs[i + 1], spare)]

(* m_Childs.insert: without room all are copied to a new vector, else      *)
(* each from the last on is assigned to the one after it.                  *)
Inserted(childs, at, child, spare) ==
    IF ~spare THEN InsertAt(childs, at, child)
    ELSE [i \in 1..(Len(childs) + 1) |->
             IF i < at THEN childs[i]
             ELSE IF i = at THEN Assign(childs[at], child, spare)
             ELSE IF i = Len(childs) + 1 THEN childs[Len(childs)]
             ELSE Assign(childs[i], childs[i - 1], spare)]

-----------------------------------------------------------------------------
(* Keys.                                                                   *)

IsPath(key) == Includes(key, ".")
FirstName(key) == SubSeq(key, 1, Find(key, ".") - 1)
NewKey(key) == From(key, Find(key, ".") + 1)

HasPos(key) == Includes(key, "(") /\ Includes(key, ")")

(* The position in "name(n)", from 0; -1 without one.  The digits read are *)
(* as many as the characters from ')' to the end.                          *)
PosBetween(key, pos, endPos) ==
    Stoi(SubSeq(key, pos + 1, pos + Len(key) - endPos + 1)) - 1
ExtractPos(key) ==
    IF HasPos(key) THEN PosBetween(key, Find(key, "("), Find(key, ")")) ELSE -1

ExtractName(key) ==
    IF HasPos(key) THEN SubSeq(key, 1, Find(key, "(") - 1) \o From(key, Find(key, ")") + 1)
    ELSE key

(* The children of a name, in order.                                       *)
OfName(node, name) ==
    SelectSeq([i \in DOMAIN node.childs |-> i], LAMBDA i : node.childs[i].name = name)

(* Those a name of a key stands for when it is looked up: all of them, or  *)
(* the one at the position nb.                                             *)
AtPos(all, nb) ==
    IF nb < 0 THEN all ELSE IF nb < Len(all) THEN <<all[nb + 1]>> ELSE <<>>
Candidates(node, name) == AtPos(OfName(node, ExtractName(name)), ExtractPos(name))

-----------------------------------------------------------------------------
(* GetNode: the first that is found below one of the candidates.           *)
FirstFound(nodes) == IF nodes = <<>> THEN NULL_NODE ELSE nodes[1]

RECURSIVE GetNode(_, _)
GetNode(node, key) ==
    LET Below(in) == [i \in DOMAIN in |-> GetNode(node.childs[in[i]], NewKey(key))]
        Here(in) == [i \in DOMAIN in |-> node.childs[in[i]]]
    IN  FirstFound(IF IsPath(key)
                   THEN SelectSeq(Below(Candidates(node, FirstName(key))), IsNotNullNode)
                   ELSE Here(Candidates(node, key)))

Has(node, key) == IsNotNullNode(GetNode(node, key))

(* What an addition does to the child it finds.  ADD is the default, MERGE. *)
Updated(node, at, name, value, addType, spare) ==
    CASE addType = "INSERT" ->
             [node EXCEPT !.childs = Inserted(@, at, [value EXCEPT !.name = name], spare)]
      [] addType = "REPLACE" -> [node EXCEPT !.childs[at] = Assign(@, value, spare)]
      [] OTHER -> [node EXCEPT !.childs[at].childs = @ \o value.childs]

(* Faulty variant: a position is taken for one from 1.                     *)
NthFromOne(nb) == IF nb =< 0 THEN 1 ELSE nb

(* InternalAdd: the child at the position nb, the first without one; a     *)
(* name on the way that is missing is created unless its position is       *)
(* further than the next one, the last name always.                        *)
Nth(nb) == IF nb =< 0 THEN 1 ELSE nb + 1

AddHere(node, name, nb, all, value, addType, spare) ==
    IF Nth(nb) =< Len(all) THEN Updated(node, all[Nth(nb)], name, value, addType, spare)
    ELSE Emplace(node, [value EXCEPT !.name = name])

RECURSIVE InternalAdd(_, _, _, _, _)
InternalAdd(node, key, value, addType, spare) ==
    LET Below(child) == InternalAdd(child, NewKey(key), value, addType, spare)
        AddBelow(name, nb, all) ==
            IF Nth(nb) =< Len(all) THEN [node EXCEPT !.childs[all[Nth(nb)]] = Below(@)]
            ELSE IF nb > Len(all) THEN node
            ELSE Emplace(node, Below(NodeOf(name, "")))
        At(name, nb, Adding(_, _, _)) == Adding(name, nb, OfName(node, name))
    IN  IF IsPath(key)
        THEN At(ExtractName(FirstName(key)), ExtractPos(FirstName(key)), AddBelow)
        ELSE At(ExtractName(key), ExtractPos(key),
                LAMBDA name, nb, all : AddHere(node, name, nb, all, value, addType, spare))

Add(node, key, value) == InternalAdd(node, key, value, "ADD", FALSE)

(* The node of a vector of values, which loses their names.                *)
ArrayNode(values) ==
    [Empty EXCEPT !.array = TRUE,
                  !.childs = [i \in DOMAIN values |-> [values[i] EXCEPT !.name = ""]]]

(* Remove: the node and whether anything was removed.                      *)
RECURSIVE RemoveNode(_, _, _)
RemoveNode(node, key, spare) ==
    LET Here(at) == [done |-> TRUE, node |-> [node EXCEPT !.childs = Erased(@, at[1], spare)]]
        Below(child) == RemoveNode(child, NewKey(key), spare)
        In(at) == SelectSeq(at, LAMBDA i : Below(node.childs[i]).done)
        Removed(at) == [done |-> TRUE, node |-> [node EXCEPT !.childs[at[1]] = Below(@).node]]
        OrNone(at, Do(_)) == IF at = <<>> THEN [done |-> FALSE, node |-> node] ELSE Do(at)
    IN  IF IsPath(key) THEN OrNone(In(Candidates(node, FirstName(key))), Removed)
        ELSE OrNone(Candidates(node, key), Here)
=============================================================================
