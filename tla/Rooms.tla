------------------------------- MODULE Rooms -------------------------------
(***************************************************************************)
(* What the canals of a Nectere server promise to its users, with no       *)
(* identifier, no table and no lock: a room is known by its name, is       *)
(* entered while it is not full, and once closed goes away with its last   *)
(* member.  The server may fail, and then promises nothing.  CanalManager  *)
(* implements it.  Passwords are not part of it: a room does not show      *)
(* which one a user gave.                                                  *)
(***************************************************************************)
EXTENDS Integers, FiniteSets

CONSTANTS User, CanalName, Limit

VARIABLES rooms,    \* the open rooms, by name
          failed    \* the server has executed undefined behaviour

vars == <<rooms, failed>>

Room == [members : SUBSET User, limit : Limit, closing : BOOLEAN]

NoRooms == [n \in {} |-> n]

Without(f, x) == [y \in DOMAIN f \ {x} |-> f[y]]

Init == rooms = NoRooms /\ failed = FALSE

Open(n, limit) ==
  /\ ~failed
  /\ n \notin DOMAIN rooms
  /\ rooms' = [m \in DOMAIN rooms \cup {n} |->
                 IF m = n THEN [members |-> {}, limit |-> limit, closing |-> FALSE]
                          ELSE rooms[m]]
  /\ UNCHANGED failed

Close(n) ==
  /\ ~failed
  /\ n \in DOMAIN rooms
  /\ rooms' = IF rooms[n].members = {} THEN Without(rooms, n)
                                       ELSE [rooms EXCEPT ![n].closing = TRUE]
  /\ UNCHANGED failed

Enter(u, n) ==
  /\ ~failed
  /\ n \in DOMAIN rooms
  /\ rooms[n].limit = -1 \/ Cardinality(rooms[n].members) # rooms[n].limit
  /\ rooms' = [rooms EXCEPT ![n].members = @ \cup {u}]
  /\ UNCHANGED failed

Exit(u, n) ==
  /\ ~failed
  /\ n \in DOMAIN rooms
  /\ u \in rooms[n].members
  /\ rooms' = IF rooms[n].closing /\ rooms[n].members = {u}
              THEN Without(rooms, n)
              ELSE [rooms EXCEPT ![n].members = @ \ {u}]
  /\ UNCHANGED failed

Fail ==
  /\ ~failed
  /\ failed' = TRUE
  /\ rooms' = NoRooms

Next ==
  \/ \E n \in CanalName :
       \/ \E limit \in Limit : Open(n, limit)
       \/ Close(n)
       \/ \E u \in User : Enter(u, n) \/ Exit(u, n)
  \/ Fail

Spec == Init /\ [][Next]_vars
=============================================================================
