---------------------------- MODULE WorldServer ----------------------------
(***************************************************************************)
(* A world server: the slots of its players, the messages that move them,  *)
(* and the map they move on. Directions are those of the axes, so that     *)
(* sine and cosine are integers. A message has the identity and the token  *)
(* of its sender, an action, and is internal if it has a fourth part.      *)
(***************************************************************************)
EXTENDS Integers, FiniteSets

CONSTANTS
  MaxConnection,   \* slots
  TokenToIndex,    \* slot of every player who is registered: nobody is, yet
  Identities,      \* identities of connections and topics
  Directions,      \* directions a move may have
  Limit,           \* LIMIT_NOTIFICATIONS_MOVE, and the index ignored
  Distance,        \* DEFAULT_DISTANCE
  WorldJson,       \* code and boundaries in the configuration file
  TileCountX, TileCountY,  \* size of the map, in tiles
  TileSize,
  Layers           \* object layers of the map: properties and boxes

(* The servers whose zones overlap are read as well, and never looked at.  *)
InitWsContextWithJson(json) ==
  [serverCode |-> json.code,
   xBoundaries |-> <<json.begin_x, json.end_x>>,
   yBoundaries |-> <<json.begin_y, json.end_y>>]

WorldServerContext == InitWsContextWithJson(WorldJson)

ServerCode == WorldServerContext.serverCode

Slots == 0..(MaxConnection - 1)

NoIdentity == << >>

ASSUME WorldAssumption ==
  /\ MaxConnection \in Nat
  /\ Limit \in 0..MaxConnection
  /\ Distance \in Nat \ {0}
  /\ \A t \in DOMAIN TokenToIndex : TokenToIndex[t] \in Slots
  /\ TileCountX \in Nat \ {0} /\ TileCountY \in Nat \ {0}

VARIABLES
  identities,  \* _identities
  status,      \* _status
  angle,       \* angle and
  position,    \* x and y of _positions
  told,        \* slots told of the last move
  cursor       \* slot executePendingActions has reached, or none

worldVars == <<identities, status, angle, position, told, cursor>>

Origin == [x |-> 0, y |-> 0]

WorldInit ==
  /\ identities = [i \in Slots |-> NoIdentity]
  /\ status = [i \in Slots |-> "FIGHTING"]
  /\ angle = [i \in Slots |-> "east"]
  /\ position = [i \in Slots |-> Origin]
  /\ told = {}
  /\ cursor = MaxConnection

-----------------------------------------------------------------------------
(* The map.                                                                *)

Within(value, from, size) == value >= from /\ value <= from + size

(* The other layers, those with triggers among them, leave the map alone.  *)
IsCollisionLayer(layer) == "collision" \in layer.properties

Collisions == UNION {layer.boxes : layer \in {l \in Layers : IsCollisionLayer(l)}}

(* getX and getY, for square tiles: each keeps the size it is first given. *)
TileOf(value) == value \div TileSize

(* The boxes that block the element of a row and a column.                 *)
CollisionsOf(row, column) ==
  {box \in Collisions :
     /\ row >= TileOf(box.top) /\ row < TileOf(box.top + box.height)
     /\ column >= TileOf(box.left) /\ column < TileOf(box.left + box.width)}

(* An element no box is put on is not of the type that blocks.             *)
MapElement(row, column) ==
  [type |-> IF CollisionsOf(row, column) = {} THEN "NONE" ELSE "BLOCK",
   collisions |-> CollisionsOf(row, column)]

InBoundaries(p) ==
  LET bx == WorldServerContext.xBoundaries
      by == WorldServerContext.yBoundaries
  IN  p.x >= bx[1] /\ p.x <= bx[2] /\ p.y >= by[1] /\ p.y <= by[2]

(* The element canMoveTo reads is the one of row x and column y.           *)
ElementExists(p) == p.x \in 0..(TileCountY - 1) /\ p.y \in 0..(TileCountX - 1)

CanGoThrough(p) ==
  LET element == MapElement(p.x, p.y)
  IN  element.type = "BLOCK" =>
        \A box \in element.collisions :
          ~(Within(p.x, box.left, box.width) /\ Within(p.y, box.top, box.height))

(* Reading an element that does not exist may find anything there.         *)
CanMoveTo(p) ==
  {b \in BOOLEAN : IF ~InBoundaries(p) THEN ~b
                   ELSE ElementExists(p) => b = CanGoThrough(p)}

-----------------------------------------------------------------------------
(* The players.                                                            *)

Cos(d) == CASE d = "east" -> 1 [] d = "west" -> -1 [] OTHER -> 0
Sin(d) == CASE d = "north" -> 1 [] d = "south" -> -1 [] OTHER -> 0

\* Slip: the move is added to the position.
Added(p, d) == [x |-> p.x + Cos(d), y |-> p.y + Sin(d)]

(* The position is multiplied by the move.                                 *)
FuturePos(p, d) == [x |-> p.x * Cos(d), y |-> p.y * Sin(d)]

(* Whether q is told of a move to p; it is x that is compared to the       *)
(* highest y.                                                              *)
InReach(p, q) ==
  /\ p.x > q.x - Distance /\ p.x < q.x + Distance
  /\ p.y > q.y - Distance /\ p.x < q.y + Distance

(* The slots in reach; the one ignored is that of the index Limit.         *)
Around(p, positions) == {i \in Slots : i # Limit /\ InReach(p, positions[i])}

(* The first of them, up to the limit of notifications.                    *)
GetPlayerIdtsArroundPos(p, positions) ==
  {i \in Around(p, positions) :
     Cardinality({j \in Around(p, positions) : j < i}) < Limit}

MovePlayerAction(i) ==
  LET futurePos == FuturePos(position[i], angle[i])
  IN  \E can \in CanMoveTo(futurePos) :
        /\ position' = IF can THEN [position EXCEPT ![i] = futurePos] ELSE position
        /\ told' = IF can THEN GetPlayerIdtsArroundPos(futurePos, position') ELSE told

(* executePendingActions, the slot it has reached.                         *)
ExecutePendingAction ==
  /\ cursor \in Slots
  /\ cursor' = cursor + 1
  /\ \/ status[cursor] = "MOVING" /\ MovePlayerAction(cursor)
     \/ status[cursor] # "MOVING" /\ UNCHANGED <<position, told>>
  /\ UNCHANGED <<identities, status, angle>>

ActOn(i, m) ==
  \/ /\ m.action \in Directions
     /\ angle' = [angle EXCEPT ![i] = m.action]
     /\ status' = [status EXCEPT ![i] = "MOVING"]
  \/ /\ m.action = "Interruption"
     /\ status' = [status EXCEPT ![i] = "STANDING"]
     /\ UNCHANGED angle
  \/ /\ m.action \notin Directions \cup {"Interruption"}
     /\ UNCHANGED <<angle, status>>

\* Slip: the fourth part is not looked at.
ProcessWhateverPart(m) ==
  \/ m.token \notin DOMAIN TokenToIndex /\ UNCHANGED <<identities, angle, status>>
  \/ /\ m.token \in DOMAIN TokenToIndex
     /\ identities' = [identities EXCEPT ![TokenToIndex[m.token]] = m.first]
     /\ ActOn(TokenToIndex[m.token], m)

(* The handler of the messages the server subscribed to.                   *)
ProcessMessage(m) ==
  \/ /\ m.internal \/ m.token \notin DOMAIN TokenToIndex
     /\ UNCHANGED <<identities, angle, status>>
  \/ /\ ~m.internal
     /\ m.token \in DOMAIN TokenToIndex
     /\ identities' = [identities EXCEPT ![TokenToIndex[m.token]] = m.first]
     /\ ActOn(TokenToIndex[m.token], m)

(* A pass of runServerLoop: a message if there is one, then every slot.    *)
StartPass ==
  /\ cursor = MaxConnection
  /\ cursor' = 0
  /\ UNCHANGED <<position, told>>

-----------------------------------------------------------------------------
(* Properties.                                                             *)

(* Every variable has its type, and nobody has left the origin: positions  *)
(* are multiplied by the moves, and start at 0. So the map is only ever    *)
(* looked up at an element it has, whatever its size.                      *)
WorldTypeOK ==
  /\ identities \in [Slots -> Identities \cup {NoIdentity}]
  /\ status \in [Slots -> {"FIGHTING", "MOVING", "STANDING"}]
  /\ angle \in [Slots -> Directions \cup {"east"}]
  /\ position = [i \in Slots |-> Origin]
  /\ told \subseteq Slots
  /\ cursor \in 0..MaxConnection

=============================================================================
