-------------------------- MODULE WorldFrontProofs --------------------------
(***************************************************************************)
(* What the dispatcher and the world server behind it guarantee for any    *)
(* servers, messages, players and maps.                                    *)
(***************************************************************************)
EXTENDS WorldFront, SequenceTheorems, TLAPS

USE DEF IsLoadBalancing

Messages == Clients \cup ClusterMessages

(* Where messages wait they are those sent there, and what the poll found  *)
(* readable still is until it is read.                                     *)
Queues ==
  /\ listener \in Seq(Clients)
  /\ subscriber \in Seq(ClusterMessages)
  /\ serverIn \in [Servers -> Seq(Messages)]
  /\ "listener" \in ready => listener # << >>
  /\ "subscriber" \in ready => subscriber # << >>

IInv == Queues /\ WorldTypeOK /\ MessagesReachTheirServerOnly

-----------------------------------------------------------------------------
(* The head and the tail of a queue that is not empty.                     *)
LEMMA HeadAndTail ==
  ASSUME NEW S, NEW q \in Seq(S), q # << >>
  PROVE  /\ Head(q) \in S
         /\ Tail(q) \in Seq(S)
         /\ \A k \in DOMAIN Tail(q) : k + 1 \in DOMAIN q /\ Tail(q)[k] = q[k + 1]
<1>1. /\ Head(q) \in S
      /\ Tail(q) \in Seq(S)
  BY HeadTailProperties
<1>2. /\ Len(Tail(q)) = Len(q) - 1
      /\ \A k \in 1..Len(Tail(q)) : Tail(q)[k] = q[k + 1]
  BY HeadTailProperties
<1>3. Len(q) \in Nat /\ DOMAIN q = 1..Len(q) /\ DOMAIN Tail(q) = 1..Len(Tail(q))
  BY <1>1, LenProperties
<1>. QED
  BY <1>1, <1>2, <1>3

(* Sending hands a message to servers that may have it.                    *)
LEMMA SendingKeepsQueues ==
  ASSUME IInv, NEW m \in Messages, SendMessageToDispatcherSocket(m),
         conf' = conf
  PROVE  /\ serverIn' \in [Servers -> Seq(Messages)]
         /\ MessagesReachTheirServerOnly'
<1>. USE DEF IInv, Queues
<1>1. CASE IsLoadBalancing /\ Deal(m)
  <2>1. PICK s \in connected :
          serverIn' = [serverIn EXCEPT ![s] = Append(@, m)]
    BY <1>1 DEF Deal
  <2>2. serverIn' \in [Servers -> Seq(Messages)]
    <3>1. ASSUME NEW t \in Servers
          PROVE  Append(serverIn[t], m) \in Seq(Messages)
      BY AppendProperties
    <3>. QED
      BY <2>1, <3>1
  <2>. QED
    BY <1>1, <2>2 DEF MessagesReachTheirServerOnly
<1>2. CASE ~IsLoadBalancing /\ Publish(m)
  <2>1. ASSUME NEW s \in Servers
        PROVE  /\ serverIn'[s] \in Seq(Messages)
               /\ \A k \in DOMAIN serverIn'[s] : CodeOf(serverIn'[s][k].first) = s
    <3>1. serverIn'[s] = IF Subscribes(s, m) /\ Room(s) THEN Append(serverIn[s], m)
                         ELSE serverIn[s]
      BY <1>2 DEF Publish
    <3>2. /\ serverIn[s] \in Seq(Messages)
          /\ \A k \in DOMAIN serverIn[s] : CodeOf(serverIn[s][k].first) = s
      BY <1>2 DEF MessagesReachTheirServerOnly
    <3>3. CASE Subscribes(s, m) /\ Room(s)
      <4>1. /\ Append(serverIn[s], m) \in Seq(Messages)
            /\ \A k \in 1..Len(serverIn[s]) :
                 Append(serverIn[s], m)[k] = serverIn[s][k]
            /\ Append(serverIn[s], m)[Len(serverIn[s]) + 1] = m
            /\ Len(Append(serverIn[s], m)) = Len(serverIn[s]) + 1
        BY <3>2, AppendProperties
      <4>2. /\ DOMAIN Append(serverIn[s], m) = 1..(Len(serverIn[s]) + 1)
            /\ DOMAIN serverIn[s] = 1..Len(serverIn[s])
            /\ Len(serverIn[s]) \in Nat
        BY <3>2, <4>1, LenProperties
      <4>3. CodeOf(m.first) = s
        BY <3>3 DEF Subscribes
      <4>4. \A k \in 1..(Len(serverIn[s]) + 1) :
              k \in 1..Len(serverIn[s]) \/ k = Len(serverIn[s]) + 1
        BY <4>2
      <4>. QED
        BY <3>1, <3>2, <3>3, <4>1, <4>2, <4>3, <4>4
    <3>. QED
      BY <3>1, <3>2, <3>3
  <2>2. serverIn' = [s \in Servers |-> serverIn'[s]]
    BY <1>2 DEF Publish
  <2>. QED
    BY <2>1, <2>2 DEF MessagesReachTheirServerOnly
<1>. QED
  BY <1>1, <1>2 DEF SendMessageToDispatcherSocket

LEMMA LoopKeepsIInv == ASSUME IInv, DispatcherLoop PROVE IInv'
<1>. USE DEF IInv
<1>0. WorldTypeOK'
  BY DEF DispatcherLoop, worldVars, WorldTypeOK
<1>1. CASE Poll
  BY <1>0, <1>1 DEF Poll, Readable, Queues, MessagesReachTheirServerOnly
<1>2. CASE ProcessInputMessage
  <2>1. /\ Head(listener) \in Clients
        /\ Tail(listener) \in Seq(Clients)
    BY <1>2, HeadAndTail DEF ProcessInputMessage, Queues
  <2>2. /\ serverIn' \in [Servers -> Seq(Messages)]
        /\ MessagesReachTheirServerOnly'
    BY <1>2, <2>1, SendingKeepsQueues DEF ProcessInputMessage, Messages
  <2>. QED
    BY <1>0, <1>2, <2>1, <2>2 DEF ProcessInputMessage, Queues
<1>3. CASE ProcessClusterMessage
  <2>1. /\ Head(subscriber) \in ClusterMessages
        /\ Tail(subscriber) \in Seq(ClusterMessages)
    BY <1>3, HeadAndTail DEF ProcessClusterMessage, Queues
  <2>2. /\ serverIn' \in [Servers -> Seq(Messages)]
        /\ MessagesReachTheirServerOnly'
    BY <1>3, <2>1, SendingKeepsQueues DEF ProcessClusterMessage, Messages
  <2>. QED
    BY <1>0, <1>3, <2>1, <2>2 DEF ProcessClusterMessage, Queues
<1>. QED
  BY <1>1, <1>2, <1>3 DEF DispatcherLoop, Loop

(* A server that reads takes the first of its messages.                    *)
LEMMA ReadingKeepsQueues ==
  ASSUME IInv, NEW s \in Servers, serverIn[s] # << >>,
         serverIn' = [serverIn EXCEPT ![s] = Tail(@)],
         UNCHANGED <<conf, listener, subscriber, ready, connected>>
  PROVE  Queues' /\ MessagesReachTheirServerOnly'
<1>. USE DEF IInv
<1>1. /\ Tail(serverIn[s]) \in Seq(Messages)
      /\ \A k \in DOMAIN Tail(serverIn[s]) :
           k + 1 \in DOMAIN serverIn[s] /\ Tail(serverIn[s])[k] = serverIn[s][k + 1]
  BY HeadAndTail DEF Queues
<1>2. Queues'
  BY <1>1 DEF Queues
<1>3. ASSUME ~IsLoadBalancing, NEW t \in Servers, NEW k \in DOMAIN serverIn'[t]
      PROVE  CodeOf(serverIn'[t][k].first) = t
  <2>1. CASE t = s
    <3>1. serverIn'[s] = Tail(serverIn[s])
      BY DEF Queues
    <3>2. k + 1 \in DOMAIN serverIn[s] /\ serverIn'[s][k] = serverIn[s][k + 1]
      BY <1>1, <1>3, <2>1, <3>1
    <3>. QED
      BY <1>3, <2>1, <3>2 DEF MessagesReachTheirServerOnly
  <2>2. CASE t # s
    BY <1>3, <2>2 DEF MessagesReachTheirServerOnly, Queues
  <2>. QED
    BY <2>1, <2>2
<1>. QED
  BY <1>2, <1>3 DEF MessagesReachTheirServerOnly

-----------------------------------------------------------------------------
(* A player at the origin, who is multiplied by his move, stays there.     *)
LEMMA TheOriginIsKept ==
  ASSUME NEW d \in Directions \cup {"east"}
  PROVE  FuturePos(Origin, d) = Origin
<1>1. Cos(d) \in Int /\ Sin(d) \in Int
  BY DEF Cos, Sin
<1>2. 0 * Cos(d) = 0 /\ 0 * Sin(d) = 0
  BY <1>1
<1>. QED
  BY <1>2 DEF FuturePos, Origin

LEMMA MoveKeepsIInv == ASSUME IInv, MovePlayer PROVE IInv'
<1>. USE DEF IInv, WorldTypeOK
<1>1. Queues' /\ MessagesReachTheirServerOnly'
  BY DEF MovePlayer, dispatcherVars, Queues, MessagesReachTheirServerOnly
<1>2. cursor \in Slots /\ cursor' \in 0..MaxConnection
  BY WorldAssumption DEF MovePlayer, ExecutePendingAction, Slots
<1>3. position' = position /\ told' \subseteq Slots
  <2>1. CASE status[cursor] = "MOVING" /\ MovePlayerAction(cursor)
    <3>. DEFINE futurePos == FuturePos(position[cursor], angle[cursor])
    <3>1. PICK can \in BOOLEAN :
            /\ position' = IF can THEN [position EXCEPT ![cursor] = futurePos] ELSE position
            /\ told' = IF can THEN GetPlayerIdtsArroundPos(futurePos, position') ELSE told
      BY <2>1 DEF MovePlayerAction, CanMoveTo
    <3>2. futurePos = Origin
      BY <1>2, TheOriginIsKept
    <3>3. position' = position
      BY <1>2, <3>1, <3>2
    <3>4. GetPlayerIdtsArroundPos(futurePos, position') \subseteq Slots
      BY DEF GetPlayerIdtsArroundPos, Around
    <3>. QED
      BY <3>1, <3>3, <3>4
  <2>2. CASE status[cursor] # "MOVING" /\ UNCHANGED <<position, told>>
    BY <2>2
  <2>. QED
    BY <2>1, <2>2 DEF MovePlayer, ExecutePendingAction
<1>. QED
  BY <1>1, <1>2, <1>3 DEF MovePlayer, ExecutePendingAction

(* What is read and concerns the slots of the players comes from a client. *)
LEMMA OnlyClientsAct ==
  ASSUME IInv, ReadMessage,
         <<identities, status, angle>>' # <<identities, status, angle>>
  PROVE  LET m == Head(serverIn[ServerCode])
         IN  /\ m \in Clients
             /\ m.token \in DOMAIN TokenToIndex
             /\ IsLoadBalancing \/ CodeOf(m.first) = ServerCode
<1>. DEFINE m == Head(serverIn[ServerCode])
<1>1. ServerCode \in Servers /\ serverIn[ServerCode] \in Seq(Messages)
  BY FrontAssumption DEF IInv, Queues
<1>2. m \in Messages /\ ~m.internal /\ m.token \in DOMAIN TokenToIndex
  BY <1>1, HeadAndTail DEF ReadMessage, ProcessMessage
<1>3. m \in Clients
  BY <1>2, FrontAssumption DEF Messages
<1>4. m = serverIn[ServerCode][1] /\ 1 \in DOMAIN serverIn[ServerCode]
  BY <1>1, EmptySeq, LenProperties DEF ReadMessage
<1>5. IsLoadBalancing \/ CodeOf(m.first) = ServerCode
  BY <1>1, <1>4 DEF IInv, MessagesReachTheirServerOnly
<1>. QED
  BY <1>2, <1>3, <1>5

LEMMA ReadMessageKeepsIInv == ASSUME IInv, ReadMessage PROVE IInv'
<1>. DEFINE m == Head(serverIn[ServerCode])
<1>1. Queues' /\ MessagesReachTheirServerOnly'
  BY FrontAssumption, ReadingKeepsQueues DEF ReadMessage
<1>2. cursor' \in 0..MaxConnection /\ position' = position /\ told' = told
  BY WorldAssumption DEF ReadMessage, StartPass
<1>3. CASE <<identities, status, angle>>' = <<identities, status, angle>>
  BY <1>1, <1>2, <1>3 DEF IInv, WorldTypeOK
<1>4. CASE <<identities, status, angle>>' # <<identities, status, angle>>
  <2>1. m \in Clients /\ m.token \in DOMAIN TokenToIndex
    BY <1>4, OnlyClientsAct
  <2>2. m.first \in Identities /\ TokenToIndex[m.token] \in Slots
    BY <2>1, FrontAssumption, WorldAssumption
  <2>. DEFINE i == TokenToIndex[m.token]
  <2>3. identities' = [identities EXCEPT ![i] = m.first] /\ ActOn(i, m)
    BY <2>1, <1>4 DEF ReadMessage, ProcessMessage
  <2>4. identities' \in [Slots -> Identities \cup {NoIdentity}]
    BY <2>2, <2>3 DEF IInv, WorldTypeOK
  <2>5. /\ status' \in [Slots -> {"FIGHTING", "MOVING", "STANDING"}]
        /\ angle' \in [Slots -> Directions \cup {"east"}]
    BY <2>2, <2>3 DEF IInv, WorldTypeOK, ActOn
  <2>. QED
    BY <1>1, <1>2, <2>4, <2>5 DEF IInv, WorldTypeOK
<1>. QED
  BY <1>3, <1>4

LEMMA OutsideKeepsIInv == ASSUME IInv, Outside, UNCHANGED worldVars PROVE IInv'
<1>. USE DEF IInv
<1>0. WorldTypeOK'
  BY DEF worldVars, WorldTypeOK
<1>1. ASSUME NEW m \in Clients, ClientSends(m) PROVE IInv'
  BY <1>0, <1>1, AppendProperties
     DEF ClientSends, Queues, MessagesReachTheirServerOnly
<1>2. ASSUME NEW m \in ClusterMessages, ClusterPublishes(m) PROVE IInv'
  BY <1>0, <1>2, AppendProperties
     DEF ClusterPublishes, Queues, MessagesReachTheirServerOnly
<1>3. ASSUME NEW s \in Servers, Connect(s) PROVE IInv'
  BY <1>0, <1>3 DEF Connect, Queues, MessagesReachTheirServerOnly
<1>4. ASSUME NEW s \in Servers, Disconnect(s) PROVE IInv'
  <2>1. << >> \in Seq(Messages) /\ DOMAIN << >> = {}
    OBVIOUS
  <2>2. Queues'
    BY <1>4, <2>1 DEF Disconnect, Queues
  <2>3. MessagesReachTheirServerOnly'
    BY <1>4, <2>1 DEF Disconnect, Queues, MessagesReachTheirServerOnly
  <2>. QED
    BY <1>0, <2>2, <2>3
<1>. QED
  BY <1>1, <1>2, <1>3, <1>4 DEF Outside

LEMMA InitIInv == Init => IInv
<1>. SUFFICES ASSUME Init PROVE IInv
  OBVIOUS
<1>1. << >> \in Seq(Messages) /\ << >> \in Seq(Clients)
      /\ << >> \in Seq(ClusterMessages) /\ DOMAIN << >> = {}
  OBVIOUS
<1>2. Queues /\ MessagesReachTheirServerOnly
  BY <1>1 DEF Init, DispatcherInit, Queues, MessagesReachTheirServerOnly
<1>3. WorldTypeOK
  BY WorldAssumption DEF Init, WorldInit, WorldTypeOK
<1>. QED
  BY <1>2, <1>3 DEF IInv

LEMMA NextIInv == IInv /\ [Next]_vars => IInv'
<1>. SUFFICES ASSUME IInv, [Next]_vars PROVE IInv'
  OBVIOUS
<1>1. CASE FindNoMessage
  BY <1>1, WorldAssumption
     DEF FindNoMessage, StartPass, dispatcherVars, IInv, Queues, WorldTypeOK,
         MessagesReachTheirServerOnly
<1>2. ASSUME NEW s \in Servers, OtherServerReads(s) PROVE IInv'
  BY <1>2, ReadingKeepsQueues DEF OtherServerReads, worldVars, IInv, WorldTypeOK
<1>3. CASE UNCHANGED vars
  BY <1>3 DEF vars, dispatcherVars, worldVars, IInv, Queues, WorldTypeOK,
              MessagesReachTheirServerOnly
<1>. QED
  BY <1>1, <1>2, <1>3, LoopKeepsIInv, MoveKeepsIInv, ReadMessageKeepsIInv,
     OutsideKeepsIInv DEF Next

LEMMA Invariance == Spec => []IInv
<1>. QED
  BY InitIInv, NextIInv, PTL DEF Spec

-----------------------------------------------------------------------------
(* Players keep their slots well-formed and the origin as their position:  *)
(* WorldServerEngine::movePlayerAction multiplies it by the move, so the   *)
(* collision map is never asked about another place, whatever the map.     *)
THEOREM NobodyMoves == Spec => []WorldTypeOK
<1>1. IInv => WorldTypeOK
  BY DEF IInv
<1>. QED
  BY Invariance, <1>1, PTL

(* However many servers come and go, the dispatcher queues nothing for a   *)
(* server that begins with the code of another one.                        *)
THEOREM Routing == Spec => []MessagesReachTheirServerOnly
<1>1. IInv => MessagesReachTheirServerOnly
  BY DEF IInv
<1>. QED
  BY Invariance, <1>1, PTL

LEMMA StepFollowsClients ==
  ASSUME IInv, [Next]_vars,
         <<identities, status, angle>>' # <<identities, status, angle>>
  PROVE  \E m \in {Head(serverIn[ServerCode])} :
           /\ m \in Clients
           /\ m.token \in DOMAIN TokenToIndex
           /\ IsLoadBalancing \/ CodeOf(m.first) = ServerCode
<1>1. ReadMessage
  BY DEF Next, vars, worldVars, DispatcherLoop, FindNoMessage, MovePlayer,
         ExecutePendingAction, OtherServerReads
<1>. QED
  BY <1>1, OnlyClientsAct

(* Only a registered client, through the zone he is in, changes the slots  *)
(* of a world server: what the cluster publishes never does.               *)
THEOREM ClientsAlonePlay == Spec => PlayersFollowTheirClients
<1>1. IInv /\ [Next]_vars =>
        [<<identities, status, angle>>' # <<identities, status, angle>> =>
           \E m \in {Head(serverIn[ServerCode])} :
             /\ m \in Clients
             /\ m.token \in DOMAIN TokenToIndex
             /\ IsLoadBalancing \/ CodeOf(m.first) = ServerCode]_vars
  BY StepFollowsClients
<1>. QED
  BY Invariance, <1>1, PTL DEF Spec, PlayersFollowTheirClients
=============================================================================
