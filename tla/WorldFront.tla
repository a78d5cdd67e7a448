----------------------------- MODULE WorldFront -----------------------------
(***************************************************************************)
(* A dispatcher in front of a world server and of the servers next to it:  *)
(* the messages of the clients and of the cluster reach the server their   *)
(* first frame begins with. The servers next to the world server just read *)
(* what they are sent.                                                     *)
(***************************************************************************)
EXTENDS Dispatcher, WorldServer

(* What clients send has their identity in front; what the cluster         *)
(* publishes is internal.                                                  *)
ASSUME FrontAssumption ==
  /\ ServerCode \in Servers
  /\ \A m \in Clients : m.first \in Identities
  /\ \A m \in ClusterMessages : m.internal

vars == <<dispatcherVars, worldVars>>

Init == DispatcherInit /\ WorldInit

DispatcherLoop == Loop /\ UNCHANGED worldVars

(* runServerLoop: a pass that finds a message, or none.                    *)
ReadMessage ==
  /\ StartPass
  /\ serverIn[ServerCode] # << >>
  /\ ProcessMessage(Head(serverIn[ServerCode]))
  /\ serverIn' = [serverIn EXCEPT ![ServerCode] = Tail(@)]
  /\ UNCHANGED <<conf, listener, subscriber, ready, connected>>

FindNoMessage ==
  /\ StartPass
  /\ serverIn[ServerCode] = << >>
  /\ UNCHANGED <<dispatcherVars, identities, status, angle>>

MovePlayer == ExecutePendingAction /\ UNCHANGED dispatcherVars

OtherServerReads(s) ==
  /\ s # ServerCode
  /\ serverIn[s] # << >>
  /\ serverIn' = [serverIn EXCEPT ![s] = Tail(@)]
  /\ UNCHANGED <<conf, listener, subscriber, ready, connected, worldVars>>

Next ==
  \/ DispatcherLoop
  \/ ReadMessage
  \/ FindNoMessage
  \/ MovePlayer
  \/ \E s \in Servers : OtherServerReads(s)
  \/ Outside /\ UNCHANGED worldVars

Spec == Init /\ [][Next]_vars

(* The dispatcher's loop never stops by itself.                            *)
FairSpec == Spec /\ WF_vars(DispatcherLoop)

-----------------------------------------------------------------------------
(* Properties.                                                             *)

(* What waits at a server is meant for it: published under its code, by a  *)
(* client whose identity begins with it or in one of its topics.           *)
MessagesReachTheirServerOnly ==
  ~IsLoadBalancing =>
    \A s \in Servers : \A k \in DOMAIN serverIn[s] : CodeOf(serverIn[s][k].first) = s

(* Whatever the cluster and those who are not registered send, the slots   *)
(* of the players only change with what registered clients send.           *)
PlayersFollowTheirClients ==
  [][<<identities, status, angle>>' # <<identities, status, angle>> =>
       \E m \in {Head(serverIn[ServerCode])} :
         /\ m \in Clients
         /\ m.token \in DOMAIN TokenToIndex
         /\ IsLoadBalancing \/ CodeOf(m.first) = ServerCode]_vars

(* A client is not kept waiting by the cluster, nor the cluster by the     *)
(* clients, however much they send; unless loads are balanced, and again   *)
(* and again no server takes anything.                                     *)
NeitherSideStarves ==
  \/ IsLoadBalancing /\ []<>(\A s \in connected : ~Room(s))
  \/ /\ \/ []<>(listener = << >>)
        \/ []<><<listener # << >> /\ listener' = Tail(listener)>>_vars
     /\ \/ []<>(subscriber = << >>)
        \/ []<><<subscriber # << >> /\ subscriber' = Tail(subscriber)>>_vars
=============================================================================
