----------------------------- MODULE Dispatcher -----------------------------
(***************************************************************************)
(* fys::Dispatcher with its DispatcherConnectionManager: what clients send *)
(* to the listener socket and what the cluster publishes goes out on the   *)
(* dispatcher socket, to the servers that subscribed to it or to any one   *)
(* of them. A message is kept as its first frame, the identity of its      *)
(* sender or its topic, and the rest; the frame is what it begins with,    *)
(* the code of a server or not, and how it goes on. Sockets are ZeroMQ's.  *)
(***************************************************************************)
EXTENDS Naturals, Sequences

CONSTANTS
  Servers,         \* codes of the servers behind the dispatcher
  Topics,          \* topics of the configuration and
  TopicGroups,     \* its topic groups
  Clients,         \* what clients may send
  ClusterMessages, \* what the cluster may publish
  HighWaterMark,   \* messages a queue of the dispatcher socket holds
  MaxWaiting       \* bound of the model: messages waiting at a socket

ASSUME DispatcherAssumption ==
  HighWaterMark \in Nat /\ MaxWaiting \in Nat

VARIABLES
  conf,        \* the configuration, chosen at the start
  listener,    \* messages waiting at the listener socket
  subscriber,  \* messages waiting at the socket of the cluster
  ready,       \* sockets the last poll found readable, not yet read
  connected,   \* servers that are there
  serverIn     \* messages on their way to each server

dispatcherVars == <<conf, listener, subscriber, ready, connected, serverIn>>

-----------------------------------------------------------------------------

(* What the program asks of its configuration.                             *)
Configuration == [isLoadBalancing : BOOLEAN, isClusterAware : BOOLEAN]

IsLoadBalancing == conf.isLoadBalancing
IsClusterAware == conf.isClusterAware

(* The ini file of the configuration may say anything.                     *)
InitializeFromIni == Configuration

(* The command line can only switch off what the file switches on; the     *)
(* option for load balancing is declared and never added to the parser, so *)
(* that it keeps its default.                                              *)
StartupDispatcherCtx(ini, aware) ==
  LET loadBalance == TRUE
  IN  [isLoadBalancing |-> loadBalance /\ ini.isLoadBalancing,
       isClusterAware |-> aware /\ ini.isClusterAware]

(* The topics are only joined with the groups if there are any.            *)
SubTopics == (IF TopicGroups = {} THEN {""} ELSE TopicGroups) \X Topics

CodeOf(frame) == frame[1]

DispatcherInit ==
  /\ \E ini \in InitializeFromIni, aware \in BOOLEAN :
       conf = StartupDispatcherCtx(ini, aware)
  /\ listener = << >>
  /\ subscriber = << >>
  /\ ready = {}
  /\ connected = {}
  /\ serverIn = [s \in Servers |-> << >>]

\* Slip: servers subscribe to everything.
SubscribesToAll(s, m) == s \in connected

(* A server subscribes to its own code.                                    *)
Subscribes(s, m) == s \in connected /\ CodeOf(m.first) = s

Room(s) == Len(serverIn[s]) < HighWaterMark

(* PUB: a copy to every subscriber, lost where the queue is full.          *)
Publish(m) ==
  serverIn' = [s \in Servers |->
                 IF Subscribes(s, m) /\ Room(s) THEN Append(serverIn[s], m)
                 ELSE serverIn[s]]

(* DEALER: to one of the servers, waiting until there is one with room.    *)
Deal(m) ==
  \E s \in connected :
    Room(s) /\ serverIn' = [serverIn EXCEPT ![s] = Append(@, m)]

SendMessageToDispatcherSocket(m) ==
  \/ IsLoadBalancing /\ Deal(m)
  \/ ~IsLoadBalancing /\ Publish(m)

-----------------------------------------------------------------------------
(* The dispatcher's loop.                                                  *)

\* Slip: the listener is read when the cluster has nothing to say.
ClusterFirst ==
  IF IsClusterAware /\ subscriber # << >> THEN {"subscriber"}
  ELSE {s \in {"listener"} : listener # << >>}

(* Of the three sockets listed for the poll only the first two are given   *)
(* to it, or the first one without a cluster: what the servers send to the *)
(* dispatcher socket is never read.                                        *)
Readable ==
  {s \in {"listener", "subscriber"} :
     \/ s = "listener" /\ listener # << >>
     \/ s = "subscriber" /\ IsClusterAware /\ subscriber # << >>}

Poll ==
  /\ ready = {}
  /\ Readable # {}
  /\ ready' = Readable
  /\ UNCHANGED <<conf, listener, subscriber, connected, serverIn>>

ProcessInputMessage ==
  /\ "listener" \in ready
  /\ SendMessageToDispatcherSocket(Head(listener))
  /\ listener' = Tail(listener)
  /\ ready' = ready \ {"listener"}
  /\ UNCHANGED <<conf, subscriber, connected>>

ProcessClusterMessage ==
  /\ "listener" \notin ready
  /\ "subscriber" \in ready
  /\ SendMessageToDispatcherSocket(Head(subscriber))
  /\ subscriber' = Tail(subscriber)
  /\ ready' = {}
  /\ UNCHANGED <<conf, listener, connected>>

Loop == Poll \/ ProcessInputMessage \/ ProcessClusterMessage

-----------------------------------------------------------------------------
(* Around the dispatcher.                                                  *)

ClientSends(m) ==
  /\ Len(listener) < MaxWaiting
  /\ listener' = Append(listener, m)
  /\ UNCHANGED <<conf, subscriber, ready, connected, serverIn>>

(* Only the topics subscribed to come through.                             *)
ClusterPublishes(m) ==
  /\ IsClusterAware
  /\ m.first \in SubTopics
  /\ Len(subscriber) < MaxWaiting
  /\ subscriber' = Append(subscriber, m)
  /\ UNCHANGED <<conf, listener, ready, connected, serverIn>>

Connect(s) ==
  /\ connected' = connected \cup {s}
  /\ UNCHANGED <<conf, listener, subscriber, ready, serverIn>>

Disconnect(s) ==
  /\ connected' = connected \ {s}
  /\ serverIn' = [serverIn EXCEPT ![s] = << >>]
  /\ UNCHANGED <<conf, listener, subscriber, ready>>

Outside ==
  \/ \E m \in Clients : ClientSends(m)
  \/ \E m \in ClusterMessages : ClusterPublishes(m)
  \/ \E s \in Servers : Connect(s) \/ Disconnect(s)
=============================================================================
