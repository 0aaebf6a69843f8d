-------------------------------- MODULE MyApps --------------------------------
(***************************************************************************)
(* The applications Sender and Receiver on top of the devices, and with    *)
(* them the system from end to end: an application's packet goes down the  *)
(* stack of one node, through the network, and up the stack of the others. *)
(* UDP and IP between a socket and its device are external: they pass a    *)
(* packet on at once, and drop it when no socket is bound.                 *)
(***************************************************************************)
EXTENDS TdmaNetDevice

CONSTANTS
  Senders, Receivers,  \* the nodes that run each application
  NumPackets,          \* bound: the values of the attribute NumPackets of a Sender
  MaxPackets,          \* bound: no other traffic beyond this many packets in all
  OtherDests,          \* the destination addresses of other traffic
  Bridged              \* source addresses other traffic uses with SendFrom

ASSUME AppsOnNodes == Senders \subseteq Node /\ Receivers \subseteq Node
ASSUME NumPacketsArePositive == NumPackets \subseteq Nat \ {0}

VARIABLES
  numPackets,        \* m_numPkts
  started, stopped,  \* StartApplication and StopApplication of a Sender were called
  count,             \* m_count
  sendEvent,         \* a SendPacket event is pending
  bound,             \* the Receiver's socket is bound
  listening,         \* the socket has its receive callback
  waiting,           \* packets in the socket's buffer
  recvPackets,       \* m_recvPackets
  reported,          \* sum of the packets in the reports written
  appIds             \* the ids of the packets Senders have sent

senderVars == <<numPackets, started, stopped, count, sendEvent, appIds>>
receiverVars == <<bound, listening, waiting, recvPackets, reported>>
vars == <<deviceVars, senderVars, receiverVars>>

Init ==
  /\ DeviceInit
  /\ numPackets \in [Senders -> NumPackets]
  /\ started = [n \in Senders |-> FALSE] /\ stopped = [n \in Senders |-> FALSE]
  /\ count = [n \in Senders |-> 0] /\ sendEvent = [n \in Senders |-> FALSE]
  /\ appIds = {}
  /\ bound = [n \in Receivers |-> FALSE] /\ listening = [n \in Receivers |-> FALSE]
  /\ waiting = [n \in Receivers |-> 0] /\ recvPackets = [n \in Receivers |-> 0]
  /\ reported = [n \in Receivers |-> 0]

-----------------------------------------------------------------------------
(* Sender *)

StartSender(n) ==
  /\ initialized /\ ~started[n]
  /\ started' = [started EXCEPT ![n] = TRUE]
  /\ count' = [count EXCEPT ![n] = 0]
  /\ sendEvent' = [sendEvent EXCEPT ![n] = TRUE]
  /\ UNCHANGED <<deviceVars, receiverVars, numPackets, stopped, appIds>>

\* The stop time may lie before the start time: then nothing is cancelled.
StopSender(n) ==
  /\ initialized /\ ~stopped[n]
  /\ stopped' = [stopped EXCEPT ![n] = TRUE]
  /\ sendEvent' = [sendEvent EXCEPT ![n] = FALSE]
  /\ UNCHANGED <<deviceVars, receiverVars, numPackets, started, count, appIds>>

\* Mutant: the count is compared before it is incremented.
SendsMoreLate(n) == count[n] < numPackets[n]

SendsMore(n) == count[n] + 1 < numPackets[n]

SendPacket(n) ==
  /\ sendEvent[n]
  /\ Send(n, Broadcast)
  /\ appIds' = appIds \cup {originated'}
  /\ count' = [count EXCEPT ![n] = @ + 1]
  /\ sendEvent' = [sendEvent EXCEPT ![n] = SendsMore(n)]
  /\ UNCHANGED <<receiverVars, numPackets, started, stopped>>

-----------------------------------------------------------------------------
(* Receiver *)

\* CheckData reports what was received since the last report, and comes back
\* every 150 seconds for ever: StopApplication does not cancel it.
CheckData(n) ==
  /\ reported' = [reported EXCEPT ![n] = @ + recvPackets[n]]
  /\ recvPackets' = [recvPackets EXCEPT ![n] = 0]

StartReceiver(n) ==
  /\ initialized /\ ~bound[n]
  /\ bound' = [bound EXCEPT ![n] = TRUE]
  /\ listening' = [listening EXCEPT ![n] = TRUE]
  /\ CheckData(n)
  /\ UNCHANGED <<deviceVars, senderVars, waiting>>

StopReceiver(n) ==
  /\ listening[n]
  /\ listening' = [listening EXCEPT ![n] = FALSE]
  /\ UNCHANGED <<deviceVars, senderVars, bound, waiting, recvPackets, reported>>

Report(n) ==
  /\ bound[n]
  /\ CheckData(n)
  /\ UNCHANGED <<deviceVars, senderVars, bound, listening, waiting>>

\* What Receive takes out of the socket: everything that is there.
ReadAll(n) ==
  /\ recvPackets' = [recvPackets EXCEPT ![n] = @ + waiting[n] + 1]
  /\ waiting' = [waiting EXCEPT ![n] = 0]

\* A frame arrives, and with it perhaps a packet of a Sender at a Receiver.
Arrive(e) ==
  /\ Receive(e)
  /\ LET n == e.to
         forApp == \E u \in handedUp' \ handedUp : u.cb = "receive" /\ u.id \in appIds
     IN  IF forApp /\ n \in Receivers /\ bound[n]
         THEN IF listening[n]
              THEN ReadAll(n) /\ UNCHANGED <<bound, listening, reported>>
              ELSE /\ waiting' = [waiting EXCEPT ![n] = @ + 1]
                   /\ UNCHANGED <<bound, listening, recvPackets, reported>>
         ELSE UNCHANGED receiverVars
  /\ UNCHANGED senderVars

-----------------------------------------------------------------------------
(* The system *)

\* Packets of other protocols, slot messages, and transmissions.
OtherTraffic ==
  \/ \E d \in Node : SendPacketDown(d)
  \/ /\ \A n \in Senders : originated + numPackets[n] < MaxPackets
     /\ \/ \E d \in Node : SendRouteDown(d)
        \/ \E d \in Node : \E dest \in OtherDests : Send(d, dest)
        \/ \E d \in Node : \E src \in Bridged : \E dest \in OtherDests : SendFrom(d, src, dest)

Next ==
  \/ \E d \in Node : \E part \in Part :
       Configure(d, part) /\ UNCHANGED <<senderVars, receiverVars>>
  \/ (Install \/ Initialize) /\ UNCHANGED <<senderVars, receiverVars>>
  \/ OtherTraffic /\ UNCHANGED <<senderVars, receiverVars>>
  \/ \E e \in onAir : Arrive(e)
  \/ \E n \in Senders : StartSender(n) \/ StopSender(n) \/ SendPacket(n)
  \/ \E n \in Receivers : StartReceiver(n) \/ StopReceiver(n) \/ Report(n)

\* A pending SendPacket event is executed.
Fairness == \A n \in Senders : WF_vars(SendPacket(n))

Spec == Init /\ [][Next]_vars
FairSpec == Spec /\ Fairness

-----------------------------------------------------------------------------
(* Properties *)

\* No Receiver counts a packet of another node's Sender twice, whether it was
\* read at once, waited in the socket or has been reported: over all the paths
\* of the broadcast, each of the Senders' packets is counted at most once.
CountedOnce ==
  \A n \in Receivers :
    waiting[n] + recvPackets[n] + reported[n] <= Cardinality(appIds)

\* The stop of a Sender came before its start, and cancelled nothing.
StoppedEarly(n) == stopped[n] /\ ~started[n]

\* A Sender that is started sends the packets of its attribute, no more and no fewer,
\* unless it is stopped between its start and its last packet: a stop that
\* comes before the start cancels nothing, and the Sender runs to its end.
SendsAll ==
  \A n \in Senders :
    /\ (<>(started[n]) /\ ([](~stopped[n]) \/ <>StoppedEarly(n)))
          => <>[](count[n] = numPackets[n])
    /\ [](count[n] <= numPackets[n])
=============================================================================
