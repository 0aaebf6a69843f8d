----------------------------- MODULE TdmaExample -----------------------------
(***************************************************************************)
(* The two simulation scripts called tdma-example: how a network and its   *)
(* applications are put together, and what the result files say of the     *)
(* run.  "scratch" (src/scratch) broadcasts with the Senders of MyApps,    *)
(* whose Receivers write reports; "examples" (the module's own example)    *)
(* sends from OnOff applications to sockets of the script, which writes    *)
(* what they receive, row by row.  Time is that of the simulator; the      *)
(* network in between is external: it delivers a packet to any of those it *)
(* is meant for, with one of Delays.                                       *)
(***************************************************************************)
EXTENDS Integers, FiniteSets, FiniteSetsExt

CONSTANTS
  Scripts,         \* which of the scripts are run
  NodeCounts, SinkCounts, TotalTimes,  \* bounds: the command line's values
  UintSize,        \* unsigned arithmetic is modulo this
  Starts,          \* bound: start times that the scripts draw, by script
  NumPackets,      \* attribute of Sender
  Intervals,       \* seconds between two packets of an application, by script
  Delays,          \* bound: seconds from an application to another
  ReportInterval,  \* Receiver::CheckData comes back after this
  SampleInterval   \* CheckThroughput comes back after this

ASSUME ScriptsAreTwo == Scripts \subseteq {"scratch", "examples"}
ASSUME CountsAreUnsigned ==
  UintSize \in Nat \ {0} /\ NodeCounts \cup SinkCounts \subseteq 0 .. UintSize - 1
ASSUME TimesPass ==
  /\ TotalTimes \cup {ReportInterval, SampleInterval} \subseteq Nat \ {0}
  /\ Delays \subseteq Nat \ {0}
  /\ Starts \in [Scripts -> SUBSET Nat] /\ Intervals \in [Scripts -> Nat \ {0}]

VARIABLES
  script, nWifis, nSinks, totalTime,  \* the command line
  phase,            \* how far CaseRun has come
  now,              \* Simulator::Now
  sinks,            \* nodes with a Receiver, or with a socket of the script
  sendEvent,        \* time of the pending SendPacket of each application
  count,            \* packets each application has sent
  onWay,            \* packets in the network
  recv, reportAt,   \* m_recvPackets and next CheckData of each Receiver
  packetsReceived,  \* since the last row
  sample,           \* time of the next CheckThroughput
  rowPackets, read, oldest  \* history: packets in rows, all packets read,
                            \*   when the first one since the last row was

arguments == <<script, nWifis, nSinks, totalTime>>
appVars == <<sinks, sendEvent, count>>
receiverVars == <<recv, reportAt>>
rowVars == <<packetsReceived, sample, rowPackets, read, oldest>>
vars == <<arguments, phase, now, appVars, onWay, receiverVars, rowVars>>

Nobody == [n \in {} |-> 0]

\* main: the command line may name any numbers.
Init ==
  /\ script \in Scripts /\ nWifis \in NodeCounts /\ nSinks \in SinkCounts
  /\ totalTime \in TotalTimes
  /\ phase = "nodes"
  /\ now = 0
  /\ sinks = {} /\ sendEvent = Nobody /\ count = Nobody
  /\ onWay = {}
  /\ recv = Nobody /\ reportAt = Nobody
  /\ packetsReceived = 0 /\ sample = 0
  /\ rowPackets = 0 /\ read = 0 /\ oldest = 0

-----------------------------------------------------------------------------
(* CaseRun *)

NodeIds == 0 .. nWifis - 1

\* Only the example asserts that there are more nodes than sinks.
CreateNodes ==
  /\ phase = "nodes"
  /\ phase' = IF script = "examples" /\ ~(nWifis > nSinks) THEN "crashed" ELSE "devices"
  /\ UNCHANGED <<arguments, now, appVars, onWay, receiverVars, rowVars>>

\* One call of Install for all nodes, of TdmaHelper or of WifiHelper: what the
\* devices then do is the network's.
CreateDevices ==
  /\ phase = "devices"
  /\ phase' = "apps"
  /\ UNCHANGED <<arguments, now, appVars, onWay, receiverVars, rowVars>>

\* Mutant: the loop runs one further.
LastSinkLate == nSinks % UintSize

\* The loops over the sinks run to m_nSinks - 1, which is unsigned.
LastSink == (nSinks - 1) % UintSize

\* NodeList::GetNode asserts that there is such a node.
LacksNode == LastSink \notin NodeIds

Applications(apps) ==
  /\ \E start \in [apps -> Starts[script]] :
       sendEvent' = [a \in apps |->
         start[a] + IF script = "examples" THEN Intervals[script] ELSE 0]
  /\ count' = [a \in apps |-> 0]

\* A Receiver and a broadcasting Sender on each of the first nodes.
InstallMyApplications ==
  /\ script = "scratch"
  /\ sinks' = 0 .. LastSink
  /\ Applications({[node |-> n, to |-> sinks' \ {n}] : n \in sinks'})
  /\ recv' = [n \in sinks' |-> 0] /\ reportAt' = [n \in sinks' |-> 0]

\* A socket on each of the first nodes, and from every other node an OnOff
\* application to each of them; it sends its first packet after an interval.
InstallApplications ==
  /\ script = "examples"
  /\ sinks' = 0 .. LastSink
  /\ Applications({[node |-> client, to |-> {j}] : client \in NodeIds, j \in sinks'}
                    \ {[node |-> j, to |-> {j}] : j \in sinks'})
  /\ UNCHANGED receiverVars

SetUp ==
  /\ phase = "apps"
  /\ \/ /\ LacksNode
        /\ phase' = "crashed"
        /\ UNCHANGED <<appVars, receiverVars>>
     \/ /\ ~LacksNode
        /\ phase' = "ready"
        /\ InstallMyApplications \/ InstallApplications
  /\ UNCHANGED <<arguments, now, onWay, rowVars>>

\* Mutant: the next row is due at once.
NextSampleNow == now

NextSample == now + SampleInterval

\* Mutant: the row does not reset its counter.
RowKeeps ==
  /\ rowPackets' = rowPackets + packetsReceived
  /\ UNCHANGED <<packetsReceived, read, oldest>>

\* A row is appended to the file, and the counters start anew.
Row ==
  /\ rowPackets' = rowPackets + packetsReceived
  /\ packetsReceived' = 0
  /\ UNCHANGED <<read, oldest>>

\* CheckThroughput is called, Stop is scheduled, and the simulator runs.
Run ==
  /\ phase = "ready"
  /\ phase' = "running"
  /\ Row
  /\ sample' = NextSample
  /\ UNCHANGED <<arguments, now, appVars, onWay, receiverVars>>

-----------------------------------------------------------------------------
(* The simulation *)

\* Of all that is due at totalTime only the first CheckThroughput of the
\* simulator was scheduled before Stop.
SampleComesFirst == sample = totalTime /\ totalTime = SampleInterval

BeforeStop(at) == phase = "running" /\ at = now /\ now < totalTime

CheckThroughput ==
  /\ BeforeStop(sample) \/ (phase = "running" /\ SampleComesFirst /\ now = totalTime)
  /\ Row
  /\ sample' = NextSample
  /\ UNCHANGED <<arguments, phase, now, appVars, onWay, receiverVars>>

Stop ==
  /\ phase = "running" /\ now = totalTime /\ ~SampleComesFirst
  /\ phase' = "stopped"
  /\ UNCHANGED <<arguments, now, appVars, onWay, receiverVars, rowVars>>

\* Mutant: a packet is sent every second interval.
NextSendLate(a) == now + 2 * Intervals[script]

NextSend(a) == now + Intervals[script]

\* Sender::SendPacket stops after NumPackets; an OnOff application goes on.
SendsMore(a) == script = "examples" \/ count[a] + 1 < NumPackets

Without(f, a) == [b \in DOMAIN f \ {a} |-> f[b]]

SendPacket(a) ==
  /\ BeforeStop(sendEvent[a])
  /\ count' = [count EXCEPT ![a] = @ + 1]
  /\ sendEvent' = IF SendsMore(a) THEN [sendEvent EXCEPT ![a] = NextSend(a)]
                                  ELSE Without(sendEvent, a)
  /\ \E heard \in SUBSET a.to : \E delay \in [heard -> Delays] :
       onWay' = onWay \cup {[app |-> a, no |-> count[a], to |-> n, at |-> now + delay[n]] :
                              n \in heard}
  /\ UNCHANGED <<arguments, phase, now, sinks, receiverVars, rowVars>>

\* Receiver::Receive, or ReceivePacket of the script, reads the packet.
Receive(p) ==
  /\ BeforeStop(p.at)
  /\ onWay' = onWay \ {p}
  /\ IF script = "scratch"
     THEN recv' = [recv EXCEPT ![p.to] = @ + 1] /\ UNCHANGED rowVars
     ELSE /\ packetsReceived' = packetsReceived + 1
          /\ read' = read + 1
          /\ oldest' = IF packetsReceived = 0 THEN now ELSE oldest
          /\ UNCHANGED <<recv, sample, rowPackets>>
  /\ UNCHANGED <<arguments, phase, now, appVars, reportAt>>

\* Receiver::CheckData, at its start and from then on.
Report(n) ==
  /\ BeforeStop(reportAt[n])
  /\ recv' = [recv EXCEPT ![n] = 0]
  /\ reportAt' = [reportAt EXCEPT ![n] = now + ReportInterval]
  /\ UNCHANGED <<arguments, phase, now, appVars, onWay, rowVars>>

NextEvent ==
  Min({totalTime, sample} \cup {sendEvent[a] : a \in DOMAIN sendEvent}
        \cup {p.at : p \in onWay} \cup {reportAt[n] : n \in DOMAIN reportAt})

Advance ==
  /\ phase = "running" /\ now < NextEvent
  /\ now' = NextEvent
  /\ UNCHANGED <<arguments, phase, appVars, onWay, receiverVars, rowVars>>

Next ==
  \/ CreateNodes \/ CreateDevices \/ SetUp \/ Run
  \/ CheckThroughput \/ Stop \/ Advance
  \/ \E a \in DOMAIN sendEvent : SendPacket(a)
  \/ \E p \in onWay : Receive(p)
  \/ \E n \in DOMAIN reportAt : Report(n)

\* The program goes on, and the simulator takes the next event.
Spec == Init /\ [][Next]_vars /\ WF_vars(Next)

-----------------------------------------------------------------------------
(* Properties *)

\* Every packet the script has read is in exactly one row or waits for the next
\* one, for no longer than the interval: only what is read in the last interval
\* before Stop never gets its row.
RowsAddUp ==
  /\ rowPackets + packetsReceived = read
  /\ packetsReceived > 0 => now - oldest <= SampleInterval

\* The last packet of a Sender that starts as late as it can arrives before the
\* second report.
SendersFinish ==
  /\ NumPackets \in Nat \ {0}
  /\ "scratch" \in Scripts =>
       \A start \in Starts["scratch"], d \in Delays \cup {0} :
         start + (NumPackets - 1) * Intervals["scratch"] + d < ReportInterval

\* The Senders have started and finished before the second report, and their
\* packets have arrived: a run that stops later has all NumPackets packets of
\* every Sender, and everything that was received, in its reports.
ResultsComplete ==
  script = "scratch" /\ phase = "stopped" /\ totalTime > ReportInterval =>
    /\ \A a \in DOMAIN count : count[a] = NumPackets
    /\ onWay = {}
    /\ \A n \in sinks : recv[n] = 0

\* A run fails with no sink, or with more sinks than there are nodes, and the
\* example already with as many, and only then.
FailsOnlySinks ==
  LET fit == IF script = "scratch" THEN nSinks \in 1 .. nWifis ELSE nSinks \in 1 .. nWifis - 1
  IN  (phase = "crashed" => ~fit) /\ (phase = "ready" => fit)

\* The run is over one day, although the rows, the reports and the OnOff
\* applications go on for ever.
RunEnds == <>(phase \in {"stopped", "crashed"})
=============================================================================
