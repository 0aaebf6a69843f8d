--------------------------- MODULE TdmaExample_proofs ---------------------------
(***************************************************************************)
(* Proofs about the two simulation scripts, for any command line, network  *)
(* and times: when a run fails, and what its rows and reports say of the   *)
(* packets.                                                                *)
(***************************************************************************)
EXTENDS TdmaExample, FiniteSetTheorems, WellFoundedInduction, TLAPS

ArgumentsOK ==
  /\ script \in Scripts /\ nWifis \in NodeCounts /\ nSinks \in SinkCounts
  /\ totalTime \in TotalTimes

\* The example has asserted that there are more nodes than sinks, GetNode that
\* there is a last sink.
SetUpInv ==
  /\ phase \in {"nodes", "devices", "apps", "ready", "running", "stopped", "crashed"}
  /\ phase \in {"devices", "apps", "ready"} /\ script = "examples" => nWifis > nSinks
  /\ FailsOnlySinks

\* No event is earlier than the time of the simulator.
EventsInv ==
  /\ now \in Nat /\ sample \in Nat /\ now <= sample
  /\ phase \in {"nodes", "devices", "apps", "ready"} => now = 0
  /\ sendEvent \in [DOMAIN sendEvent -> Nat]
  /\ reportAt \in [DOMAIN reportAt -> Nat]
  /\ \A a \in DOMAIN sendEvent : now <= sendEvent[a]
  /\ \A n \in DOMAIN reportAt : now <= reportAt[n]
  /\ \A p \in onWay : p.at \in Nat /\ now <= p.at

\* A row is never further away than the interval, and what waits for it was
\* read after the last row.
RowsInv ==
  /\ sample <= now + SampleInterval
  /\ rowPackets \in Nat /\ packetsReceived \in Nat /\ oldest \in Nat
  /\ rowPackets + packetsReceived = read
  /\ packetsReceived > 0 => sample <= oldest + SampleInterval

\* What the Senders still have to send, and what is on its way, arrives before
\* the second report; after that report nothing has been received.
ReportsInv ==
  script = "scratch" =>
    /\ phase \in {"ready", "running", "stopped"} => DOMAIN reportAt = sinks
    /\ recv \in [DOMAIN reportAt -> Nat]
    /\ count \in [DOMAIN count -> Nat] /\ DOMAIN sendEvent \subseteq DOMAIN count
    /\ \A a \in DOMAIN count : a \notin DOMAIN sendEvent => count[a] = NumPackets
    /\ \A a \in DOMAIN sendEvent :
         /\ count[a] < NumPackets
         /\ \A d \in Delays \cup {0} :
              sendEvent[a] + (NumPackets - 1 - count[a]) * Intervals[script] + d
                < ReportInterval
    /\ \A p \in onWay : p.at < ReportInterval
    /\ \A n \in DOMAIN reportAt :
         \/ reportAt[n] \in {0, ReportInterval}
         \/ reportAt[n] >= ReportInterval /\ recv[n] = 0 /\ now >= ReportInterval
    /\ phase = "stopped" => now = totalTime

-----------------------------------------------------------------------------
(* Numbers *)

\* A set of numbers that is not empty has a least one.
LEMMA LeastNumber ==
  ASSUME NEW S \in SUBSET Nat, S # {}
  PROVE  Min(S) \in S /\ \A t \in S : Min(S) <= t
<1>1. PICK s \in S : \A t \in S : ~(<<t, s>> \in OpToRel(<, Nat))
  BY NatLessThanWellFounded, WFMin
<1>2. \A t \in S : ~(t < s)
  BY <1>1 DEF OpToRel
<1>3. \A t \in S : s <= t
  BY <1>2
<1> QED BY <1>3 DEF Min

\* What the unsigned difference makes of no sink is no node.
LEMMA LastSinkIs ==
  ASSUME ArgumentsOK
  PROVE  LacksNode <=> nSinks \notin 1 .. nWifis
<1>1. /\ UintSize \in Nat \ {0} /\ nSinks \in 0 .. UintSize - 1 /\ nWifis \in 0 .. UintSize - 1
  BY CountsAreUnsigned DEF ArgumentsOK
<1>2. ASSUME NEW k \in 0 .. UintSize - 1 PROVE k % UintSize = k
  BY <1>1
<1>3. CASE nSinks = 0
  <2>1. (0 - 1) % UintSize = UintSize - 1
    BY <1>1
  <2> QED BY <1>1, <1>3, <2>1 DEF LacksNode, LastSink, NodeIds
<1>4. CASE nSinks # 0
  <2>1. nSinks - 1 \in 0 .. UintSize - 1
    BY <1>1, <1>4
  <2>2. LastSink = nSinks - 1
    BY <1>2, <2>1 DEF LastSink
  <2> QED BY <1>1, <1>4, <2>2 DEF LacksNode, NodeIds
<1> QED BY <1>3, <1>4

-----------------------------------------------------------------------------
(* Setting up *)

LEMMA ArgumentsStay ==
  ASSUME ArgumentsOK, [Next]_vars
  PROVE  ArgumentsOK' /\ UNCHANGED arguments
<1>1. UNCHANGED arguments
  BY DEF Next, vars, CreateNodes, CreateDevices, SetUp, Run, CheckThroughput, Stop, Advance,
         SendPacket, Receive, Report
<1> QED BY <1>1 DEF ArgumentsOK, arguments

\* Sinks that are too many, or none.
LEMMA SetUpStep ==
  ASSUME ArgumentsOK, SetUpInv, [Next]_vars
  PROVE  SetUpInv'
<1>1. /\ UNCHANGED arguments
      /\ UNCHANGED <<script, nWifis, nSinks, totalTime>>
  BY ArgumentsStay DEF arguments
<1>2. nSinks \in Nat /\ nWifis \in Nat /\ script \in {"scratch", "examples"}
  BY CountsAreUnsigned, ScriptsAreTwo DEF ArgumentsOK
<1>3. ASSUME phase' = phase PROVE SetUpInv'
  BY <1>1, <1>3 DEF SetUpInv, FailsOnlySinks
<1>4. CASE CreateNodes
  <2>1. CASE script = "examples" /\ ~(nWifis > nSinks)
    <3>1. phase' = "crashed"
      BY <1>4, <2>1 DEF CreateNodes
    <3> QED BY <1>1, <1>2, <2>1, <3>1 DEF SetUpInv, FailsOnlySinks
  <2>2. CASE ~(script = "examples" /\ ~(nWifis > nSinks))
    <3>1. phase' = "devices"
      BY <1>4, <2>2 DEF CreateNodes
    <3> QED BY <1>1, <1>2, <2>2, <3>1 DEF SetUpInv, FailsOnlySinks
  <2> QED BY <2>1, <2>2
<1>5. CASE CreateDevices
  <2>1. phase = "devices" /\ phase' = "apps"
    BY <1>5 DEF CreateDevices
  <2> QED BY <1>1, <1>2, <2>1 DEF SetUpInv, FailsOnlySinks
<1>6. CASE SetUp
  <2>1. phase = "apps"
    BY <1>6 DEF SetUp
  <2>2. CASE LacksNode
    <3>1. phase' = "crashed"
      BY <1>6, <2>2 DEF SetUp
    <3>2. nSinks \notin 1 .. nWifis
      BY <2>2, LastSinkIs
    <3> QED BY <1>1, <1>2, <2>1, <3>1, <3>2 DEF SetUpInv, FailsOnlySinks
  <2>3. CASE ~LacksNode
    <3>1. phase' = "ready"
      BY <1>6, <2>3 DEF SetUp
    <3>2. nSinks \in 1 .. nWifis
      BY <2>3, LastSinkIs
    <3> QED BY <1>1, <1>2, <2>1, <3>1, <3>2 DEF SetUpInv, FailsOnlySinks
  <2> QED BY <2>2, <2>3
<1>7. CASE Run
  <2>1. phase = "ready" /\ phase' = "running"
    BY <1>7 DEF Run
  <2> QED BY <1>1, <1>2, <2>1 DEF SetUpInv, FailsOnlySinks
<1>8. CASE Stop
  <2>1. phase' = "stopped"
    BY <1>8 DEF Stop
  <2> QED BY <1>1, <2>1 DEF SetUpInv, FailsOnlySinks
<1>9. CASE CheckThroughput
  BY <1>3, <1>9 DEF CheckThroughput
<1>10. CASE Advance
  BY <1>3, <1>10 DEF Advance
<1>11. ASSUME NEW a \in DOMAIN sendEvent, SendPacket(a) PROVE SetUpInv'
  BY <1>3, <1>11 DEF SendPacket
<1>12. ASSUME NEW p \in onWay, Receive(p) PROVE SetUpInv'
  BY <1>3, <1>12 DEF Receive
<1>13. ASSUME NEW n \in DOMAIN reportAt, Report(n) PROVE SetUpInv'
  BY <1>3, <1>13 DEF Report
<1>14. CASE UNCHANGED vars
  BY <1>3, <1>14 DEF vars
<1> QED BY <1>4, <1>5, <1>6, <1>7, <1>8, <1>9, <1>10, <1>11, <1>12, <1>13, <1>14 DEF Next

LEMMA InitSetUp ==
  ASSUME Init
  PROVE  ArgumentsOK /\ SetUpInv
BY DEF Init, ArgumentsOK, SetUpInv, FailsOnlySinks

\* A run fails with no sink or with too many, and with no other numbers: with no
\* sink the loops run to 2^32 - 1, and GetNode asserts (CaseRun of both scripts).
THEOREM FailsForSinks == Spec => []FailsOnlySinks
<1>1. Init => ArgumentsOK /\ SetUpInv
  BY InitSetUp
<1>2. ArgumentsOK /\ SetUpInv /\ [Next]_vars => ArgumentsOK' /\ SetUpInv'
  BY ArgumentsStay, SetUpStep
<1>3. SetUpInv => FailsOnlySinks
  BY DEF SetUpInv
<1> QED BY <1>1, <1>2, <1>3, PTL DEF Spec

-----------------------------------------------------------------------------
(* Events *)

\* What the constants of the script are.
LEMMA TimesOfScript ==
  ASSUME ArgumentsOK
  PROVE  /\ totalTime \in Nat \ {0} /\ SampleInterval \in Nat \ {0}
         /\ ReportInterval \in Nat \ {0}
         /\ Starts[script] \subseteq Nat /\ Intervals[script] \in Nat \ {0}
<1>1. /\ TotalTimes \cup {ReportInterval, SampleInterval} \subseteq Nat \ {0}
      /\ Starts \in [Scripts -> SUBSET Nat] /\ Intervals \in [Scripts -> Nat \ {0}]
  BY TimesPass
<1> QED BY <1>1 DEF ArgumentsOK

LEMMA NextEventIsLeast ==
  ASSUME ArgumentsOK, EventsInv
  PROVE  /\ NextEvent \in Nat /\ NextEvent <= totalTime /\ NextEvent <= sample
         /\ \A a \in DOMAIN sendEvent : NextEvent <= sendEvent[a]
         /\ \A n \in DOMAIN reportAt : NextEvent <= reportAt[n]
         /\ \A p \in onWay : NextEvent <= p.at
<1> DEFINE S == {totalTime, sample} \cup {sendEvent[a] : a \in DOMAIN sendEvent}
                  \cup {p.at : p \in onWay} \cup {reportAt[n] : n \in DOMAIN reportAt}
<1>1. S \in SUBSET Nat /\ S # {}
  BY TimesOfScript DEF EventsInv
<1>2. /\ totalTime \in S /\ sample \in S
      /\ \A a \in DOMAIN sendEvent : sendEvent[a] \in S
      /\ \A n \in DOMAIN reportAt : reportAt[n] \in S
      /\ \A p \in onWay : p.at \in S
  OBVIOUS
<1>3. NextEvent = Min(S)
  BY DEF NextEvent
<1> HIDE DEF S
<1>4. Min(S) \in S /\ \A t \in S : Min(S) <= t
  BY <1>1, LeastNumber
<1> QED BY <1>1, <1>2, <1>3, <1>4

\* The applications of a script begin at one of its start times.
LEMMA ApplicationsBegin ==
  ASSUME ArgumentsOK, NEW apps, Applications(apps)
  PROVE  /\ sendEvent' \in [apps -> Nat] /\ count' = [a \in apps |-> 0]
         /\ script = "scratch" => \A a \in apps : sendEvent'[a] \in Starts[script]
<1>1. PICK start \in [apps -> Starts[script]] :
        sendEvent' = [a \in apps |->
          start[a] + IF script = "examples" THEN Intervals[script] ELSE 0]
  BY DEF Applications
<1>2. \A a \in apps : start[a] \in Starts[script] /\ start[a] \in Nat
  BY TimesOfScript
<1>3. Intervals[script] \in Nat
  BY TimesOfScript
<1>4. sendEvent' \in [apps -> Nat]
  BY <1>1, <1>2, <1>3
<1>5. script = "scratch" => \A a \in apps : sendEvent'[a] = start[a]
  BY <1>1, <1>2
<1> QED BY <1>2, <1>4, <1>5 DEF Applications

LEMMA InitEvents ==
  ASSUME Init
  PROVE  EventsInv
BY DEF Init, EventsInv, Nobody

\* Advance goes no further than the next event, and no event is scheduled for
\* a time that has passed.
LEMMA EventsStep ==
  ASSUME ArgumentsOK, EventsInv, [Next]_vars
  PROVE  EventsInv'
<1>1. /\ totalTime \in Nat \ {0} /\ SampleInterval \in Nat \ {0}
      /\ ReportInterval \in Nat \ {0} /\ Intervals[script] \in Nat \ {0}
  BY TimesOfScript
<1>2. /\ now \in Nat /\ sample \in Nat /\ now <= sample
      /\ sendEvent \in [DOMAIN sendEvent -> Nat] /\ reportAt \in [DOMAIN reportAt -> Nat]
  BY DEF EventsInv
<1>3. ASSUME UNCHANGED <<now, sendEvent, onWay, reportAt>>,
             sample' \in {sample, now + SampleInterval},
             phase' = phase \/ phase' \in {"crashed", "running", "stopped"} \/ now = 0
      PROVE  EventsInv'
  BY <1>1, <1>2, <1>3 DEF EventsInv
<1>4. CASE CreateNodes \/ CreateDevices \/ Stop
  <2>1. phase \in {"nodes", "devices"} => now = 0
    BY DEF EventsInv
  <2> QED BY <1>3, <1>4, <2>1
           DEF CreateNodes, CreateDevices, Stop, appVars, receiverVars, rowVars
<1>5. CASE Run \/ CheckThroughput
  BY <1>3, <1>5 DEF Run, CheckThroughput, NextSample, appVars, receiverVars
<1>6. CASE SetUp
  <2>1. now = 0 /\ phase = "apps" /\ UNCHANGED <<now, onWay, sample>>
    BY <1>6 DEF SetUp, EventsInv, rowVars
  <2>2. CASE LacksNode
    BY <1>3, <1>6, <2>1, <2>2 DEF SetUp, appVars, receiverVars
  <2>3. CASE ~LacksNode
    <3>1. PICK apps : Applications(apps)
      BY <1>6, <2>3 DEF SetUp, InstallMyApplications, InstallApplications
    <3>2. sendEvent' \in [apps -> Nat]
      BY <3>1, ApplicationsBegin
    <3>3. reportAt' = [n \in sinks' |-> 0] \/ reportAt' = reportAt
      BY <1>6, <2>3 DEF SetUp, InstallMyApplications, InstallApplications, receiverVars
    <3>4. reportAt' \in [DOMAIN reportAt' -> Nat]
      BY <1>2, <3>3
    <3>5. \A a \in DOMAIN sendEvent' : now' <= sendEvent'[a]
      BY <2>1, <3>2
    <3>6. \A n \in DOMAIN reportAt' : now' <= reportAt'[n]
      BY <2>1, <3>4
    <3> QED BY <2>1, <3>2, <3>4, <3>5, <3>6 DEF EventsInv
  <2> QED BY <2>2, <2>3
<1>7. CASE Advance
  <2>1. now' = NextEvent /\ phase = "running" /\ phase' = phase
        /\ UNCHANGED <<sendEvent, onWay, reportAt, sample>>
    BY <1>7 DEF Advance, appVars, receiverVars, rowVars
  <2> QED BY <2>1, NextEventIsLeast DEF EventsInv
<1>8. ASSUME NEW a \in DOMAIN sendEvent, SendPacket(a)
      PROVE  EventsInv'
  <2>1. UNCHANGED <<now, phase, sample, reportAt>>
    BY <1>8 DEF SendPacket, receiverVars, rowVars
  <2>2. sendEvent' = [sendEvent EXCEPT ![a] = now + Intervals[script]]
          \/ sendEvent' = [b \in DOMAIN sendEvent \ {a} |-> sendEvent[b]]
    BY <1>8 DEF SendPacket, NextSend, Without
  <2>3. /\ sendEvent' \in [DOMAIN sendEvent' -> Nat]
        /\ \A b \in DOMAIN sendEvent' : now <= sendEvent'[b]
    BY <1>1, <1>2, <2>2 DEF EventsInv
  <2>4. PICK heard \in SUBSET a.to : \E delay \in [heard -> Delays] :
          onWay' = onWay \cup {[app |-> a, no |-> count[a], to |-> n, at |-> now + delay[n]] :
                                 n \in heard}
    BY <1>8 DEF SendPacket
  <2>5. PICK delay \in [heard -> Delays] :
          onWay' = onWay \cup {[app |-> a, no |-> count[a], to |-> n, at |-> now + delay[n]] :
                                 n \in heard}
    BY <2>4
  <2>6. \A n \in heard : delay[n] \in Nat
    BY TimesPass
  <2>7. \A p \in onWay' : p.at \in Nat /\ now <= p.at
    <3> SUFFICES ASSUME NEW p \in onWay', p \notin onWay
                 PROVE  p.at \in Nat /\ now <= p.at
      BY DEF EventsInv
    <3>1. PICK n \in heard : p = [app |-> a, no |-> count[a], to |-> n, at |-> now + delay[n]]
      BY <2>5
    <3>2. p.at = now + delay[n]
      BY <3>1
    <3> QED BY <1>2, <2>6, <3>2
  <2> QED BY <1>2, <2>1, <2>3, <2>7 DEF EventsInv
<1>9. ASSUME NEW p \in onWay, Receive(p)
      PROVE  EventsInv'
  <2>1. UNCHANGED <<now, phase, sample, sendEvent, reportAt>> /\ onWay' = onWay \ {p}
    BY <1>9 DEF Receive, appVars, rowVars
  <2> QED BY <2>1 DEF EventsInv
<1>10. ASSUME NEW n \in DOMAIN reportAt, Report(n)
       PROVE  EventsInv'
  <2>1. /\ UNCHANGED <<now, phase, sample, sendEvent, onWay>>
        /\ reportAt' = [reportAt EXCEPT ![n] = now + ReportInterval]
    BY <1>10 DEF Report, appVars, rowVars
  <2>2. /\ reportAt' \in [DOMAIN reportAt' -> Nat]
        /\ \A m \in DOMAIN reportAt' : now <= reportAt'[m]
    BY <1>1, <1>2, <2>1 DEF EventsInv
  <2> QED BY <2>1, <2>2 DEF EventsInv
<1>11. CASE UNCHANGED vars
  BY <1>3, <1>11 DEF vars, appVars, receiverVars, rowVars
<1> QED BY <1>4, <1>5, <1>6, <1>7, <1>8, <1>9, <1>10, <1>11 DEF Next

-----------------------------------------------------------------------------
(* Rows *)

LEMMA InitRows ==
  ASSUME Init
  PROVE  RowsInv
BY TimesPass DEF Init, RowsInv

LEMMA RowsStep ==
  ASSUME ArgumentsOK, EventsInv, RowsInv, [Next]_vars
  PROVE  RowsInv'
<1>1. now \in Nat /\ sample \in Nat /\ SampleInterval \in Nat
  BY TimesOfScript DEF EventsInv
<1>2. /\ sample <= now + SampleInterval
      /\ rowPackets \in Nat /\ packetsReceived \in Nat /\ oldest \in Nat
      /\ rowPackets + packetsReceived = read
      /\ packetsReceived > 0 => sample <= oldest + SampleInterval
  BY DEF RowsInv
<1>3. ASSUME UNCHANGED <<now, rowVars>> PROVE RowsInv'
  BY <1>3 DEF RowsInv, rowVars
<1>4. CASE CreateNodes \/ CreateDevices \/ SetUp \/ Stop
  BY <1>3, <1>4 DEF CreateNodes, CreateDevices, SetUp, Stop
<1>5. CASE Run \/ CheckThroughput
  <2>1. /\ rowPackets' = rowPackets + packetsReceived /\ packetsReceived' = 0
        /\ sample' = now + SampleInterval /\ UNCHANGED <<now, read, oldest>>
    BY <1>5 DEF Run, CheckThroughput, Row, NextSample
  <2> QED BY <1>1, <1>2, <2>1 DEF RowsInv
<1>6. CASE Advance
  <2>1. UNCHANGED rowVars /\ now' = NextEvent /\ now < NextEvent
    BY <1>6 DEF Advance
  <2>2. NextEvent \in Nat
    BY NextEventIsLeast
  <2> QED BY <1>1, <1>2, <2>1, <2>2 DEF RowsInv, rowVars
<1>7. ASSUME NEW a \in DOMAIN sendEvent, SendPacket(a) PROVE RowsInv'
  BY <1>3, <1>7 DEF SendPacket
<1>8. ASSUME NEW p \in onWay, Receive(p) PROVE RowsInv'
  <2>1. CASE script = "scratch"
    BY <1>3, <1>8, <2>1 DEF Receive
  <2>2. CASE script # "scratch"
    <3>1. /\ packetsReceived' = packetsReceived + 1 /\ read' = read + 1
          /\ oldest' = IF packetsReceived = 0 THEN now ELSE oldest
          /\ UNCHANGED <<now, sample, rowPackets>>
      BY <1>8, <2>2 DEF Receive
    <3> QED BY <1>1, <1>2, <3>1 DEF RowsInv
  <2> QED BY <2>1, <2>2
<1>9. ASSUME NEW n \in DOMAIN reportAt, Report(n) PROVE RowsInv'
  BY <1>3, <1>9 DEF Report
<1>10. CASE UNCHANGED vars
  BY <1>3, <1>10 DEF vars
<1> QED BY <1>4, <1>5, <1>6, <1>7, <1>8, <1>9, <1>10 DEF Next

\* What ReceivePacket has counted is in one row, or CheckThroughput comes for it
\* before it is older than the interval.
THEOREM RowsHoldAll == Spec => []RowsAddUp
<1>1. Init => ArgumentsOK /\ EventsInv /\ RowsInv
  BY InitSetUp, InitEvents, InitRows
<1>2. ArgumentsOK /\ EventsInv /\ RowsInv /\ [Next]_vars
        => ArgumentsOK' /\ EventsInv' /\ RowsInv'
  BY ArgumentsStay, EventsStep, RowsStep
<1>3. ArgumentsOK /\ EventsInv /\ RowsInv => RowsAddUp
  <2> SUFFICES ASSUME ArgumentsOK, EventsInv, RowsInv PROVE RowsAddUp
    OBVIOUS
  <2>1. now \in Nat /\ sample \in Nat /\ SampleInterval \in Nat /\ oldest \in Nat
    BY TimesOfScript DEF EventsInv, RowsInv
  <2> QED BY <2>1 DEF EventsInv, RowsInv, RowsAddUp
<1> QED BY <1>1, <1>2, <1>3, PTL DEF Spec

-----------------------------------------------------------------------------
(* Reports *)

\* A Sender that goes on has an interval less to go.
LEMMA OneLess ==
  ASSUME NEW n \in Int, NEW c \in Nat, NEW i \in Nat
  PROVE  /\ (n - 1 - c) * i = (n - 1 - (c + 1)) * i + i
         /\ c < n => (n - 1 - c) * i \in Nat
<1>1. (n - 1 - c) * i = (n - 1 - (c + 1)) * i + i
  OBVIOUS
<1>2. ASSUME c < n PROVE (n - 1 - c) * i \in Nat
  <2>1. n - 1 - c \in Nat
    BY <1>2
  <2>2. \A k, j \in Nat : k * j \in Nat
    OBVIOUS
  <2> QED BY <2>1, <2>2
<1> QED BY <1>1, <1>2

LEMMA InitReports ==
  ASSUME Init
  PROVE  ReportsInv
BY DEF Init, ReportsInv, Nobody

\* The Senders' events, and the packets they send.
LEMMA SendingStep ==
  ASSUME ArgumentsOK, EventsInv, ReportsInv, SendersFinish,
         NEW a \in DOMAIN sendEvent, SendPacket(a)
  PROVE  ReportsInv'
<1> SUFFICES ASSUME script = "scratch" PROVE ReportsInv'
  BY DEF ReportsInv, SendPacket, arguments
<1>1. /\ UNCHANGED <<script, totalTime, phase, now, sinks, recv, reportAt>>
      /\ a \in DOMAIN count /\ count \in [DOMAIN count -> Nat] /\ now \in Nat
      /\ sendEvent[a] = now /\ count[a] < NumPackets /\ NumPackets \in Nat \ {0}
      /\ Intervals[script] \in Nat /\ ReportInterval \in Nat
  BY TimesOfScript DEF SendPacket, BeforeStop, arguments, receiverVars, ReportsInv, EventsInv,
                       SendersFinish
<1>2. count' = [count EXCEPT ![a] = @ + 1]
  BY DEF SendPacket
<1>3. count[a] \in Nat /\ count'[a] = count[a] + 1 /\ DOMAIN count' = DOMAIN count
      /\ count' \in [DOMAIN count' -> Nat]
      /\ \A b \in DOMAIN count : b # a => count'[b] = count[b]
  BY <1>1, <1>2
<1> DEFINE left == (NumPackets - 1 - count[a]) * Intervals[script]
<1>4. left \in Nat /\ left = (NumPackets - 1 - (count[a] + 1)) * Intervals[script] + Intervals[script]
  <2>1. NumPackets \in Int
    BY <1>1
  <2> QED BY <1>1, <1>3, <2>1, OneLess
<1>5. \A d \in Delays \cup {0} : d \in Nat /\ now + left + d < ReportInterval
  BY <1>1, TimesPass DEF ReportsInv
<1> HIDE DEF left
\* What has been sent arrives in time.
<1>6. \A p \in onWay' : p.at < ReportInterval
  <2>1. PICK heard \in SUBSET a.to : \E delay \in [heard -> Delays] :
          onWay' = onWay \cup {[app |-> a, no |-> count[a], to |-> n, at |-> now + delay[n]] :
                                 n \in heard}
    BY DEF SendPacket
  <2>2. PICK delay \in [heard -> Delays] :
          onWay' = onWay \cup {[app |-> a, no |-> count[a], to |-> n, at |-> now + delay[n]] :
                                 n \in heard}
    BY <2>1
  <2> SUFFICES ASSUME NEW p \in onWay', p \notin onWay PROVE p.at < ReportInterval
    BY DEF ReportsInv
  <2>3. PICK n \in heard : p = [app |-> a, no |-> count[a], to |-> n, at |-> now + delay[n]]
    BY <2>2
  <2>4. p.at = now + delay[n] /\ delay[n] \in Delays
    BY <2>3
  <2> QED BY <1>1, <1>4, <1>5, <2>4
\* What is still to be sent.
<1>7. /\ DOMAIN sendEvent' \subseteq DOMAIN count
      /\ \A b \in DOMAIN count : b \notin DOMAIN sendEvent' => count'[b] = NumPackets
      /\ \A b \in DOMAIN sendEvent' :
           /\ count'[b] < NumPackets
           /\ \A d \in Delays \cup {0} :
                sendEvent'[b] + (NumPackets - 1 - count'[b]) * Intervals[script] + d
                  < ReportInterval
  <2>1. CASE SendsMore(a)
    <3>1. sendEvent' = [sendEvent EXCEPT ![a] = now + Intervals[script]]
      BY <2>1 DEF SendPacket, NextSend
    <3>2. count'[a] < NumPackets
      BY <1>1, <1>3, <2>1 DEF SendsMore
    <3>3. /\ DOMAIN sendEvent' = DOMAIN sendEvent /\ sendEvent'[a] = now + Intervals[script]
          /\ \A b \in DOMAIN sendEvent : b # a => sendEvent'[b] = sendEvent[b]
      BY <3>1 DEF EventsInv
    <3>4. \A d \in Delays \cup {0} :
            sendEvent'[a] + (NumPackets - 1 - count'[a]) * Intervals[script] + d < ReportInterval
      <4> SUFFICES ASSUME NEW d \in Delays \cup {0}
                   PROVE  sendEvent'[a] + (NumPackets - 1 - count'[a]) * Intervals[script] + d
                            < ReportInterval
        OBVIOUS
      <4> DEFINE rest == (NumPackets - 1 - (count[a] + 1)) * Intervals[script]
      <4>1. rest \in Int /\ left = rest + Intervals[script]
        BY <1>1, <1>3, <1>4
      <4>2. now + Intervals[script] + rest + d < ReportInterval
        <5> HIDE DEF rest
        <5> QED BY <1>1, <1>5, <4>1
      <4> QED BY <1>3, <3>3, <4>2
    <3> QED BY <1>3, <3>2, <3>3, <3>4 DEF ReportsInv
  <2>2. CASE ~SendsMore(a)
    <3>1. sendEvent' = [b \in DOMAIN sendEvent \ {a} |-> sendEvent[b]]
      BY <2>2 DEF SendPacket, Without
    <3>2. count'[a] = NumPackets
      BY <1>1, <1>3, <2>2 DEF SendsMore
    <3>3. /\ DOMAIN sendEvent' = DOMAIN sendEvent \ {a}
          /\ \A b \in DOMAIN sendEvent' : sendEvent'[b] = sendEvent[b]
      BY <3>1
    <3> QED BY <1>3, <3>2, <3>3 DEF ReportsInv
  <2> QED BY <2>1, <2>2
<1> QED BY <1>1, <1>3, <1>6, <1>7 DEF ReportsInv

\* A Receiver has a packet more, at a time before the second report.
LEMMA ReceivingStep ==
  ASSUME ArgumentsOK, EventsInv, ReportsInv, NEW p \in onWay, Receive(p)
  PROVE  ReportsInv'
<1> SUFFICES ASSUME script = "scratch" PROVE ReportsInv'
  BY DEF ReportsInv, Receive, arguments
<1>1. /\ UNCHANGED <<script, totalTime, phase, now, sinks, sendEvent, count, reportAt>>
      /\ onWay' = onWay \ {p} /\ recv' = [recv EXCEPT ![p.to] = @ + 1]
      /\ p.at = now /\ now < ReportInterval /\ now \in Nat /\ ReportInterval \in Nat
  BY TimesOfScript DEF Receive, BeforeStop, arguments, appVars, ReportsInv, EventsInv
<1>2. recv' \in [DOMAIN reportAt -> Nat]
  <2>1. recv \in [DOMAIN reportAt -> Nat]
    BY DEF ReportsInv
  <2>2. recv' = [n \in DOMAIN reportAt |-> IF n = p.to THEN recv[p.to] + 1 ELSE recv[n]]
    BY <1>1, <2>1
  <2>3. \A n \in DOMAIN reportAt : recv[n] \in Nat
    BY <2>1
  <2>4. \A n \in DOMAIN reportAt : (IF n = p.to THEN recv[p.to] + 1 ELSE recv[n]) \in Nat
    BY <2>3
  <2> QED BY <2>2, <2>4
<1>3. \A n \in DOMAIN reportAt : reportAt[n] \in {0, ReportInterval}
  <2>1. ~(now >= ReportInterval)
    BY <1>1
  <2> QED BY <2>1, Zenon DEF ReportsInv
<1> QED BY <1>1, <1>2, <1>3 DEF ReportsInv

\* A report after the first one comes when nothing is received any more.
LEMMA ReportingStep ==
  ASSUME ArgumentsOK, EventsInv, ReportsInv, NEW n \in DOMAIN reportAt, Report(n)
  PROVE  ReportsInv'
<1> SUFFICES ASSUME script = "scratch" PROVE ReportsInv'
  BY DEF ReportsInv, Report, arguments
<1>1. /\ UNCHANGED <<script, totalTime, phase, now, sinks, sendEvent, count, onWay>>
      /\ recv' = [recv EXCEPT ![n] = 0]
      /\ reportAt' = [reportAt EXCEPT ![n] = now + ReportInterval]
      /\ reportAt[n] = now /\ now \in Nat /\ ReportInterval \in Nat
  BY TimesOfScript DEF Report, BeforeStop, arguments, appVars, EventsInv
<1>2. /\ recv \in [DOMAIN reportAt -> Nat] /\ reportAt \in [DOMAIN reportAt -> Nat]
  BY DEF ReportsInv, EventsInv
<1>3. /\ DOMAIN reportAt' = DOMAIN reportAt /\ recv' \in [DOMAIN reportAt -> Nat]
      /\ recv'[n] = 0 /\ reportAt'[n] = now + ReportInterval
      /\ \A m \in DOMAIN reportAt : m # n => recv'[m] = recv[m] /\ reportAt'[m] = reportAt[m]
  BY <1>1, <1>2
<1>4. now = 0 \/ now >= ReportInterval
  BY <1>1 DEF ReportsInv
<1>5. \A m \in DOMAIN reportAt :
        \/ reportAt'[m] \in {0, ReportInterval}
        \/ reportAt'[m] >= ReportInterval /\ recv'[m] = 0 /\ now >= ReportInterval
  <2> SUFFICES ASSUME NEW m \in DOMAIN reportAt
               PROVE  \/ reportAt'[m] \in {0, ReportInterval}
                      \/ reportAt'[m] >= ReportInterval /\ recv'[m] = 0 /\ now >= ReportInterval
    OBVIOUS
  <2>1. CASE m # n
    BY <1>3, <2>1 DEF ReportsInv
  <2>2. CASE m = n
    BY <1>1, <1>3, <1>4, <2>2
  <2> QED BY <2>1, <2>2
<1> QED BY <1>1, <1>3, <1>5 DEF ReportsInv

\* The Senders and Receivers as they are installed.
LEMMA InstallingStep ==
  ASSUME ArgumentsOK, EventsInv, ReportsInv, SendersFinish, SetUp
  PROVE  ReportsInv'
<1> SUFFICES ASSUME script = "scratch" PROVE ReportsInv'
  BY DEF ReportsInv, SetUp, arguments
<1>1. UNCHANGED <<script, totalTime, now, onWay>> /\ phase = "apps"
  BY DEF SetUp, arguments
<1>2. CASE LacksNode
  <2>1. UNCHANGED <<sinks, sendEvent, count, recv, reportAt>> /\ phase' = "crashed"
    BY <1>2 DEF SetUp, appVars, receiverVars
  <2> QED BY <1>1, <2>1 DEF ReportsInv
<1>3. CASE ~LacksNode
  <2>1. /\ phase' = "ready" /\ InstallMyApplications
    BY <1>3 DEF SetUp, InstallApplications
  <2>2. PICK apps : Applications(apps)
    BY <2>1 DEF InstallMyApplications
  <2>3. /\ sendEvent' \in [apps -> Nat] /\ count' = [a \in apps |-> 0]
        /\ \A a \in apps : sendEvent'[a] \in Starts[script]
    BY <2>2, ApplicationsBegin
  <2>4. /\ recv' = [n \in sinks' |-> 0] /\ reportAt' = [n \in sinks' |-> 0]
    BY <2>1 DEF InstallMyApplications
  <2>5. \A start \in Starts[script], d \in Delays \cup {0} :
          start + (NumPackets - 1) * Intervals[script] + d < ReportInterval
    BY DEF SendersFinish, ArgumentsOK
  <2>6. NumPackets \in Nat \ {0} /\ NumPackets - 1 - 0 = NumPackets - 1
    BY DEF SendersFinish
  <2>7. \A a \in apps : count'[a] = 0 /\ 0 < NumPackets
    BY <2>3, <2>6
  <2>8. \A a \in DOMAIN sendEvent' :
          /\ count'[a] < NumPackets
          /\ \A d \in Delays \cup {0} :
               sendEvent'[a] + (NumPackets - 1 - count'[a]) * Intervals[script] + d
                 < ReportInterval
    BY <2>3, <2>5, <2>6, <2>7
  <2>9. /\ DOMAIN reportAt' = sinks' /\ recv' \in [DOMAIN reportAt' -> Nat]
        /\ \A n \in DOMAIN reportAt' : reportAt'[n] = 0
    BY <2>4
  <2>10. /\ count' \in [DOMAIN count' -> Nat] /\ DOMAIN sendEvent' \subseteq DOMAIN count'
         /\ \A a \in DOMAIN count' : a \in DOMAIN sendEvent'
    BY <2>3
  <2> QED BY <1>1, <2>1, <2>8, <2>9, <2>10 DEF ReportsInv
<1> QED BY <1>2, <1>3

LEMMA ReportsStep ==
  ASSUME ArgumentsOK, EventsInv, ReportsInv, SendersFinish, [Next]_vars
  PROVE  ReportsInv'
<1>1. now \in Nat /\ ReportInterval \in Nat /\ UNCHANGED <<script, totalTime>>
  BY TimesOfScript, ArgumentsStay DEF EventsInv, arguments
<1>2. ASSUME UNCHANGED <<appVars, receiverVars, onWay>>,
             now' = now \/ (now' \in Nat /\ now <= now'),
             phase' \in {"ready", "running", "stopped"} => phase \in {"ready", "running", "stopped"},
             phase' = "stopped" => now' = totalTime
      PROVE  ReportsInv'
  BY <1>1, <1>2 DEF ReportsInv, appVars, receiverVars
<1>3. CASE CreateNodes \/ CreateDevices \/ Run \/ Stop
  <2>1. UNCHANGED <<appVars, receiverVars, onWay, now>>
    BY <1>3 DEF CreateNodes, CreateDevices, Run, Stop
  <2>2. /\ phase' \in {"ready", "running", "stopped"} => phase \in {"ready", "running", "stopped"}
        /\ phase' = "stopped" => now' = totalTime
    BY <1>3 DEF CreateNodes, CreateDevices, Run, Stop
  <2> QED BY <1>2, <2>1, <2>2
<1>4. CASE CheckThroughput
  <2>1. UNCHANGED <<appVars, receiverVars, onWay, now>> /\ phase' = "running" /\ phase = "running"
    BY <1>4 DEF CheckThroughput, BeforeStop
  <2> QED BY <1>2, <2>1
<1>5. CASE Advance
  <2>1. /\ UNCHANGED <<appVars, receiverVars, onWay>> /\ phase' = "running" /\ phase = "running"
        /\ now' = NextEvent /\ now < NextEvent
    BY <1>5 DEF Advance
  <2>2. now' \in Nat /\ now <= now'
    BY <1>1, <2>1, NextEventIsLeast
  <2> QED BY <1>2, <2>1, <2>2
<1>6. CASE SetUp
  BY <1>6, InstallingStep
<1>7. ASSUME NEW a \in DOMAIN sendEvent, SendPacket(a) PROVE ReportsInv'
  BY <1>7, SendingStep
<1>8. ASSUME NEW p \in onWay, Receive(p) PROVE ReportsInv'
  BY <1>8, ReceivingStep
<1>9. ASSUME NEW n \in DOMAIN reportAt, Report(n) PROVE ReportsInv'
  BY <1>9, ReportingStep
<1>10. CASE UNCHANGED vars
  BY <1>10 DEF vars, arguments, appVars, receiverVars, ReportsInv
<1> QED BY <1>3, <1>4, <1>5, <1>6, <1>7, <1>8, <1>9, <1>10 DEF Next

\* If the last packet of a Sender that starts as late as it can arrives before
\* the second CheckData, then a run that stops after it has sent every packet
\* (Sender::SendPacket) and has what was received in its reports.
THEOREM ReportsHoldAll ==
  ASSUME SendersFinish
  PROVE  Spec => []ResultsComplete
<1>1. Init => ArgumentsOK /\ EventsInv /\ ReportsInv
  BY InitSetUp, InitEvents, InitReports
<1>2. ArgumentsOK /\ EventsInv /\ ReportsInv /\ [Next]_vars
        => ArgumentsOK' /\ EventsInv' /\ ReportsInv'
  BY ArgumentsStay, EventsStep, ReportsStep
<1>3. ArgumentsOK /\ EventsInv /\ ReportsInv => ResultsComplete
  <2> SUFFICES ASSUME ArgumentsOK, EventsInv, ReportsInv,
                      script = "scratch", phase = "stopped", totalTime > ReportInterval
               PROVE  /\ \A a \in DOMAIN count : count[a] = NumPackets
                      /\ onWay = {}
                      /\ \A n \in sinks : recv[n] = 0
    BY DEF ResultsComplete
  <2>1. now = totalTime /\ now \in Nat /\ ReportInterval \in Nat \ {0} /\ now > ReportInterval
    BY TimesOfScript DEF ReportsInv, EventsInv
  <2>2. onWay = {}
    BY <2>1 DEF ReportsInv, EventsInv
  <2>3. \A a \in DOMAIN count : count[a] = NumPackets
    <3> SUFFICES ASSUME NEW a \in DOMAIN sendEvent PROVE FALSE
      BY DEF ReportsInv
    <3>1. /\ sendEvent[a] \in Nat /\ now <= sendEvent[a]
          /\ count[a] \in Nat /\ count[a] < NumPackets /\ NumPackets \in Int
      BY DEF EventsInv, ReportsInv, SendersFinish
    <3> DEFINE left == (NumPackets - 1 - count[a]) * Intervals[script]
    <3>2. left \in Nat
      BY <3>1, OneLess, TimesOfScript
    <3>3. sendEvent[a] + left + 0 < ReportInterval
      BY DEF ReportsInv
    <3> HIDE DEF left
    <3> QED BY <2>1, <3>1, <3>2, <3>3
  <2>4. \A n \in sinks : recv[n] = 0
    BY <2>1 DEF ReportsInv, EventsInv
  <2> QED BY <2>2, <2>3, <2>4
<1> QED BY <1>1, <1>2, <1>3, PTL DEF Spec
=============================================================================
