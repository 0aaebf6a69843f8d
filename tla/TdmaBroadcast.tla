---------------------------- MODULE TdmaBroadcast ----------------------------
(***************************************************************************)
(* The broadcast of data packets through the network: every MAC            *)
(* (ns3::TdmaCentralMac) hands a packet up once and sends it on, up to a   *)
(* number of hops.  A packet is recognized by its source and an 8-bit      *)
(* sequence number among the last packets a node has accepted.  Every      *)
(* frame also says who sends it and how long that node's queue was, and    *)
(* the receivers' neighbour tables decide from this whether to send it on. *)
(*                                                                         *)
(* One transmission and its receptions are one step: slots do not overlap, *)
(* and a frame is heard before the next slot begins (AirClear of           *)
(* TdmaControllerDynamic).  Whose turn it is, is left open.                *)
(***************************************************************************)
EXTENDS Integers, Sequences, FiniteSets

CONSTANTS
  Node,
  Reach,        \* Reach[n]: the possible sets of nodes in range of n
  SeqEnd,       \* GetNewSeq never returns this value (0xff)
  Window,       \* m_recvQueueMaxSize
  TTLEnd,       \* IsTTLEnd: the hop count a packet is not sent on from
  Forgotten,    \* bound: sets of entries that time out at once, by node
  Expiring,     \* bound: nodes whose frames may wait longer than MaxDelay
  QueueLimit,   \* MaxPacketNumber of the MAC queue
  UnsetTypes,   \* types an uninitialized header may read
  Bridged,      \* source addresses used with SendFrom
  MaxAnnounced, \* bound: slot messages sent in a run
  MaxPackets    \* bound: packets originated in a run

ASSUME NumbersAreNatural ==
  /\ SeqEnd \in Nat \ {0} /\ Window \in Nat \ {0} /\ TTLEnd \in Nat
  /\ QueueLimit \in Nat /\ MaxAnnounced \in Nat /\ MaxPackets \in Nat
ASSUME NodesAreNumbers == Node \subseteq 0 .. 15
ASSUME ReachIsOtherNodes ==
  Reach \in [Node -> SUBSET (SUBSET Node)] /\ \A n \in Node : \A R \in Reach[n] : n \notin R
ASSUME ExpiringAreNodes == Expiring \subseteq Node
ASSUME BridgedAreNoNodes == Bridged \cap Node = {}
ASSUME ForgottenAreEntries == Forgotten \in [Node -> SUBSET (SUBSET Nat)]

VARIABLES
  seq,       \* m_seq
  heard,     \* m_recvPacketsQueue: source and sequence number of each entry
  out,       \* m_queue: the frames that wait for the node's slot
  table,     \* m_tdmaRouteTable: the queue length that each id announced
  recv, own, repeat, ended,   \* m_recvPackets, m_ownPackets, ...
  accepted,  \* calls of ForwardUp since the last CheckData
  announced, \* slot messages sent
  sent,      \* history: who originated each packet, with which source, and how
             \* many sequence numbers all nodes had drawn before
  handedUp,  \* history: how often ForwardUp was called for each packet
  refused    \* history: packets that a node did not send on, by IsTransmit or
             \* because they waited too long

counters == <<recv, own, repeat, ended, accepted>>
history == <<handedUp, refused>>
vars == <<seq, heard, out, table, counters, announced, sent, history>>

Id == 1 .. MaxPackets
\* The sequence numbers that all nodes have drawn.
Drawings == Len(sent) + announced
Source == Node \cup Bridged
\* srcId and wait: the node that sends the frame, and its queue when the frame
\* was queued; id tells packets apart.
Header(src, number, type, srcId, wait, id) ==
  [src |-> src, seq |-> number, ttl |-> 0, type |-> type, srcId |-> srcId,
   wait |-> wait, id |-> id]

Init ==
  /\ seq = [n \in Node |-> 0]
  /\ heard = [n \in Node |-> <<>>]
  /\ out = [n \in Node |-> <<>>]
  /\ table = [n \in Node |-> [k \in {} |-> 0]]
  /\ recv = [n \in Node |-> 0] /\ own = [n \in Node |-> 0]
  /\ repeat = [n \in Node |-> 0] /\ ended = [n \in Node |-> 0]
  /\ accepted = [n \in Node |-> 0]
  /\ announced = 0
  /\ sent = <<>>
  /\ handedUp = [n \in Node |-> [id \in Id |-> 0]]
  /\ refused = {}

-----------------------------------------------------------------------------
(* Originating *)

NewSeq(number) == IF number + 1 = SeqEnd THEN 0 ELSE number + 1

\* Queue: a full queue drops the frame.
Queued(queue, frame) ==
  IF Len(queue) = QueueLimit THEN queue ELSE Append(queue, frame)

Originate(n, src, type, srcId, wait) ==
  /\ Len(sent) < MaxPackets
  /\ seq' = [seq EXCEPT ![n] = NewSeq(@)]
  /\ out' = [out EXCEPT ![n] =
               Queued(@, Header(src, seq'[n], type, srcId, wait, Len(sent) + 1))]
  /\ sent' = Append(sent, [by |-> n, src |-> src, at |-> Drawings])
  /\ UNCHANGED <<heard, table, counters, announced, history>>

\* SetSrcWaitSize keeps four bits of the queue length.
Announced(queue) == Len(queue) % 16

Enqueue(n) == Originate(n, n, "DATA", n, Announced(out[n]))

\* Enqueue (packet, to, from) sets neither the type of its header nor the id
\* and the queue length, which are zero in a new header.
EnqueueFrom(n, src) == \E type \in UnsetTypes : Originate(n, src, type, 0, 0)

-----------------------------------------------------------------------------
(* Receiving *)

\* Mutant: the source is not compared.
MatchesSeq(entry, f) == entry[2] = f.seq

\* The entry of a header heard before is that of the frame.
Matches(entry, f) == entry = <<f.src, f.seq>>

\* Mutant: the loop ends after one entry.
IsRepeatOfFirst(n, f) == heard[n] # <<>> /\ Matches(heard[n][1], f)

IsRepeat(n, f) == \E i \in 1 .. Len(heard[n]) : Matches(heard[n][i], f)

\* Erase the entry, which the list has once, and put the frame's at the back, as the
\* newest.
Refreshed(list, f) ==
  LET i == CHOOSE j \in 1 .. Len(list) : Matches(list[j], f)
  IN  Append(SubSeq(list, 1, i - 1) \o SubSeq(list, i + 1, Len(list)), <<f.src, f.seq>>)

Remembered(list, entry) ==
  Append(IF Len(list) = Window THEN Tail(list) ELSE list, entry)

\* Mutants: one hop more, one hop less.
IsTTLEndLate(f) == f.ttl > TTLEnd
IsTTLEndEarly(f) == f.ttl + 1 >= TTLEnd

IsTTLEnd(f) == f.ttl >= TTLEnd

\* The packet is new to the node: it goes up, whatever its hop count.
IsNew(n, f) == f.type = "DATA" /\ f.src # n /\ ~IsRepeat(n, f)

\* SetTTL (ttl) of the copied header.
SetTTL(f, ttl) == [f EXCEPT !.ttl = ttl + 1]

\* Enqueue (packet, hdr, tag): same source and number, one hop more, and the
\* node that sends it on.
SentOn(n, f) ==
  [SetTTL(f, f.ttl) EXCEPT !.type = "DATA", !.srcId = n, !.wait = Announced(out[n])]

\* The header type decides: data, or a slot message for the controller.
HeardAfter(n, f) ==
  IF f.type # "DATA" \/ f.src = n THEN heard[n]
  ELSE IF IsRepeat(n, f) THEN Refreshed(heard[n], f)
  ELSE Remembered(heard[n], <<f.src, f.seq>>)

Plus(counter, nodes) == [n \in Node |-> counter[n] + IF n \in nodes THEN 1 ELSE 0]

\* RecvRouterMsg: the entry of the id in the header is updated, and entries that
\* have timed out go; this one has not.
RecvRouterMsg(entries, srcId, wait, gone) ==
  [k \in (DOMAIN entries \ gone) \cup {srcId} |-> IF k = srcId THEN wait ELSE entries[k]]

\* Mutant: only strictly longer queues count.
QueueSizeMoreNum(entries, size) == Cardinality({k \in DOMAIN entries : size < entries[k]})

QueueSizeLessNum(entries, size) == Cardinality({k \in DOMAIN entries : size <= entries[k]})

\* With more than two neighbours a node sends on only if more than a tenth of
\* them announced a queue at least as long as its own.
IsTransmit(entries, size) ==
  LET tableSize == Cardinality(DOMAIN entries)
  IN  tableSize <= 2 \/ 10 * QueueSizeLessNum(entries, size) > tableSize

\* What the receivers of a frame make of its sender.
HearSender(R, srcId, wait) ==
  \E gone \in [R -> UNION {Forgotten[r] : r \in R}] :
    /\ \A r \in R : gone[r] \in Forgotten[r]
    /\ table' = [r \in Node |->
         IF r \in R THEN RecvRouterMsg(table[r], srcId, wait, gone[r]) ELSE table[r]]

\* A slot message takes a number of its own, is not queued, and its receivers do
\* not remember it.
AnnounceSlots(n) ==
  /\ announced < MaxAnnounced
  /\ announced' = announced + 1
  /\ seq' = [seq EXCEPT ![n] = NewSeq(@)]
  /\ \E R \in Reach[n] : HearSender(R, n, Announced(out[n]))
  /\ UNCHANGED <<heard, out, counters, sent, history>>

\* Mutant: the frame that was sent stays at the head.
SentPeeked(queue) == queue

\* SendPacketDown dequeues what it sends.
Sent(queue) == Tail(queue)

\* The frame at the head of n's queue goes on the air and R hears it.
Transmit(n) ==
  /\ out[n] # <<>>
  /\ \E R \in Reach[n] :
       LET f == Head(out[n])
           data == {r \in R : f.type = "DATA"}
           new == {r \in R : IsNew(r, f)}
           asked == {r \in new : ~IsTTLEnd(f)}
           Transmits(r) == IsTransmit(table'[r], Len(out[r]))
       IN  /\ HearSender(R, f.srcId, f.wait)
           /\ heard' = [r \in Node |-> IF r \in R THEN HeardAfter(r, f) ELSE heard[r]]
           /\ out' = [r \in Node |->
                IF r = n THEN Sent(out[n])
                ELSE IF r \in asked /\ Transmits(r) THEN Queued(out[r], SentOn(r, f))
                ELSE out[r]]
           /\ recv' = Plus(recv, data)
           /\ own' = Plus(own, {r \in data : f.src = r})
           /\ repeat' = Plus(repeat, {r \in data : f.src # r /\ IsRepeat(r, f)})
           /\ ended' = Plus(ended, {r \in new : IsTTLEnd(f)})
           /\ accepted' = Plus(accepted, new)
           /\ handedUp' = [r \in Node |->
                IF r \in new THEN [handedUp[r] EXCEPT ![f.id] = @ + 1] ELSE handedUp[r]]
           /\ refused' = refused \cup {<<r, f.id>> : r \in {q \in asked : ~Transmits(q)}}
  /\ UNCHANGED <<seq, announced, sent>>

\* Cleanup: the frame that has waited longest is dropped after MaxDelay.  (It is
\* part of the next use of the queue; here it is a step before or after that, so
\* that lengths read in the meantime still count the frame.)
Expire(n) ==
  /\ out[n] # <<>>
  /\ out' = [out EXCEPT ![n] = Tail(@)]
  /\ refused' = refused \cup {<<n, Head(out[n]).id>>}
  /\ UNCHANGED <<seq, heard, table, counters, announced, sent, handedUp>>

\* The periodic reports divide by the packets received that were neither own
\* nor repeats, and start counting anew.  All nodes' reports are due at the same
\* instant and were scheduled before anything else that is due then.
Distinct(n) == recv[n] - repeat[n] - own[n]
Zero == [n \in Node |-> 0]

\* Mutant: the report forgets to reset the repeats.
CheckDataKeepsRepeats ==
  /\ recv' = Zero /\ own' = Zero /\ ended' = Zero /\ accepted' = Zero
  /\ UNCHANGED <<seq, heard, out, table, repeat, announced, sent, history>>

CheckData ==
  /\ recv' = Zero /\ own' = Zero /\ repeat' = Zero /\ ended' = Zero
  /\ accepted' = Zero
  /\ UNCHANGED <<seq, heard, out, table, announced, sent, history>>

Next ==
  \/ \E n \in Node : Enqueue(n) \/ AnnounceSlots(n) \/ Transmit(n)
  \/ \E n \in Expiring : Expire(n)
  \/ \E n \in Node : \E src \in Bridged : EnqueueFrom(n, src)
  \/ CheckData

\* Every node gets its slot again and again (EveryNodeTransmits).
Fairness == \A n \in Node : WF_vars(Transmit(n))

Spec == Init /\ [][Next]_vars
FairSpec == Spec /\ Fairness

-----------------------------------------------------------------------------
(* Properties *)

\* No packet is handed up twice by a node, whatever paths it comes along.
HandedUpOnce == \A n \in Node : \A id \in Id : handedUp[n][id] <= 1

\* The report's difference is the number of packets handed up since the last
\* report: reset together, the unsigned counters never make it wrap around.
CountersAddUp ==
  \A n \in Node : Distinct(n) = accepted[n] /\ ended[n] <= accepted[n]

\* A frame is on its way at most TTLEnd hops from its origin: the hop count
\* stays within its four bits, and its origin never sends it a second time.
HopsBounded ==
  \A n \in Node : \A i \in 1 .. Len(out[n]) :
    /\ out[n][i].ttl <= TTLEnd
    /\ out[n][i].ttl = 0 => sent[out[n][i].id].by = n
    /\ out[n][i].src = n => out[n][i].ttl = 0

\* The nodes at most that many hops away, over links that are always in range.
Within(start, hops) ==
  LET ball[k \in 0 .. hops] ==
        IF k = 0 THEN {start}
        ELSE ball[k - 1] \cup {m \in Node : \E n \in ball[k - 1] : \A R \in Reach[n] : m \in R}
  IN  ball[hops]

\* The network is a tree: on the way from any s, who hears n is the node before or
\* the one after it.  dist counts the links between nodes, and parent[s][m] is where
\* the way from m to s begins.
IsTree(dist, parent) ==
  /\ dist \in [Node -> [Node -> Nat]]
  /\ \A s \in Node : dist[s][s] = 0
  /\ \A n \in Node : Reach[n] # {}
  /\ \A s, n \in Node : \A R \in Reach[n] : \A m \in R :
       \/ m # s /\ n = parent[s][m] /\ dist[s][m] = dist[s][n] + 1
       \/ n # s /\ m = parent[s][n] /\ dist[s][n] = dist[s][m] + 1

\* All the numbers a node has may have come round between the two packets.
CycleBetween(id, other) ==
  sent[id].at - sent[other].at >= SeqEnd \/ sent[other].at - sent[id].at >= SeqEnd

\* When nothing is left to send, every packet of a node itself has been handed up
\* by all that TTLEnd + 1 hops can reach, unless a node kept it from them, by its
\* table or because it waited too long there: nothing was taken for a repeat that
\* was not, and nothing got lost.  A packet a whole cycle of sequence numbers away
\* from another of its node may have been taken for that one, and is left out.
BroadcastComplete ==
  (\A n \in Node : out[n] = <<>>) =>
    \A id \in 1 .. Len(sent) :
      /\ sent[id].src = sent[id].by
      /\ \A n \in Node : <<n, id>> \notin refused
      /\ \A other \in 1 .. Len(sent) :
           sent[other].src = sent[id].src => ~CycleBetween(id, other)
      =>
        \A n \in Within(sent[id].by, TTLEnd + 1) \ {sent[id].by} : handedUp[n][id] >= 1

\* A node that has nothing to send sends on whatever it accepts: old, zero or
\* forgotten entries of its table never silence an idle network.
IdleRelaysSend ==
  [][\A n \in Node : (\E id \in Id : <<n, id>> \in refused' \ refused) => out[n] # <<>>]_vars

\* What is counted and dropped as a repeat of a node's own packet has been handed
\* up before, or another packet of that node has, from which it is a whole cycle of
\* numbers away: short of that, no new packet is taken for an old one.  (Bridges
\* number the packets of one source each for itself: theirs can be.)
RepeatsAreRepeats ==
  [][\A n \in Node : Transmit(n) =>
       LET id == Head(out[n]).id IN
       sent[id].src = sent[id].by =>
         \A m \in Node : repeat'[m] # repeat[m] =>
           \E other \in 1 .. Len(sent) :
             /\ sent[other].src = sent[id].src /\ handedUp[m][other] >= 1
             /\ other = id \/ CycleBetween(id, other)]_vars

\* A broadcast dies out: every queue becomes empty for good.
BroadcastEnds == <>[](\A n \in Node : out[n] = <<>>)
=============================================================================
