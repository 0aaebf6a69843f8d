---------------------------- MODULE DropTailQueue ----------------------------
(***************************************************************************)
(* What the queue promises: a drop-tail FIFO of at most limit packets out  *)
(* of which a packet disappears the moment it is lifetime old.  Every      *)
(* packet that is refused is reported at once, and every packet that has   *)
(* disappeared is reported, once, by the next call that looks at the queue.*)
(***************************************************************************)
EXTENDS Integers, Sequences

CONSTANTS Packet, NoPacket, InitialLimit, InitialLifetime, DropsEnd
VARIABLES content, answer, limit, lifetime,
  lapsed,  \* packets that have disappeared and are not reported yet
  drops    \* reports so far, modulo DropsEnd
settings == <<limit, lifetime>>
queueVars == <<content, answer, lapsed, drops, settings>>

Entry(pkt, age) == [pkt |-> pkt, age |-> age]
Says(what, pkt) == answer' = [what |-> what, pkt |-> pkt]
Reports(n) == drops' = (drops + n) % DropsEnd /\ lapsed' = 0

QueueInit ==
  /\ content = <<>> /\ answer = [what |-> "none", pkt |-> NoPacket]
  /\ lapsed = 0 /\ drops = 0
  /\ limit = InitialLimit /\ lifetime = InitialLifetime

\* The settings are changed while the queue is empty.
Configure == content = <<>> /\ lapsed = 0 /\ UNCHANGED <<content, answer, lapsed, drops>>

Accept(pkt) ==
  /\ Len(content) < limit
  /\ content' = Append(content, Entry(pkt, 0))
  /\ Says("accepted", pkt) /\ Reports(lapsed)

Drop(pkt) ==
  /\ Len(content) = limit
  /\ Says("dropped", pkt) /\ Reports(lapsed + 1)
  /\ UNCHANGED content

Take ==
  /\ content # <<>>
  /\ Says("packet", Head(content).pkt) /\ Reports(lapsed)
  /\ content' \in {content, Tail(content)}    \* Peek leaves it, Dequeue takes it

Ask ==
  /\ IF content = <<>> THEN Says("empty", NoPacket) ELSE Says("nonempty", NoPacket)
  /\ Reports(lapsed)
  /\ UNCHANGED content

\* Remove of the first entry with the packet, which may have disappeared
\* already, or Flush: neither is reported.
Withdraw ==
  /\ \/ content' = <<>> /\ lapsed' = 0
     \/ lapsed > 0 /\ lapsed' = lapsed - 1 /\ UNCHANGED content
     \/ /\ \E i \in 1 .. Len(content) :
             content' = SubSeq(content, 1, i - 1) \o SubSeq(content, i + 1, Len(content))
        /\ UNCHANGED lapsed
  /\ UNCHANGED <<answer, drops>>

Older(entry) == Entry(entry.pkt, entry.age + 1)

\* The first entries are the oldest ones, and go first.
Expire ==
  LET n == Len(content)
      aged == [i \in 1 .. n |-> Older(content[i])]
  IN  \E k \in 0 .. n :
        /\ \A i \in 1 .. n : aged[i].age < lifetime <=> i > k
        /\ content' = SubSeq(aged, k + 1, n)
        /\ lapsed' = lapsed + k
        /\ UNCHANGED <<answer, drops>>

QueueNext ==
  \/ /\ \/ \E pkt \in Packet : Accept(pkt) \/ Drop(pkt)
        \/ Take \/ Ask \/ Withdraw \/ Expire
     /\ UNCHANGED settings
  \/ Configure

DropTail == QueueInit /\ [][QueueNext]_queueVars
=============================================================================
