------------------------ MODULE TdmaRouteTable_proofs ------------------------
(***************************************************************************)
(* Proofs about the header fields and the neighbour table, for every set   *)
(* of neighbours and every timeout.                                        *)
(***************************************************************************)
EXTENDS TdmaRouteTable, FiniteSetTheorems, TLAPS

-----------------------------------------------------------------------------
(* The frame control word *)

Word(ttl, type, seq, id, size) ==
  ttl + 16 * type + 256 * seq + 65536 * id + 16777216 * size

\* A number below the divisor, and a multiple of the divisor, are told apart.
LEMMA Cut16 ==
  ASSUME NEW low \in 0 .. 15, NEW high \in Nat
  PROVE  (low + 16 * high) % 16 = low /\ (low + 16 * high) \div 16 = high
BY SMT

LEMMA Cut256 ==
  ASSUME NEW low \in 0 .. 255, NEW high \in Nat
  PROVE  (low + 256 * high) % 256 = low /\ (low + 256 * high) \div 256 = high
BY SMT

\* Cutting two or three bytes off at once is cutting them off one by one.
LEMMA CutTwice ==
  ASSUME NEW w \in Nat
  PROVE  w \div 65536 = (w \div 256) \div 256
BY SMTT(60)

LEMMA CutThrice ==
  ASSUME NEW w \in Nat
  PROVE  w \div 16777216 = (w \div 65536) \div 256
BY SMTT(60)

\* Each field can be cut out of the word again.
LEMMA WordFields ==
  ASSUME NEW ttl \in 0 .. 15, NEW type \in 0 .. 15, NEW seq \in 0 .. 255,
         NEW id \in 0 .. 255, NEW size \in 0 .. 255
  PROVE  SetFrameControl(Word(ttl, type, seq, id, size)) =
           [ttl |-> ttl, type |-> type, seq |-> seq, srcId |-> id,
            srcWaitSize |-> size]
<1> DEFINE w == Word(ttl, type, seq, id, size)
           x == id + 256 * size
           y == seq + 256 * x
           low == ttl + 16 * type
<1>1. /\ x \in Nat /\ y \in Nat /\ low \in 0 .. 255
      /\ w \in Nat /\ w = low + 256 * y
  <2>1. x \in Nat /\ y \in Nat /\ low \in 0 .. 255
    BY SMT
  <2>2. w = low + 256 * y
    BY SMT DEF Word
  <2> QED BY <2>1, <2>2, SMT
<1>2. w % 16 = ttl /\ (w \div 16) % 16 = type
  <2> DEFINE z == type + 16 * y
  <2>1. z \in Nat /\ w = ttl + 16 * z
    BY <1>1, SMT
  <2>2. w % 16 = ttl /\ w \div 16 = z
    <3> HIDE DEF z
    <3>1. (ttl + 16 * z) % 16 = ttl /\ (ttl + 16 * z) \div 16 = z
      BY <2>1, Cut16
    <3> QED BY <2>1, <3>1
  <2>3. z % 16 = type
    <3> HIDE DEF y
    <3> QED BY <1>1, Cut16, SMT
  <2> QED BY <2>2, <2>3, SMT
<1>3. w \div 256 = y
  <2> HIDE DEF x, y, low
  <2> QED BY <1>1, Cut256, SMT
<1>4. y % 256 = seq /\ y \div 256 = x
  <2>1. x \in Nat
    BY <1>1
  <2> HIDE DEF x
  <2>2. (seq + 256 * x) % 256 = seq /\ (seq + 256 * x) \div 256 = x
    BY <2>1, SMT
  <2> QED BY <2>2
<1>5. x % 256 = id /\ x \div 256 = size
  <2>1. (id + 256 * size) % 256 = id /\ (id + 256 * size) \div 256 = size
    <3>1. size \in Nat
      BY SMT
    <3> QED BY <3>1, SMT
  <2> QED BY <2>1
<1> HIDE DEF w, x, y, low
<1>6. w \div 65536 = x
  BY <1>1, <1>3, <1>4, CutTwice, SMT
<1>7. w \div 16777216 = size
  BY <1>1, <1>5, <1>6, CutThrice, SMT
<1>8. size % 256 = size
  BY SMT
<1>9. /\ w % 16 = ttl /\ (w \div 16) % 16 = type
      /\ (w \div 256) % 256 = seq /\ (w \div 65536) % 256 = id
      /\ (w \div 16777216) % 256 = size
  BY <1>2, <1>3, <1>4, <1>5, <1>6, <1>7, <1>8, SMT
<1> QED BY <1>9, SMT DEF w, SetFrameControl, Nibble, Byte

\* A receiver reads every field as the sender wrote it, as long as hop count
\* and type fit four bits and the other fields eight (GetFrameControl and
\* SetFrameControl).
THEOREM RoundTrip ==
  ASSUME NEW hdr \in FieldsOf(0 .. 15, 0 .. 255)
  PROVE  Received(hdr) = hdr
<1>1. PICK ttl \in 0 .. 15, type \in 0 .. 15, seq \in 0 .. 255,
           id \in 0 .. 255, size \in 0 .. 255 :
        hdr = [ttl |-> ttl, type |-> type, seq |-> seq, srcId |-> id,
               srcWaitSize |-> size]
  <2>1. /\ hdr.ttl \in 0 .. 15 /\ hdr.type \in 0 .. 15 /\ hdr.seq \in 0 .. 255
        /\ hdr.srcId \in 0 .. 255 /\ hdr.srcWaitSize \in 0 .. 255
    BY SMT DEF FieldsOf
  <2>2. hdr = [ttl |-> hdr.ttl, type |-> hdr.type, seq |-> hdr.seq,
               srcId |-> hdr.srcId, srcWaitSize |-> hdr.srcWaitSize]
    BY SMT DEF FieldsOf
  <2> QED BY <2>1, <2>2, Zenon
<1>2. GetFrameControl(hdr) = Word(ttl, type, seq, id, size)
  <2>1. \A x \in 0 .. 15 : Nibble(x) = x
    BY SMT DEF Nibble
  <2>2. \A x \in 0 .. 255 : Byte(x) = x
    BY SMT DEF Byte
  <2>3. /\ Nibble(ttl) = ttl /\ Nibble(type) = type /\ Byte(seq) = seq
        /\ Byte(id) = id /\ Byte(size) = size
    BY <2>1, <2>2
  <2>4. /\ hdr.ttl = ttl /\ hdr.type = type /\ hdr.seq = seq
        /\ hdr.srcId = id /\ hdr.srcWaitSize = size
    BY <1>1, SMT
  <2>5. GetFrameControl(hdr) = ttl + 16 * type + 256 * seq + 65536 * id
                               + 16777216 * size
    BY <2>3, <2>4 DEF GetFrameControl
  <2> QED BY <2>5 DEF Word
<1>3. SetFrameControl(Word(ttl, type, seq, id, size)) =
        [ttl |-> ttl, type |-> type, seq |-> seq, srcId |-> id,
         srcWaitSize |-> size]
  <2> DEFINE nibble == 0 .. 15
             byte == 0 .. 255
             IsRead(a, b, c, d, e) ==
               SetFrameControl(Word(a, b, c, d, e)) =
                 [ttl |-> a, type |-> b, seq |-> c, srcId |-> d, srcWaitSize |-> e]
  <2>1. ttl \in nibble /\ type \in nibble /\ seq \in byte /\ id \in byte /\ size \in byte
    BY <1>1, Zenon
  <2>2. \A a, b \in nibble : \A c, d, e \in byte : IsRead(a, b, c, d, e)
    BY WordFields, Zenon
  <2> HIDE DEF nibble, byte, IsRead
  <2>3. IsRead(ttl, type, seq, id, size)
    BY <2>1, <2>2
  <2> QED BY <2>3 DEF IsRead
<1> QED BY <1>1, <1>2, <1>3 DEF Received

-----------------------------------------------------------------------------
(* The table of a node whose neighbours and queues have small numbers *)

\* Four bits are enough for every id and every queue length, and frames without
\* an id are not taken for those of a neighbour.
FourBits ==
  /\ Neighbour \subseteq 0 .. 15
  /\ Sizes \subseteq 0 .. 15
  /\ Bridging => 0 \notin Neighbour

HeardOK == heard \in [Neighbour -> [age : 0 .. Never, size : Sizes \cup {0}]]

\* A neighbour's frame updates the entry of its own id.
LEMMA HeardFields ==
  ASSUME FourBits, NEW s \in Neighbour, NEW size \in Sizes
  PROVE  LET hdr == Received(SetSrcWaitSize(SetSrcId(NewHeader(0, Data), s), size))
         IN  hdr.srcId = s /\ hdr.srcWaitSize = size
<1> DEFINE sent == [ttl |-> 0, type |-> 1, seq |-> 0, srcId |-> s, srcWaitSize |-> size]
<1>1. s \in 0 .. 15 /\ size \in 0 .. 15
  BY DEF FourBits
<1>2. Nibble(s) = s /\ Nibble(size) = size
  BY <1>1, SMT DEF Nibble
<1>3. SetSrcWaitSize(SetSrcId(NewHeader(0, Data), s), size) = sent
  <2> DEFINE mid == [ttl |-> 0, type |-> 1, seq |-> 0, srcId |-> s, srcWaitSize |-> 0]
  <2>1. SetSrcId(NewHeader(0, Data), s) = mid
    BY <1>2 DEF SetSrcId, NewHeader, Data
  <2>2. [mid EXCEPT !.srcWaitSize = size] = sent
    OBVIOUS
  <2>3. SetSrcWaitSize(mid, size) = sent
    BY <1>2, <2>2, Zenon DEF SetSrcWaitSize
  <2> QED BY <2>1, <2>3, Zenon
<1>4. sent \in FieldsOf(0 .. 15, 0 .. 255)
  BY <1>1, SMT DEF FieldsOf
<1>5. Received(sent) = sent
  <2> HIDE DEF sent
  <2> QED BY <1>4, RoundTrip, Zenon
<1> QED BY <1>3, <1>5, SMT

\* Deleting what has timed out leaves every other entry as it is.
LEMMA YoungStay ==
  ASSUME NEW entries, ~crashed, DeleteTimeoutEntry(entries), ~crashed',
         NEW k \in DOMAIN entries, ~IsTimeout(entries[k])
  PROVE  k \in DOMAIN table' /\ table'[k] = entries[k]
<1>1. table' = entries \/ \E keys : table' = Without(entries, keys) /\ k \notin keys
  BY Zenon DEF DeleteTimeoutEntry
<1>2. ASSUME NEW keys, k \notin keys
      PROVE  k \in DOMAIN Without(entries, keys) /\ Without(entries, keys)[k] = entries[k]
  BY <1>2, SMT DEF Without
<1>3. CASE table' = entries
  BY <1>3
<1>4. CASE \E keys : table' = Without(entries, keys) /\ k \notin keys
  <2>1. PICK keys : table' = Without(entries, keys) /\ k \notin keys
    BY <1>4, Zenon
  <2> QED BY <1>2, <2>1
<1> QED BY <1>1, <1>3, <1>4

\* Every neighbour heard within the timeout has its own, current entry.
THEOREM FreshAreKnown ==
  ASSUME FourBits
  PROVE  Spec => []FreshKnown
<1> DEFINE Inv == HeardOK /\ FreshKnown
<1> USE TimeoutIsNatural
<1>1. Init => Inv
  <2> SUFFICES ASSUME Init PROVE Inv
    OBVIOUS
  <2>1. HeardOK
    BY SMT DEF Init, HeardOK, Heard, Never
  <2>2. Fresh = {}
    BY SMT DEF Init, Fresh, IsTimeout, Heard, Never
  <2> QED BY <2>1, <2>2 DEF FreshKnown
<1>2. Inv /\ [Next]_vars => Inv'
  <2> SUFFICES ASSUME Inv, [Next]_vars PROVE Inv'
    OBVIOUS
  <2>1. ASSUME NEW s \in Neighbour, NEW size \in Sizes, Hear(s, size)
        PROVE  Inv'
    <3>1. /\ ~crashed /\ DeleteTimeoutEntry(Updated(s, size))
          /\ heard' = [heard EXCEPT ![s] = Heard(0, size)]
      BY <2>1, HeardFields, Zenon DEF Hear, UpdateTable
    <3>2. HeardOK'
      BY <3>1, SMT DEF HeardOK, Heard, Never
    <3>3. ASSUME ~crashed', NEW t \in Neighbour, ~IsTimeout(heard'[t])
          PROVE  t \in DOMAIN table' /\ table'[t] = heard'[t]
      <4>1. t \in DOMAIN Updated(s, size) /\ Updated(s, size)[t] = heard'[t]
        <5>1. CASE t = s
          BY <3>1, <5>1, SMT DEF Updated, HeardOK
        <5>2. CASE t # s
          <6>1. heard'[t] = heard[t]
            BY <3>1, <5>2, SMT DEF HeardOK
          <6>2. t \in DOMAIN table /\ table[t] = heard[t]
            BY <3>1, <3>3, <6>1 DEF FreshKnown, Fresh
          <6> QED BY <5>2, <6>1, <6>2, SMT DEF Updated
        <5> QED BY <5>1, <5>2
      <4> QED BY <3>1, <3>3, <4>1, YoungStay, Zenon
    <3> QED BY <3>2, <3>3, Zenon DEF FreshKnown, Fresh, IsTimeout
  <2>2. CASE Bridging /\ HearBridged
    <3> DEFINE hdr == Received(NewHeader(0, Data))
    <3>1. /\ ~crashed /\ heard' = heard
          /\ DeleteTimeoutEntry(Updated(hdr.srcId, hdr.srcWaitSize))
      BY <2>2, Zenon DEF HearBridged, UpdateTable
    <3>2. hdr.srcId = 0
      <4> DEFINE sent == [ttl |-> 0, type |-> 1, seq |-> 0, srcId |-> 0,
                          srcWaitSize |-> 0]
      <4>1. NewHeader(0, Data) = sent
        BY DEF NewHeader, Data
      <4>2. sent \in FieldsOf(0 .. 15, 0 .. 255)
        BY SMT DEF FieldsOf
      <4>3. Received(sent) = sent
        <5> HIDE DEF sent
        <5> QED BY <4>2, RoundTrip, Zenon
      <4> QED BY <4>1, <4>3, SMT
    <3>3. ASSUME ~crashed', NEW t \in Neighbour, ~IsTimeout(heard'[t])
          PROVE  t \in DOMAIN table' /\ table'[t] = heard'[t]
      <4> HIDE DEF hdr
      <4>1. t # 0
        BY <2>2 DEF FourBits
      <4>2. t \in DOMAIN table /\ table[t] = heard[t]
        BY <3>1, <3>3 DEF FreshKnown, Fresh
      <4>3. /\ t \in DOMAIN Updated(hdr.srcId, hdr.srcWaitSize)
            /\ Updated(hdr.srcId, hdr.srcWaitSize)[t] = heard'[t]
        BY <3>1, <3>2, <4>1, <4>2, SMT DEF Updated
      <4> QED BY <3>1, <3>3, <4>3, YoungStay, Zenon
    <3>4. HeardOK'
      BY <3>1 DEF HeardOK
    <3> QED BY <3>3, <3>4, Zenon DEF FreshKnown, Fresh, IsTimeout
  <2>3. CASE Tick
    <3>1. /\ ~crashed /\ table' = [k \in DOMAIN table |-> Older(table[k])]
          /\ heard' = [s \in Neighbour |-> Older(heard[s])]
      BY <2>3 DEF Tick
    <3>2. HeardOK'
      <4>1. \A s \in Neighbour : Older(heard[s]) \in [age : 0 .. Never, size : Sizes \cup {0}]
        BY SMT DEF HeardOK, Older, Never
      <4> QED BY <3>1, <4>1, Zenon DEF HeardOK
    <3>3. ASSUME NEW t \in Neighbour, ~IsTimeout(heard'[t])
          PROVE  t \in DOMAIN table' /\ table'[t] = heard'[t]
      <4>1. ~IsTimeout(heard[t])
        BY <3>1, <3>3, SMT DEF HeardOK, IsTimeout, Older, Never
      <4>2. t \in DOMAIN table /\ table[t] = heard[t]
        BY <3>1, <4>1 DEF FreshKnown, Fresh
      <4> QED BY <3>1, <4>2, SMT
    <3> QED BY <3>2, <3>3, Zenon DEF FreshKnown, Fresh, IsTimeout
  <2>4. CASE UNCHANGED vars
    BY <2>4 DEF vars, HeardOK, FreshKnown, Fresh, IsTimeout
  <2> QED BY <2>1, <2>2, <2>3, <2>4 DEF Next
<1> QED BY <1>1, <1>2, PTL DEF Spec

-----------------------------------------------------------------------------
(* What the table is asked *)

\* An entry holds what its neighbour announced last, also when it is old; only
\* the entry of frames without an id holds nothing.
EntriesOK ==
  /\ HeardOK
  /\ \A k \in DOMAIN table :
       \/ k \in Neighbour /\ table[k].size = heard[k].size
       \/ k = 0 /\ table[k].size = 0

\* Deleting entries leaves the sizes of the others.
LEMMA SomeStay ==
  ASSUME NEW entries, DeleteTimeoutEntry(entries), NEW k \in DOMAIN table'
  PROVE  k \in DOMAIN entries /\ table'[k] = entries[k]
<1>1. table' = entries \/ \E keys : table' = Without(entries, keys)
  BY Zenon DEF DeleteTimeoutEntry
<1>2. CASE table' = entries
  BY <1>2
<1>3. CASE \E keys : table' = Without(entries, keys)
  <2>1. PICK keys : table' = Without(entries, keys)
    BY <1>3, Zenon
  <2> QED BY <2>1, SMT DEF Without
<1> QED BY <1>1, <1>2, <1>3

\* The entry of frames without an id.
LEMMA BridgedFields ==
  Received(NewHeader(0, Data)).srcId = 0 /\ Received(NewHeader(0, Data)).srcWaitSize = 0
<1> DEFINE sent == [ttl |-> 0, type |-> 1, seq |-> 0, srcId |-> 0, srcWaitSize |-> 0]
<1>1. NewHeader(0, Data) = sent
  BY DEF NewHeader, Data
<1>2. sent \in FieldsOf(0 .. 15, 0 .. 255)
  BY SMT DEF FieldsOf
<1>3. Received(sent) = sent
  <2> HIDE DEF sent
  <2> QED BY <1>2, RoundTrip, Zenon
<1> QED BY <1>1, <1>3, SMT

LEMMA EntriesStep == FourBits /\ EntriesOK /\ [Next]_vars => EntriesOK'
<1> SUFFICES ASSUME FourBits, EntriesOK, [Next]_vars PROVE EntriesOK'
  OBVIOUS
<1> USE TimeoutIsNatural
<1>1. ASSUME NEW s \in Neighbour, NEW size \in Sizes, Hear(s, size)
      PROVE  EntriesOK'
  <2>1. /\ DeleteTimeoutEntry(Updated(s, size))
        /\ heard' = [heard EXCEPT ![s] = Heard(0, size)]
    BY <1>1, HeardFields, Zenon DEF Hear, UpdateTable
  <2>2. HeardOK'
    BY <2>1, SMT DEF EntriesOK, HeardOK, Heard, Never
  <2>3. ASSUME NEW k \in DOMAIN table'
        PROVE  \/ k \in Neighbour /\ table'[k].size = heard'[k].size
               \/ k = 0 /\ table'[k].size = 0
    <3>1. k \in DOMAIN Updated(s, size) /\ table'[k] = Updated(s, size)[k]
      BY <2>1, SomeStay, Zenon
    <3>2. CASE k = s
      BY <2>1, <3>1, <3>2, SMT DEF Updated, EntriesOK, HeardOK, Heard
    <3>3. CASE k # s
      <4>1. k \in DOMAIN table /\ table'[k] = table[k]
        BY <3>1, <3>3, SMT DEF Updated
      <4>2. k \in Neighbour => heard'[k] = heard[k]
        BY <2>1, <3>3, SMT DEF EntriesOK, HeardOK
      <4> QED BY <4>1, <4>2 DEF EntriesOK
    <3> QED BY <3>2, <3>3
  <2> QED BY <2>2, <2>3, Zenon DEF EntriesOK
<1>2. CASE Bridging /\ HearBridged
  <2>1. /\ heard' = heard /\ DeleteTimeoutEntry(Updated(0, 0))
    BY <1>2, BridgedFields, Zenon DEF HearBridged, UpdateTable
  <2>2. ASSUME NEW k \in DOMAIN table'
        PROVE  \/ k \in Neighbour /\ table'[k].size = heard'[k].size
               \/ k = 0 /\ table'[k].size = 0
    <3>1. k \in DOMAIN Updated(0, 0) /\ table'[k] = Updated(0, 0)[k]
      BY <2>1, SomeStay, Zenon
    <3>2. CASE k = 0
      BY <3>1, <3>2, SMT DEF Updated, Heard
    <3>3. CASE k # 0
      <4>1. k \in DOMAIN table /\ table'[k] = table[k]
        BY <3>1, <3>3, SMT DEF Updated
      <4> QED BY <2>1, <4>1 DEF EntriesOK
    <3> QED BY <3>2, <3>3
  <2>3. HeardOK'
    BY <2>1 DEF EntriesOK, HeardOK
  <2> QED BY <2>2, <2>3, Zenon DEF EntriesOK
<1>3. CASE Tick
  <2>1. /\ table' = [k \in DOMAIN table |-> Older(table[k])]
        /\ heard' = [s \in Neighbour |-> Older(heard[s])]
    BY <1>3 DEF Tick
  <2>2. \A s \in Neighbour : /\ Older(heard[s]) \in [age : 0 .. Never, size : Sizes \cup {0}]
                             /\ Older(heard[s]).size = heard[s].size
    BY SMT DEF EntriesOK, HeardOK, Older, Never
  <2>3. HeardOK'
    BY <2>1, <2>2, Zenon DEF HeardOK
  <2>4. \A k \in DOMAIN table : Older(table[k]).size = table[k].size
    BY SMT DEF Older
  <2>5. ASSUME NEW k \in DOMAIN table'
        PROVE  \/ k \in Neighbour /\ table'[k].size = heard'[k].size
               \/ k = 0 /\ table'[k].size = 0
    <3>1. k \in DOMAIN table /\ table'[k].size = table[k].size
      BY <2>1, <2>4, SMT
    <3>2. k \in Neighbour => heard'[k].size = heard[k].size
      BY <2>1, <2>2, SMT
    <3> QED BY <3>1, <3>2 DEF EntriesOK
  <2> QED BY <2>3, <2>5, Zenon DEF EntriesOK
<1>4. CASE UNCHANGED vars
  BY <1>4 DEF vars, EntriesOK, HeardOK
<1> QED BY <1>1, <1>2, <1>3, <1>4 DEF Next

LEMMA EntriesStart == Init => EntriesOK
BY TimeoutIsNatural, SMT DEF Init, EntriesOK, HeardOK, Heard, Never

\* The table's answer follows from what the neighbours have announced: it has at
\* most sixteen entries, so that three long queues are more than a tenth.
LEMMA RankCounts ==
  ASSUME FourBits, EntriesOK, FreshKnown
  PROVE  ForwardsByRank
<1> SUFFICES ASSUME ~crashed, Cardinality(Fresh) >= 3, NEW size \in Sizes
             PROVE  /\ (\A s \in Fresh : size <= heard[s].size) => IsTransmit(size)
                    /\ (\A s \in Neighbour : heard[s].size < size) => ~IsTransmit(size)
  BY Zenon DEF ForwardsByRank
<1> DEFINE longer == {k \in DOMAIN table : size <= table[k].size}
<1>0. \A s \in Neighbour : heard[s].size \in Nat
  <2>1. \A s \in Neighbour : heard[s].size \in Sizes \cup {0}
    BY SMT DEF EntriesOK, HeardOK
  <2>2. \A x \in Sizes \cup {0} : x \in Nat
    BY SizesAreNatural, SMT
  <2> QED BY <2>1, <2>2, Zenon
<1>1. DOMAIN table \subseteq 0 .. 15
  <2>1. \A k \in DOMAIN table : k \in Neighbour \/ k = 0
    BY Zenon DEF EntriesOK
  <2>2. Neighbour \subseteq 0 .. 15 /\ 0 \in 0 .. 15
    BY DEF FourBits
  <2> QED BY <2>1, <2>2, Zenon
<1>2. IsFiniteSet(0 .. 15) /\ Cardinality(0 .. 15) = 16
  <2>1. 0 \in Int /\ 15 \in Int /\ ~(0 > 15) /\ 15 - 0 + 1 = 16
    OBVIOUS
  <2>2. IsFiniteSet(0 .. 15) /\ Cardinality(0 .. 15) = IF 0 > 15 THEN 0 ELSE 15 - 0 + 1
    BY <2>1, FS_Interval, Zenon
  <2> QED BY <2>1, <2>2
<1>3. /\ IsFiniteSet(DOMAIN table) /\ Cardinality(DOMAIN table) <= 16
      /\ Cardinality(DOMAIN table) \in Nat
  BY <1>1, <1>2, FS_Subset, FS_CardinalityType
<1>4. Fresh \subseteq DOMAIN table /\ \A s \in Fresh : s \in Neighbour /\ table[s] = heard[s]
  BY Zenon DEF FreshKnown, Fresh
<1>5. /\ IsFiniteSet(Fresh) /\ Cardinality(Fresh) \in Nat
      /\ Cardinality(Fresh) <= Cardinality(DOMAIN table)
  BY <1>3, <1>4, FS_Subset, FS_CardinalityType
<1>6. IsFiniteSet(longer) /\ Cardinality(longer) \in Nat
  BY <1>3, FS_Subset, FS_CardinalityType
<1>7. /\ GetRouteTableSize = Cardinality(DOMAIN table)
      /\ GetQueueSizeLessNum(size) = Cardinality(longer)
  BY DEF GetRouteTableSize, GetQueueSizeLessNum
<1>8. ASSUME \A s \in Fresh : size <= heard[s].size
      PROVE  IsTransmit(size)
  <2>1. Fresh \subseteq longer
    BY <1>4, <1>8
  <2>2. Cardinality(Fresh) <= Cardinality(longer)
    BY <1>6, <2>1, FS_Subset
  <2> HIDE DEF longer
  <2>3. 10 * Cardinality(longer) > Cardinality(DOMAIN table)
    BY <1>3, <1>5, <1>6, <2>2, SMT
  <2> QED BY <1>7, <2>3 DEF IsTransmit
<1>9. ASSUME \A s \in Neighbour : heard[s].size < size
      PROVE  ~IsTransmit(size)
  <2>1. PICK s \in Fresh : TRUE
    <3>1. Cardinality({}) = 0
      BY FS_EmptySet
    <3>2. Fresh # {}
      BY <1>5, <3>1
    <3> QED BY <3>2
  <2>2. size > 0 /\ size \in Nat
    <3>1. heard[s].size \in Nat /\ heard[s].size < size
      <4>1. s \in Neighbour
        BY <1>4, <2>1
      <4> QED BY <1>0, <1>9, <4>1
    <3> QED BY <3>1, SizesAreNatural, SMT
  <2>3. ASSUME NEW k \in DOMAIN table
        PROVE  ~(size <= table[k].size)
    <3>1. CASE k \in Neighbour /\ table[k].size = heard[k].size
      <4>1. heard[k].size \in Nat /\ heard[k].size < size
        BY <1>0, <1>9, <3>1
      <4> QED BY <2>2, <3>1, <4>1, SMT
    <3>2. CASE k = 0 /\ table[k].size = 0
      BY <2>2, <3>2, SMT
    <3> QED BY <3>1, <3>2 DEF EntriesOK
  <2>4. longer = {}
    BY <2>3
  <2>5. Cardinality(longer) = 0
    BY <2>4, FS_EmptySet
  <2> HIDE DEF longer
  <2> QED BY <1>3, <1>5, <1>7, <2>5, SMT DEF IsTransmit
<1> QED BY <1>8, <1>9

\* Where ids and queue lengths fit four bits, a node sends a broadcast on when its
\* queue is no longer than those of the neighbours it hears, and not when it is
\* longer than all of them: old entries and frames without an id do not tip it.
THEOREM RankDecides ==
  ASSUME FourBits
  PROVE  Spec => []ForwardsByRank
<1>1. EntriesOK /\ [Next]_vars => EntriesOK'
  BY EntriesStep
<1>2. EntriesOK /\ FreshKnown => ForwardsByRank
  BY RankCounts
<1> QED BY <1>1, <1>2, EntriesStart, FreshAreKnown, PTL DEF Spec
=============================================================================
