------------------------------ MODULE TdmaHeader ------------------------------
(***************************************************************************)
(* The small fields of ns3::TdmaHeader: how its setters cut them, and the  *)
(* frame control word they travel in.  Every field is an unsigned byte.    *)
(***************************************************************************)
EXTENDS Integers

\* & 0x0f and & 0xff of a number that is not negative.
Nibble(x) == x % 16
Byte(x) == x % 256

FieldsOf(nibbles, bytes) ==
  [ttl : nibbles, type : nibbles, seq : bytes, srcId : bytes, srcWaitSize : bytes]

\* ROUTE and DATA of the enumeration.
Route == 0
Data == 1

\* A header of which the program sets nothing else: its type is not initialized.
NewHeader(seq, type) ==
  [ttl |-> 0, type |-> type, seq |-> seq, srcId |-> 0, srcWaitSize |-> 0]

\* Both setters keep four bits, although eight are sent.
SetSrcId(hdr, id) == [hdr EXCEPT !.srcId = Nibble(id)]
SetSrcWaitSize(hdr, size) == [hdr EXCEPT !.srcWaitSize = Nibble(size)]

GetFrameControl(hdr) ==
  Nibble(hdr.ttl) + 16 * Nibble(hdr.type) + 256 * Byte(hdr.seq)
    + 65536 * Byte(hdr.srcId) + 16777216 * Byte(hdr.srcWaitSize)

SetFrameControl(word) ==
  [ttl |-> Nibble(word), type |-> Nibble(word \div 16),
   seq |-> Byte(word \div 256), srcId |-> Byte(word \div 65536),
   srcWaitSize |-> Byte(word \div 16777216)]

\* What a receiver reads of a header that a sender wrote.
Received(hdr) == SetFrameControl(GetFrameControl(hdr))
=============================================================================
