-------------------------- MODULE SlotAssignmentFile --------------------------
(***************************************************************************)
(* The centralized controller with a table from a file: one row for each   *)
(* node, with a 1 for every slot of the frame that is the node's and a 0   *)
(* for the others (TdmaSlotAssignmentFileParser).  The parser only counts  *)
(* rows and fields; what it read is put into the controller by a script.   *)
(***************************************************************************)
EXTENDS TdmaController, Sequences, SequencesExt

CONSTANTS
  Files,   \* bound: files, as sequences of rows [node, fields]
  NoId,    \* a row without a node id
  NoFile   \* the script fills the table by hand

\* A row as the parser sees it: it has a first field, whatever is in it.
Rows == [node : Macs \cup {NoId}, fields : Seq(STRING) \ {<<>>}]

ASSUME FilesHaveRows ==
  /\ Files \subseteq Seq(Rows)
  /\ \A f \in Files : \A i \in 1 .. Len(f) : 0 .. Len(f[i].fields) - 1 \subseteq Positions

VARIABLES
  file,             \* m_fileName: what is in the file
  parse,            \* how far the parser, and the script that uses it, have come
  slotArray,        \* m_slotArray
  numRows, numCols  \* m_numRows, m_numCols

fileVars == <<file, parse, slotArray, numRows, numCols>>
allVars == <<vars, fileVars>>

FileInit ==
  /\ Init
  /\ file \in Files \cup {NoFile}
  /\ parse = IF file = NoFile THEN "none" ELSE "reading"
  /\ slotArray = <<>>
  /\ numRows = 0 /\ numCols = 0

-----------------------------------------------------------------------------
(* The parser *)

\* The next row is missing, or has no node id.
AtEnd == ~\E i \in DOMAIN file : i = numRows + 1 /\ file[i].node # NoId

\* Mutant: only the fields that a comma follows are counted.
CountedBeforeCommas(row) == Len(row.fields) - 1

Counted(row) == Len(row.fields)

\* A field that is neither 0 nor 1 fails the assertion.
ReadRow ==
  /\ parse = "reading" /\ ~AtEnd
  /\ LET row == file[numRows + 1]
     IN  IF ToSet(row.fields) \subseteq {"0", "1"}
         THEN /\ numRows' = numRows + 1
              /\ numCols' = numCols + Counted(row)
              /\ slotArray' = Append(slotArray, row)
              /\ UNCHANGED parse
         ELSE parse' = "failed" /\ UNCHANGED <<slotArray, numRows, numCols>>
  /\ UNCHANGED <<vars, file>>

\* The fields of all rows together must be a multiple of the rows: rows of
\* different lengths pass when they are so on average.  Without a row, the
\* division fails.
EndOfFile ==
  /\ parse = "reading" /\ AtEnd
  /\ IF numRows > 0 /\ numCols % numRows = 0
     THEN parse' = "read" /\ numCols' = numCols \div numRows
     ELSE parse' = "failed" /\ UNCHANGED numCols
  /\ UNCHANGED <<vars, file, slotArray, numRows>>

\* The rows in which a slot is marked.
Marking(rows, slot) ==
  {i \in 1 .. Len(rows) : slot < Len(rows[i].fields) /\ rows[i].fields[slot + 1] = "1"}

\* The script sets the number of slots and adds those marked, row by row: of two
\* rows that mark one slot the first gets it.
FillTable ==
  /\ parse = "read" /\ ~activeEpoch
  /\ parse' = "filled"
  /\ total' = numCols
  /\ slotPtrs' = [slot \in {s \in Positions : Marking(slotArray, s) # {}} |->
                    slotArray[Min(Marking(slotArray, slot))].node]
  /\ UNCHANGED <<timeVars, sessionVars, file, slotArray, numRows, numCols>>

FileNext ==
  \/ ReadRow \/ EndOfFile \/ FillTable
  \/ parse \in {"none", "filled"} /\ Next /\ UNCHANGED fileVars

FileSpec ==
  FileInit /\ [][FileNext]_allVars /\ Fairness

-----------------------------------------------------------------------------
(* Properties *)

\* The rows name their nodes, are equally long and mark each slot once.
FitsFrame(rows) ==
  /\ rows # <<>>
  /\ \A i \in 1 .. Len(rows) :
       /\ rows[i].node # NoId /\ ToSet(rows[i].fields) \subseteq {"0", "1"}
       /\ Len(rows[i].fields) = Len(rows[1].fields)
  /\ \A slot \in 0 .. Len(rows[1].fields) - 1 : Cardinality(Marking(rows, slot)) = 1

\* A file that fits a frame is not refused, and the table made from it has for
\* every slot of the frame, and no other, the node whose row marks the slot: no
\* row and no field is lost on the way.
FileFillsFrame ==
  [][file # NoFile /\ FitsFrame(file) =>
       /\ parse' # "failed"
       /\ FillTable =>
            /\ Assigned'
            /\ \A i \in 1 .. Len(file) : \A slot \in 0 .. total' - 1 :
                 i \in Marking(file, slot) => slotPtrs'[slot] = file[i].node]_allVars
=============================================================================
