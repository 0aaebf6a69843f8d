------------------------ MODULE MC_SlotAssignmentFile ------------------------
(* Files for TLC: the marks of rows, as they are written.                    *)
EXTENDS SlotAssignmentFile

CONSTANTS m1, m2

Row(node, fields) == [node |-> node, fields |-> fields]

SampleFiles == {
  <<Row(m1, <<"1", "0">>), Row(m2, <<"0", "1">>)>>,
  <<Row(m2, <<"1", "0", "0", "1">>), Row(m1, <<"0", "1", "1", "0">>)>>,
  <<Row(m1, <<"1", "0">>), Row(m2, <<"1", "0">>)>>,            \* a slot twice
  <<Row(m1, <<"1", "0">>), Row(m2, <<"0", "0", "0", "1">>)>>,  \* three on average
  <<Row(m1, <<"1">>), Row(m2, <<"0", "1">>)>>,
  <<Row(m1, <<"1", "0">>), Row(m2, <<"0", "2">>)>>,
  <<Row(m1, <<"1">>), Row(NoId, <<"1">>), Row(m2, <<"1">>)>>,
  <<>> }
=============================================================================
