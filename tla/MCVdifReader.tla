------------------------------ MODULE MCVdifReader ------------------------------
(* Instances of VdifReader.                                                    *)
EXTENDS VdifReader

FileOf(units, skipped) == [units |-> units, skipped |-> skipped, opens |-> TRUE, past |-> FALSE]
File(units) == FileOf(units, {})
Missing == [File(4) EXCEPT !.opens = FALSE]
Past == [File(4) EXCEPT !.past = TRUE]

\* Files of one list: shorter than a segment, that end in each slot, in the
\* middle of it and at its end, before and after the reader comes round to slot 1;
\* one with unwanted frames up to the end of the ring, one with none but unwanted
\* frames in a slot and one that begins with them; lists with a file that does not
\* open or that is over.
PassInputs == {<<File(n)>> : n \in {3, 10, 14, 20, 27, 34, 35, 39, 55}}
              \cup {<<FileOf(38, 21 .. 27)>>, <<FileOf(24, 10 .. 23)>>,
                    <<FileOf(4, 0 .. 3), File(4)>>, <<File(9), File(8)>>, <<Past, File(4)>>,
                    <<File(8), Missing, File(4)>>}

LongFile == {<<File(38)>>}
PastFile == {<<Past, File(11)>>}
LastSlotFile == {<<File(27)>>}
MiddleFile == {<<File(20)>>}
ShortFile == {<<File(3)>>}
TwoFiles == {<<FileOf(12, 0 .. 11), File(12)>>}
=============================================================================
