------------------------------ MODULE MCDataStream ------------------------------
(* Instances of DataStream.  A subintegration is two units of data, a segment  *)
(* one subintegration or two.  With a delay of one unit requests straddle      *)
(* segments.                                                                   *)
EXTENDS DataStream

Scan(start, duration, config) == [start |-> start, duration |-> duration, config |-> config]
File(start, units, ok) == [start |-> start, units |-> units, ok |-> ok]
Request(scan, offset) == [scan |-> scan, offset |-> offset, model |-> TRUE]

OneScan == <<Scan(0, 40, 0)>>
LongFile == <<File(0, 28, TRUE)>>
InOrder == [k \in 1 .. 7 |-> Request(1, 2 * k)]
Longer == [k \in 1 .. 13 |-> Request(1, 2 * k)]

\* The two files of a ring that is nearly full when the second one begins.
TwoFiles == <<File(0, 10, TRUE), File(10, 6, TRUE)>>

\* The first file cannot be opened, the second one begins in the middle of a
\* segment's worth of requests and ends with half a segment, the third one
\* comes after a gap, in the next scan.
TwoScans == <<Scan(0, 20, 0), Scan(20, 20, 0)>>
ThreeFiles == <<File(0, 8, FALSE), File(4, 14, TRUE), File(22, 10, TRUE)>>
Gaps == <<Request(1, 0), Request(1, 2), Request(1, 4), Request(1, 6), Request(1, 8),
          [scan |-> 1, offset |-> 10, model |-> FALSE], Request(1, 14), Request(1, 18),
          Request(2, 0), Request(1, 19), Request(2, 4), Request(2, 8), Request(2, 16)>>

\* The second file continues the first one, which ends within a segment.
ShortFile == <<File(0, 5, TRUE), File(5, 6, TRUE)>>

\* The second file is of the second scan, as far from its start as the segment
\* after the first file would be from the start of the first scan.
SecondScan == <<File(0, 6, TRUE), File(26, 6, TRUE)>>

\* The second scan has another configuration.
TwoConfigs == <<Scan(0, 10, 0), Scan(10, 20, 1)>>

=============================================================================
