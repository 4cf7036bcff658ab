------------------------------- MODULE UdpStream -------------------------------
(* Data that comes to a data stream in numbered UDP packets (mk5.cpp).  The    *)
(* network loses, repeats and reorders packets; Mk5DataStream::readnetwork is  *)
(* asked for a number of bytes, puts the packets that are of these into their  *)
(* places, and fills the places of those that have not come by the time the    *)
(* last one does, or a later one.  What is over of a packet stays in udp_buf   *)
(* for the next call, and so does a packet that belongs to a later call.       *)
(*                                                                             *)
(* Bytes are counted in units of 64 bits.  A unit of data is known by its      *)
(* place in the stream: packet q has the units q * udpsize and following.      *)
EXTENDS Integers, FiniteSets

CONSTANTS
    udpsize,        \* units of data in a packet
    readbytes,      \* units in a segment of the data stream
    Catch,          \* units that may be missing in front of a frame in a segment
    First,          \* sequence number of the first packet
    MaxSequence,    \* bound of the sequence numbers
    MaxLost,        \* packets that may be lost together
    MaxLate         \* how much later than its successors a packet may come

ASSUME SizeAssumption == /\ {udpsize, readbytes} \subseteq Nat \ {0}
                         /\ Catch \subseteq 1 .. readbytes
                         /\ {First, MaxSequence, MaxLost, MaxLate} \subseteq Nat

Fill == -1          \* FILL_PATTERN
Old == -2           \* left in memory from an earlier use

VARIABLES
    pc,             \* where networkToMemory is
    newest,         \* the newest packet the network has delivered
    packet_head,    \* the newest packet that was of use
    packet_segmentstart,    \* packet of the first unit that is wanted
    packet_segmentend,      \* packet of the last unit that is wanted
    udp_offset,     \* units to the end of the packet in udp_buf, if it is of use
    udp_buf,        \* the last packet, or what is over of it
    bytestoread,    \* units wanted
    segmentsize,    \* packets of the call
    packets_arrived,        \* packets that have their place filled, counted from
                            \* packet_segmentstart
    next_segmentstart, next_udpoffset,  \* values for the next call
    segment,        \* the segment that is read to
    astray,         \* whether something was written outside of the segment
    position,       \* place in the stream of the first unit wanted
    delivered,      \* packets that came since the call, or were in udp_buf
    mishaps         \* what has happened: "endlost", that the last packet of some
                    \* call was lost, or late; "exact", that a call wanted exactly
                    \* what was left in udp_buf.  Nothing depends on it but what
                    \* the properties claim.

state == <<packet_head, packet_segmentstart, udp_offset, udp_buf>>
call == <<packet_segmentend, bytestoread, segmentsize, packets_arrived,
          next_segmentstart, next_udpoffset, delivered>>
memory == <<segment, astray>>
vars == <<pc, newest, position, mishaps, state, call, memory>>

\* C's division and remainder, which round towards zero
Div(a, b) == IF a >= 0 THEN a \div b ELSE -((-a) \div b)
Rem(a, b) == a - b * Div(a, b)

\* packets_arrived.size()
ArrivedSize == Div(readbytes, udpsize) + 2

\* recvmsg of a packet
PacketOf(sequence) == [i \in 0 .. udpsize - 1 |-> sequence * udpsize + i]

\* memcpy of n units of from to a place of the segment s
Copied(s, place, from, n) ==
    [x \in DOMAIN s |-> IF x - place \notin 0 .. n - 1 THEN s[x]
                       ELSE IF x - place \in DOMAIN from THEN from[x - place] ELSE Old]
Outside(place, n) == \E x \in place .. place + n - 1 : x \notin 0 .. readbytes - 1

Write(place, from, n) ==
    /\ segment' = Copied(segment, place, from, n)
    /\ astray' = (astray \/ Outside(place, n))

\* memmove of the rest of udp_buf to its beginning
Shifted(buf, n) == [i \in DOMAIN buf |-> IF i + n \in DOMAIN buf THEN buf[i + n] ELSE buf[i]]

Init ==
    /\ pc = "segment"
    /\ newest = First - 1 /\ position = 0
    /\ packet_head = 0 /\ packet_segmentstart = 0 /\ packet_segmentend = 0
    /\ udp_offset = 0 /\ udp_buf = [i \in 0 .. udpsize - 1 |-> Old]
    /\ bytestoread = readbytes /\ segmentsize = 1 /\ packets_arrived = {}
    /\ next_segmentstart = 0 /\ next_udpoffset = 0
    /\ segment = [x \in 0 .. readbytes - 1 |-> Old] /\ astray = FALSE
    /\ delivered = {} /\ mishaps = {}

\* Of a step that is a mishap when a condition holds
Mishap(kind, condition) == mishaps' = mishaps \cup {k \in {kind} : condition}

-----------------------------------------------------------------------------
(* A call of readnetwork.                                                      *)

\* The packet of the last unit of a call
LastPacket(wanted) ==
    packet_segmentstart + Div(wanted - (udp_offset % udpsize) - 1, udpsize)
        + (IF udp_offset > 0 /\ udp_offset < wanted THEN 1 ELSE 0)

\* The packets of a call, and the abort if they are too many for packets_arrived
Call(wanted) ==
    /\ bytestoread' = wanted
    /\ packet_segmentend' = LastPacket(wanted)
    /\ segmentsize' = LastPacket(wanted) - packet_segmentstart + 1
    /\ packets_arrived' = {}
    /\ delivered' = IF udp_offset > 0 THEN {udp_buf[0] \div udpsize} ELSE {}
    /\ Mishap("exact", udp_offset = wanted)
    /\ pc' = IF segmentsize' > ArrivedSize THEN "abort" ELSE "left"

\* networkToMemory of Mk5DataStream with a packet in udp_buf that belongs to a
\* later segment: the segments up to it are skipped
SkipSegments ==
    /\ pc = "segment"
    /\ udp_offset > readbytes
    /\ LET skip == udp_offset - (udp_offset % readbytes)
       IN  /\ packet_segmentstart' = packet_segmentstart + Div(skip - (udp_offset % udpsize), udpsize)
           /\ position' = position + skip
    /\ udp_offset' = udp_offset % readbytes
    /\ UNCHANGED <<pc, newest, mishaps, packet_head, udp_buf, call, memory>>

\* networkToMemory of DataStream: the call for a segment, whose memory is in use
\* again
ReadSegment ==
    /\ pc = "segment"
    /\ udp_offset <= readbytes
    /\ segment' = [x \in DOMAIN segment |-> Old]
    /\ Call(readbytes)
    /\ UNCHANGED <<newest, position, state, next_segmentstart, next_udpoffset, astray>>

\* Nothing is left of the last packet
NothingOver ==
    /\ pc = "left"
    /\ udp_offset = 0
    /\ udp_offset' = udpsize
    /\ pc' = "receive"
    /\ UNCHANGED <<newest, position, mishaps, packet_head, packet_segmentstart, udp_buf, call,
                   memory>>

\* The packet in udp_buf, and the units to its end there if it is of the first
\* packet wanted
LeftIndex == (udp_offset - 1) \div udpsize
LeftOffset == ((udp_offset - 1) % udpsize) + 1
LeftPlace == LeftOffset + (LeftIndex - 1) * udpsize
CallFitsIn == bytestoread < LeftOffset + LeftIndex * udpsize

\* Mutant: the packet is not marked.
MarkLeftNot == packets_arrived' = {}

\* packets_arrived of the packet in udp_buf
MarkLeft == packets_arrived' = {i \in {LeftIndex} : i < segmentsize}

\* What is left is copied, and there is more to receive
CopyLeft ==
    /\ pc = "left"
    /\ udp_offset > 0 /\ ~CallFitsIn
    /\ MarkLeft
    /\ udp_offset' = LeftOffset
    /\ IF LeftIndex = 0 THEN Write(0, udp_buf, LeftOffset) ELSE Write(LeftPlace, udp_buf, udpsize)
    /\ pc' = "receive"
    /\ UNCHANGED <<newest, position, mishaps, packet_head, packet_segmentstart, udp_buf,
                   packet_segmentend, bytestoread, segmentsize, next_segmentstart,
                   next_udpoffset, delivered>>

\* The packet in udp_buf comes after all that is wanted
LeftIsLater ==
    /\ pc = "left"
    /\ udp_offset > 0 /\ CallFitsIn
    /\ LeftIndex >= segmentsize
    /\ MarkLeft
    /\ udp_offset' = LeftOffset
    /\ next_segmentstart' = IF LeftOffset = udpsize THEN packet_segmentend + 1 ELSE packet_segmentend
    /\ next_udpoffset' = LeftOffset + LeftIndex * udpsize - bytestoread
    /\ pc' = "fill"
    /\ UNCHANGED <<newest, position, mishaps, packet_head, packet_segmentstart, udp_buf,
                   packet_segmentend, bytestoread, segmentsize, delivered, memory>>

\* All that is wanted is left of the first packet
LeftIsAll ==
    /\ pc = "left"
    /\ udp_offset > 0 /\ CallFitsIn
    /\ LeftIndex = 0 /\ LeftIndex < segmentsize
    /\ MarkLeft
    /\ Write(0, udp_buf, bytestoread)
    /\ udp_offset' = LeftOffset - bytestoread
    /\ udp_buf' = IF udp_offset' > 0 THEN Shifted(udp_buf, bytestoread) ELSE udp_buf
    /\ next_segmentstart' = IF udp_offset' > 0 THEN packet_segmentend ELSE packet_segmentend + 1
    /\ next_udpoffset' = udp_offset'
    /\ pc' = "fill"
    /\ UNCHANGED <<newest, position, mishaps, packet_head, packet_segmentstart,
                   packet_segmentend, bytestoread, segmentsize, delivered>>

\* The packet in udp_buf is the last one that is wanted
LeftIsLast ==
    /\ pc = "left"
    /\ udp_offset > 0 /\ CallFitsIn
    /\ LeftIndex > 0 /\ LeftIndex < segmentsize
    /\ MarkLeft
    /\ LET bytes == Rem(bytestoread - LeftOffset, udpsize)
       IN  /\ Write(LeftPlace, udp_buf, bytes)
           /\ udp_buf' = Shifted(udp_buf, bytes)
           /\ udp_offset' = udpsize - bytes
    /\ next_segmentstart' = packet_head
    /\ next_udpoffset' = 0
    /\ pc' = "fill"
    /\ UNCHANGED <<newest, position, mishaps, packet_head, packet_segmentstart,
                   packet_segmentend, bytestoread, segmentsize, delivered>>

-----------------------------------------------------------------------------
(* Packets.                                                                    *)

\* The network delivers any packet that is not too late, or not too far ahead
Arrivals == {q \in First .. MaxSequence : newest - MaxLate <= q /\ q <= newest + 1 + MaxLost}

\* The first packet of all sets the first unit that is wanted
IsFirst(sequence) == packet_head = 0 /\ sequence # 0
StartAt(sequence) == IF IsFirst(sequence) THEN sequence ELSE packet_segmentstart
EndAt(sequence) == IF IsFirst(sequence) THEN sequence + (bytestoread - 1) \div udpsize
                   ELSE packet_segmentend

Index(sequence) == sequence - StartAt(sequence)
\* Mutant: the first packet is counted as a whole one.
PlaceOfWhole(sequence) == Index(sequence) * udpsize

PlaceOf(sequence) == udp_offset + (Index(sequence) - 1) * udpsize

\* What every packet does: it overwrites udp_buf.  Packets have the size that is
\* expected; any other aborts the job, which is left out.
Receive(sequence) ==
    /\ pc = "receive"
    /\ newest' = IF sequence > newest THEN sequence ELSE newest
    /\ delivered' = delivered \cup {sequence}
    /\ packet_segmentstart' = StartAt(sequence)
    /\ packet_segmentend' = EndAt(sequence)
    /\ position' = IF IsFirst(sequence) THEN sequence * udpsize ELSE position
    /\ UNCHANGED <<bytestoread, segmentsize>>

\* A packet from before the first unit that is wanted, or one that is already
\* there
UselessPacket(sequence) ==
    /\ Receive(sequence)
    /\ \/ Index(sequence) < 0
       \/ sequence # EndAt(sequence) /\ Index(sequence) < segmentsize
          /\ Index(sequence) \in packets_arrived
    /\ udp_buf' = PacketOf(sequence)
    /\ packet_head' = IF IsFirst(sequence) THEN sequence ELSE packet_head
    /\ UNCHANGED <<pc, mishaps, udp_offset, packets_arrived, next_segmentstart,
                   next_udpoffset, memory>>

\* A packet of the middle
MiddlePacket(sequence) ==
    /\ Receive(sequence)
    /\ Index(sequence) \in 0 .. segmentsize - 1 /\ sequence # EndAt(sequence)
    /\ Index(sequence) \notin packets_arrived
    /\ Write(PlaceOf(sequence), PacketOf(sequence), udpsize)
    /\ packets_arrived' = packets_arrived \cup {Index(sequence)}
    /\ udp_buf' = PacketOf(sequence)
    /\ packet_head' = IF sequence < packet_head THEN packet_head ELSE sequence
    /\ UNCHANGED <<pc, mishaps, udp_offset, next_segmentstart, next_udpoffset>>

\* Mutant: the remainder is zero for a whole packet.
LastUnitsRem == IF udp_offset = udpsize /\ segmentsize = 1 THEN bytestoread
                ELSE Rem(bytestoread - udp_offset, udpsize)

\* Units of the last packet that are wanted
LastUnits == IF udp_offset = udpsize /\ segmentsize = 1 THEN bytestoread
             ELSE Rem(bytestoread - udp_offset - 1, udpsize) + 1

\* The packet of the last unit that is wanted: the call is over
LastPacketComes(sequence) ==
    /\ Receive(sequence)
    /\ Index(sequence) >= 0 /\ sequence = EndAt(sequence)
    /\ IF LastUnits \in 0 .. udpsize
       THEN /\ Write(PlaceOf(sequence), PacketOf(sequence), LastUnits)
            /\ udp_buf' = Shifted(PacketOf(sequence), LastUnits)
            /\ next_udpoffset' = udpsize - LastUnits
            /\ next_segmentstart' = IF LastUnits = udpsize THEN sequence + 1 ELSE sequence
            /\ packet_head' = sequence
            /\ packets_arrived' = packets_arrived \cup {Index(sequence)}
            /\ pc' = "fill"
       ELSE /\ pc' = "abort"
            /\ UNCHANGED <<packet_head, udp_buf, packets_arrived, next_segmentstart,
                           next_udpoffset, memory>>
    /\ UNCHANGED <<mishaps, udp_offset>>

\* A packet after the last one wanted, which is therefore lost, or late: the call
\* is over, and the packet is left for a later one
LaterPacket(sequence) ==
    /\ Receive(sequence)
    /\ Index(sequence) >= segmentsize /\ sequence # EndAt(sequence)
    /\ udp_buf' = PacketOf(sequence)
    /\ next_segmentstart' = IF udp_offset = udpsize THEN packet_segmentend + 1 ELSE packet_segmentend
    /\ next_udpoffset' = udpsize - Rem(bytestoread - udp_offset, udpsize)
                           + udpsize * (sequence - packet_segmentend)
    /\ packet_head' = sequence
    /\ Mishap("endlost", TRUE)
    /\ pc' = "fill"
    /\ UNCHANGED <<udp_offset, packets_arrived, memory>>

\* The socket is closed, or fails: keepreading is set to false
SocketCloses ==
    /\ pc = "receive"
    /\ pc' = "closed"
    /\ UNCHANGED <<newest, position, mishaps, state, call, memory>>

-----------------------------------------------------------------------------
(* The end of a call.                                                          *)

\* The units that fill data goes to
FilledBy(i) ==
    IF i = 0 THEN 0 .. udp_offset - 1
    ELSE LET place == udp_offset + (i - 1) * udpsize
             rest == Rem(bytestoread - udp_offset, udpsize)
         IN  IF i # packet_segmentend - packet_segmentstart THEN place .. place + udpsize - 1
             ELSE IF place + rest > bytestoread THEN {} ELSE place .. place + rest - 1

Filled == UNION {FilledBy(i) : i \in (0 .. segmentsize - 1) \ packets_arrived}

FillMissing ==
    /\ pc = "fill"
    /\ segment' = [x \in DOMAIN segment |-> IF x \in Filled THEN Fill ELSE segment[x]]
    /\ astray' = (astray \/ ~(Filled \subseteq DOMAIN segment))
    /\ packet_segmentstart' = next_segmentstart
    /\ udp_offset' = next_udpoffset
    /\ pc' = IF bytestoread = readbytes THEN "read" ELSE "caught"
    /\ UNCHANGED <<newest, position, mishaps, packet_head, udp_buf, call>>

\* The segment begins with a frame, or all of it was caught up
SegmentDone ==
    /\ pc \in {"read", "caught"}
    /\ position' = position + bytestoread
    /\ pc' = "segment"
    /\ UNCHANGED <<newest, mishaps, state, call, memory>>

\* testForSync finds the frame later in the segment and moves the rest to its
\* beginning; readnetwork is called for what is then missing
CatchUp(missing) ==
    /\ pc = "read"
    /\ position' = position + bytestoread
    /\ segment' = Shifted(segment, missing)
    /\ Call(missing)
    /\ UNCHANGED <<newest, state, next_segmentstart, next_udpoffset, astray>>

-----------------------------------------------------------------------------

Next ==
    \/ SkipSegments \/ ReadSegment
    \/ NothingOver \/ CopyLeft \/ LeftIsLater \/ LeftIsAll \/ LeftIsLast
    \/ \E sequence \in Arrivals :
          \/ UselessPacket(sequence) \/ MiddlePacket(sequence)
          \/ LastPacketComes(sequence) \/ LaterPacket(sequence)
    \/ SocketCloses \/ FillMissing \/ SegmentDone
    \/ \E missing \in Catch : CatchUp(missing)

Spec == Init /\ [][Next]_vars

-----------------------------------------------------------------------------
(* Properties.                                                                 *)

TypeOK ==
    /\ pc \in {"segment", "left", "receive", "fill", "read", "caught", "closed", "abort"}
    /\ newest \in -1 .. MaxSequence /\ packet_head \in 0 .. MaxSequence
    /\ position \in Nat /\ mishaps \subseteq {"endlost", "exact"} /\ astray \in BOOLEAN
    /\ packet_segmentstart \in Nat /\ packet_segmentend \in Nat
    /\ next_segmentstart \in Nat /\ udp_offset \in Nat /\ next_udpoffset \in Nat
    /\ DOMAIN udp_buf = 0 .. udpsize - 1 /\ DOMAIN segment = 0 .. readbytes - 1
    /\ bytestoread \in 1 .. readbytes /\ segmentsize \in Nat /\ delivered \subseteq Nat
    /\ packets_arrived \subseteq 0 .. ArrivedSize - 1

CallOver == pc \in {"read", "caught"}
Wanted == 0 .. bytestoread - 1

\* So far the last packet of every call has come, and in time, and no call wanted
\* exactly what was left in udp_buf.  After the latter readnetwork goes on to receive,
\* as "bytestoread<udp_offset" is false, and the stream slips by a packet though
\* nothing was lost (LeftUnderstood; MCUdpStream_exact.cfg).
Unharmed == mishaps = {}

\* Whatever the network loses, repeats or reorders, what readnetwork returns has
\* each unit of the stream in its own place, or fill data there, and nothing that
\* was left in memory; while Unharmed holds.
InPlace == CallOver /\ Unharmed =>
               \A x \in Wanted : segment[x] \in {Fill, position + x}

\* readnetwork fills the places of lost packets only: a packet that came before
\* the call was over is in its place; while Unharmed holds.
DeliveredKept == CallOver /\ Unharmed =>
    \A x \in Wanted : (position + x) \div udpsize \in delivered => segment[x] = position + x

\* What a call of readnetwork returns is right.
SegmentRight == InPlace /\ DeliveredKept

\* readnetwork writes to the segment it was given only, while Unharmed holds.
WithinSegment == astray => ~Unharmed

\* Between calls udp_offset counts the units to the end of the packet in udp_buf,
\* and packet_segmentstart is the packet of the next unit; while Unharmed holds.
OffsetRight == pc = "segment" /\ Unharmed =>
    /\ packet_segmentstart = position \div udpsize
    /\ udp_offset > 0 => position + udp_offset = (packet_head + 1) * udpsize

\* readnetwork never aborts the job for what it has counted: packets_arrived is large
\* enough for every call, and no more of the last packet is wanted than there is.
\* (It also aborts on a packet of a size that is not expected, which does not come
\* here.)
NeverAborts == pc # "abort"

\* No sequence of packets makes readnetwork write where it must not, or give up.
CallsSafe == TypeOK /\ WithinSegment /\ NeverAborts

\* readnetwork: "udp_offset is left containing number of bytes still to be
\* consumed from last UDP packet. If one of more packet from next frame are missing
\* then udp_offset points to END of missing data, with udpsize bytes are available."
LeftUnderstood == pc = "segment" /\ udp_offset > 0 =>
    position + udp_offset = (packet_head + 1) * udpsize

\* testForSync: "No need to update validbytes - caller will attempt to fill the
\* missing data": the segment then has the data of readbytes from its first frame;
\* while Unharmed holds.
CaughtUp == pc = "caught" /\ Unharmed =>
    \A x \in 0 .. readbytes - 1 : segment[x] \in {Fill, position - (readbytes - bytestoread) + x}

=============================================================================
