---------------------------- MODULE UdpStreamProofs ----------------------------
(* Proofs about module UdpStream, for every size of packets and segments, every *)
(* loss, repetition and change of order in the network and every use of         *)
(* testForSync: readnetwork stays within its segment and never aborts, what it  *)
(* returns is right, and it knows where it is in the stream.                    *)
EXTENDS UdpStream, Induction

\* A stream that does not begin with packet 0, and segments of a packet or more
Usual == First \in 1 .. MaxSequence /\ udpsize <= readbytes

-----------------------------------------------------------------------------
(* The inductive invariant.                                                    *)

InCall == pc \in {"left", "receive", "fill"}

\* The buffers hold numbers, and udp_buf holds a packet once one has come
BuffersOK ==
    /\ udp_buf \in [0 .. udpsize - 1 -> Int] /\ segment \in [0 .. readbytes - 1 -> Int]
    /\ packet_head > 0 => \A i \in 0 .. udpsize - 1 : udp_buf[i] \in Nat

\* Before the first packet
BeforeFirst == packet_head = 0 =>
    /\ pc \in {"segment", "left", "receive", "closed"}
    /\ position = 0 /\ packet_segmentstart = 0 /\ mishaps = {}
    /\ delivered = {} /\ packets_arrived = {}
    /\ pc \in {"segment", "left"} => udp_offset = 0
    /\ pc = "receive" => /\ udp_offset = udpsize
                         /\ packet_segmentend = (bytestoread - 1) \div udpsize

\* The packets of a call, and the units of the first and of the last of them
CountOK ==
    /\ InCall => /\ segmentsize = packet_segmentend - packet_segmentstart + 1
                 /\ segmentsize \in 1 .. ArrivedSize
                 /\ packets_arrived \subseteq 0 .. segmentsize - 1
    /\ pc = "left" => packet_segmentend = LastPacket(bytestoread)
    /\ pc = "receive" =>
          /\ udp_offset \in 1 .. udpsize
          /\ bytestoread < udp_offset => udp_offset = udpsize /\ segmentsize = 1
          /\ udp_offset = udpsize /\ segmentsize = 1 => bytestoread <= udpsize

NumbersOK == TypeOK /\ BuffersOK /\ BeforeFirst /\ CountOK /\ NeverAborts

\* What is over of a packet when the unit at a place of the stream is the next
Rests(place, start, offset) ==
    /\ offset \in 0 .. udpsize - 1
    /\ offset = 0 => place = start * udpsize
    /\ offset > 0 => /\ place + offset = (start + 1) * udpsize
                     /\ packet_head = start
                     /\ \A i \in 0 .. offset - 1 : udp_buf[i] = place + i

\* A packet that came in this call has its place, and is there
ArrivedThere ==
    /\ \A q \in delivered : q - packet_segmentstart \in 0 .. segmentsize - 1 =>
           q - packet_segmentstart \in packets_arrived
    /\ \A x \in Wanted :
           ((position + x) \div udpsize) - packet_segmentstart \in packets_arrived =>
               segment[x] = position + x

\* The first and the last unit of a call are in its first and in its last packet
CallInStream ==
    /\ position + udp_offset = (packet_segmentstart + 1) * udpsize
    /\ packet_segmentend = (position + bytestoread - 1) \div udpsize

ReceiveOK ==
    /\ CallInStream /\ ArrivedThere
    /\ udp_offset < udpsize => 0 \in packets_arrived /\ bytestoread > udp_offset

FillOK ==
    /\ ArrivedThere
    /\ segmentsize - 1 \in packets_arrived
    /\ packet_segmentend = (position + bytestoread - 1) \div udpsize
    /\ packet_segmentstart = position \div udpsize
    /\ segmentsize > 1 => CallInStream
    /\ Rests(position + bytestoread, next_segmentstart, next_udpoffset)

\* As long as the last packet of every call has come, and no call wanted exactly what
\* was left in udp_buf
StreamOK == mishaps = {} =>
    /\ ~astray
    /\ pc \in {"segment", "left"} => Rests(position, packet_segmentstart, udp_offset)
    /\ pc = "left" => /\ udp_offset # bytestoread /\ packets_arrived = {}
                      /\ delivered = IF udp_offset > 0 THEN {packet_segmentstart} ELSE {}
    /\ pc = "receive" => ReceiveOK
    /\ pc = "fill" => FillOK
    /\ CallOver => Rests(position + bytestoread, packet_segmentstart, udp_offset)

CallInv == NumbersOK /\ StreamOK /\ SegmentRight

-----------------------------------------------------------------------------
(* Sizes.                                                                      *)

\* What the constants are.
LEMMA Constants ==
    /\ udpsize \in Nat \ {0} /\ readbytes \in Nat \ {0} /\ Catch \subseteq 1 .. readbytes
    /\ First \in Nat /\ MaxSequence \in Nat /\ MaxLost \in Nat /\ MaxLate \in Nat
  BY SizeAssumption

\* Quotient and remainder of C agree with the others for numbers from zero, and leave
\* a negative number that is less than the divisor.
LEMMA CDivision ==
    ASSUME NEW b \in Nat \ {0}, NEW a \in Int
    PROVE  /\ Div(a, b) \in Int /\ Rem(a, b) \in 1 - b .. b - 1
           /\ a >= 0 => /\ Div(a, b) = a \div b /\ Div(a, b) \in Nat
                        /\ Rem(a, b) = a % b /\ Rem(a, b) \in Nat
           /\ -a \in 1 .. b - 1 => Div(a, b) = 0 /\ Rem(a, b) = a
<1>1. CASE a >= 0
  <2>1. a \in Nat
    BY <1>1
  <2>2. a \div b \in Nat /\ a % b \in 0 .. b - 1 /\ a = b * (a \div b) + (a % b)
    BY <2>1, Division
  <2>3. Div(a, b) = a \div b
    BY <1>1 DEF Div
  <2>4. Rem(a, b) = a - b * (a \div b)
    BY <2>3 DEF Rem
  <2>5. Rem(a, b) = a % b
    BY <2>2, <2>4
  <2> QED BY <1>1, <2>2, <2>3, <2>5
<1>2. CASE a < 0
  <2> DEFINE n == -a
             q == n \div b
             r == n % b
  <2>1. n \in Nat /\ a = -n
    BY <1>2
  <2>2. q \in Nat /\ r \in 0 .. b - 1 /\ n = b * q + r
    BY <2>1, Division
  <2>3. Div(a, b) = -q
    BY <1>2 DEF Div
  <2>4. Rem(a, b) = a - b * (-q)
    BY <2>3 DEF Rem
  <2>5. n \in 1 .. b - 1 => q = 0
    <3>1. b * 0 <= n
      BY <2>1
    <3> QED BY <2>1, <3>1, QuotientIs
  <2> HIDE DEF n, q, r
  <2>6. b * (-q) = -(b * q)
    BY <2>2
  <2>7. Rem(a, b) = -r
    BY <2>1, <2>2, <2>4, <2>6
  <2>8. Div(a, b) \in Int /\ Rem(a, b) \in 1 - b .. b - 1
    BY <2>2, <2>3, <2>7
  <2>9. n \in 1 .. b - 1 => Div(a, b) = 0 /\ Rem(a, b) = a
    BY <2>1, <2>2, <2>3, <2>5, <2>7
  <2> QED BY <1>2, <2>1, <2>8, <2>9
<1> QED BY <1>1, <1>2

\* The packets of a call are never more than packets_arrived has room for.
LEMMA SizeOfCall ==
    ASSUME NEW wanted \in 1 .. readbytes, NEW offset \in Nat
    PROVE  /\ Div(wanted - (offset % udpsize) - 1, udpsize) \in Nat
           /\ Div(wanted - (offset % udpsize) - 1, udpsize) + 2 <= ArrivedSize
           /\ ArrivedSize \in Nat
<1> DEFINE r == offset % udpsize
           a == wanted - r - 1
<1>1. r \in 0 .. udpsize - 1
  BY Constants, Division
<1> HIDE DEF r
<1>2. Div(readbytes, udpsize) = readbytes \div udpsize /\ readbytes \div udpsize \in Nat
  <2>1. readbytes \in Int /\ readbytes >= 0 /\ udpsize \in Nat \ {0}
    BY Constants
  <2> QED BY <2>1, CDivision
<1>3. CASE a >= 0
  <2>1. a \in Nat /\ a <= readbytes
    BY <1>1, <1>3, Constants
  <2> HIDE DEF a
  <2>2. Div(a, udpsize) = a \div udpsize /\ Div(a, udpsize) \in Nat
    BY <1>3, <2>1, Constants, CDivision
  <2>3. a \div udpsize <= readbytes \div udpsize
    BY <2>1, Constants, QuotientGrows
  <2> QED BY <1>2, <2>2, <2>3 DEF ArrivedSize, a, r
<1>4. CASE a < 0
  <2>1. a \in Int /\ -a \in 1 .. udpsize - 1
    BY <1>1, <1>4, Constants
  <2> HIDE DEF a
  <2>2. Div(a, udpsize) = 0
    BY <2>1, Constants, CDivision
  <2> QED BY <1>2, <2>2 DEF ArrivedSize, a, r
<1>5. a \in Int
  BY <1>1
<1> QED BY <1>3, <1>4, <1>5

\* The packets that Call counts.
LEMMA PacketsOfCall ==
    ASSUME NEW wanted \in 1 .. readbytes, TypeOK
    PROVE  /\ LastPacket(wanted) \in Nat
           /\ LastPacket(wanted) - packet_segmentstart + 1 \in 1 .. ArrivedSize
<1> DEFINE d == Div(wanted - (udp_offset % udpsize) - 1, udpsize)
<1>1. d \in Nat /\ d + 2 <= ArrivedSize /\ ArrivedSize \in Nat
  BY SizeOfCall DEF TypeOK
<1>2. \/ LastPacket(wanted) = packet_segmentstart + d
      \/ LastPacket(wanted) = packet_segmentstart + d + 1
  <2>1. packet_segmentstart + d \in Int
    BY <1>1 DEF TypeOK
  <2> QED BY <2>1 DEF LastPacket
<1> HIDE DEF d
<1> QED BY <1>1, <1>2 DEF TypeOK
-----------------------------------------------------------------------------
(* The counts of a call, which hold whatever is lost.                          *)

\* The parts of the invariant after a step.
LEMMA NumbersInit ==
    ASSUME Init, Usual
    PROVE  NumbersOK
<1>1. TypeOK
  <2>2. newest \in -1 .. MaxSequence
    BY Constants DEF Init, Usual
  <2>3. /\ DOMAIN udp_buf = 0 .. udpsize - 1 /\ DOMAIN segment = 0 .. readbytes - 1
        /\ bytestoread \in 1 .. readbytes /\ packet_head \in 0 .. MaxSequence
    BY Constants DEF Init
  <2>4. /\ pc = "segment" /\ mishaps \subseteq {"endlost", "exact"} /\ astray \in BOOLEAN
        /\ delivered \subseteq Nat /\ packets_arrived \subseteq 0 .. ArrivedSize - 1
    BY DEF Init
  <2>5. /\ position = 0 /\ packet_segmentstart = 0 /\ packet_segmentend = 0 /\ segmentsize = 1
        /\ next_segmentstart = 0 /\ udp_offset = 0 /\ next_udpoffset = 0
    BY DEF Init
  <2> QED BY <2>2, <2>3, <2>4, <2>5 DEF TypeOK
<1>2. BuffersOK
  BY Constants DEF Init, BuffersOK, Old
<1>3. BeforeFirst /\ CountOK /\ NeverAborts
  BY DEF Init, BeforeFirst, CountOK, NeverAborts, InCall
<1> QED BY <1>1, <1>2, <1>3 DEF NumbersOK
\* What Call leaves alone, and what it sets, whichever thread of the read calls it.
LEMMA NumbersCall ==
    ASSUME NumbersOK, pc \in {"segment", "read"}, NEW wanted \in 1 .. readbytes, Call(wanted),
           UNCHANGED <<newest, state, next_segmentstart, next_udpoffset, astray>>,
           segment' \in [0 .. readbytes - 1 -> Int], position' \in Nat,
           packet_head = 0 => position' = position
    PROVE  NumbersOK' /\ pc' = "left"
<1> USE DEF state
<1>1. LastPacket(wanted) \in Nat /\ LastPacket(wanted) - packet_segmentstart + 1 \in 1 .. ArrivedSize
  BY PacketsOfCall DEF NumbersOK
<1>2. /\ bytestoread' = wanted /\ packet_segmentend' = LastPacket(wanted)
      /\ segmentsize' = LastPacket(wanted) - packet_segmentstart + 1
      /\ packets_arrived' = {} /\ mishaps' = mishaps \cup {k \in {"exact"} : udp_offset = wanted}
      /\ delivered' = IF udp_offset > 0 THEN {udp_buf[0] \div udpsize} ELSE {}
  BY DEF Call, Mishap
<1>3. ArrivedSize \in Int
  BY SizeOfCall DEF NumbersOK, TypeOK
<1>4. pc' = "left"
  <2>1. ~(segmentsize' > ArrivedSize)
    BY <1>1, <1>2, <1>3
  <2> QED BY <2>1 DEF Call
<1>5. packet_head = 0 => udp_offset = 0 /\ pc = "segment" /\ mishaps = {}
  BY DEF NumbersOK, BeforeFirst
<1>6. delivered' \subseteq Nat
  <2>1. CASE udp_offset > 0
    <3>1. packet_head > 0
      BY <1>5, <2>1 DEF NumbersOK, TypeOK
    <3>2. udp_buf[0] \in Nat
      BY <3>1, Constants DEF NumbersOK, BuffersOK
    <3>3. udp_buf[0] \div udpsize \in Nat
      BY <3>2, Constants, Division
    <3> QED BY <1>2, <2>1, <3>3
  <2> QED BY <1>2, <2>1
<1>7. TypeOK'
  <2>1. /\ newest' \in -1 .. MaxSequence /\ packet_head' \in 0 .. MaxSequence
        /\ astray' \in BOOLEAN /\ packet_segmentstart' \in Nat /\ next_segmentstart' \in Nat
        /\ udp_offset' \in Nat /\ next_udpoffset' \in Nat /\ DOMAIN udp_buf' = 0 .. udpsize - 1
    BY DEF NumbersOK, TypeOK
  <2>2. mishaps' \subseteq {"endlost", "exact"}
    BY <1>2 DEF NumbersOK, TypeOK
  <2>3. segmentsize' \in Nat /\ packet_segmentend' \in Nat
    BY <1>1, <1>2
  <2> QED BY <1>2, <1>4, <1>6, <2>1, <2>2, <2>3 DEF TypeOK
<1>8. BuffersOK'
  BY DEF NumbersOK, BuffersOK
<1>9. BeforeFirst'
  <2> SUFFICES ASSUME packet_head' = 0
               PROVE  /\ position' = 0 /\ packet_segmentstart' = 0 /\ mishaps' = {}
                      /\ delivered' = {} /\ packets_arrived' = {} /\ udp_offset' = 0
    BY <1>4 DEF BeforeFirst
  <2>1. udp_offset = 0 /\ mishaps = {} /\ position = 0 /\ packet_segmentstart = 0
    BY <1>5 DEF NumbersOK, BeforeFirst
  <2>2. udp_offset # wanted
    BY <2>1
  <2>3. mishaps' = {}
    BY <1>2, <2>1, <2>2
  <2> QED BY <1>2, <2>1, <2>3
<1>10. CountOK'
  <2>1. LastPacket(bytestoread)' = LastPacket(wanted)
    BY <1>2 DEF LastPacket
  <2>2. packets_arrived' \subseteq 0 .. segmentsize' - 1
    BY <1>2
  <2>3. segmentsize' = packet_segmentend' - packet_segmentstart' + 1
    BY <1>2
  <2>4. segmentsize' \in 1 .. ArrivedSize'
    BY <1>1, <1>2 DEF ArrivedSize
  <2>5. packet_segmentend' = LastPacket(bytestoread)'
    BY <1>2, <2>1
  <2> QED BY <1>4, <2>2, <2>3, <2>4, <2>5 DEF CountOK
<1> QED BY <1>4, <1>7, <1>8, <1>9, <1>10 DEF NumbersOK, NeverAborts

\* Shifted moves what is in a buffer.
LEMMA ShiftedType ==
    ASSUME NEW n \in Nat, NEW k \in Int, NEW buf \in [0 .. n - 1 -> Int]
    PROVE  /\ Shifted(buf, k) \in [0 .. n - 1 -> Int]
           /\ buf \in [0 .. n - 1 -> Nat] => Shifted(buf, k) \in [0 .. n - 1 -> Nat]
  BY DEF Shifted

\* A call for a segment, and one for what is missing of it.
LEMMA NumbersReadSegment ==
    ASSUME NumbersOK, ReadSegment
    PROVE  NumbersOK' /\ pc' = "left"
<1>1. segment' \in [0 .. readbytes - 1 -> Int]
  BY DEF ReadSegment, NumbersOK, TypeOK, Old
<1>2. position' = position /\ position \in Nat
  BY DEF ReadSegment, NumbersOK, TypeOK
<1>3. readbytes \in 1 .. readbytes
  BY Constants
<1>4. Call(readbytes) /\ UNCHANGED <<newest, state, next_segmentstart, next_udpoffset, astray>>
      /\ pc \in {"segment", "read"}
  BY DEF ReadSegment
<1> QED BY <1>1, <1>2, <1>3, <1>4, NumbersCall

LEMMA NumbersCatchUp ==
    ASSUME NumbersOK, NEW missing \in Catch, CatchUp(missing)
    PROVE  NumbersOK' /\ pc' = "left"
<1>1. missing \in 1 .. readbytes /\ missing \in Nat
  BY Constants
<1>2. segment' \in [0 .. readbytes - 1 -> Int]
  <2>1. segment \in [0 .. readbytes - 1 -> Int] /\ segment' = Shifted(segment, missing)
    BY DEF CatchUp, NumbersOK, BuffersOK
  <2>2. missing \in Int /\ readbytes \in Nat
    BY <1>1, Constants
  <2> QED BY <2>1, <2>2, ShiftedType
<1>3. position' \in Nat
  BY DEF CatchUp, NumbersOK, TypeOK
<1>4. packet_head # 0
  BY DEF CatchUp, NumbersOK, BeforeFirst
<1>5. Call(missing) /\ UNCHANGED <<newest, state, next_segmentstart, next_udpoffset, astray>>
      /\ pc \in {"segment", "read"}
  BY DEF CatchUp
<1> QED BY <1>1, <1>2, <1>3, <1>4, <1>5, NumbersCall

\* Segments that are skipped.
LEMMA NumbersSkip ==
    ASSUME NumbersOK, SkipSegments
    PROVE  NumbersOK'
<1> DEFINE r == udp_offset % readbytes
           m == udp_offset % udpsize
           d == Div(udp_offset - r - m, udpsize)
<1>1. pc = "segment" /\ udp_offset > readbytes /\ udp_offset \in Nat /\ position \in Nat
      /\ packet_segmentstart \in Nat
  BY DEF SkipSegments, NumbersOK, TypeOK
<1>2. r \in Nat /\ r <= udp_offset /\ r < readbytes
  BY <1>1, Constants, Division
<1>3. m \in 0 .. udpsize - 1
  BY <1>1, Constants, Division
<1>4. packet_segmentstart' = packet_segmentstart + d /\ position' = position + (udp_offset - r)
      /\ udp_offset' = r
  BY DEF SkipSegments
<1> HIDE DEF r, m
<1>5. d \in Nat
  <2> DEFINE a == udp_offset - r - m
  <2>1. a \in Int /\ udpsize \in Nat \ {0} /\ (a >= 0 \/ -a \in 1 .. udpsize - 1)
    BY <1>1, <1>2, <1>3, Constants
  <2> HIDE DEF a
  <2>2. Div(a, udpsize) \in Nat
    BY <2>1, CDivision
  <2> QED BY <2>2 DEF a
<1> HIDE DEF d
<1>6. position' \in Nat /\ packet_segmentstart' \in Nat /\ udp_offset' \in Nat
  BY <1>1, <1>2, <1>4, <1>5
<1>7. UNCHANGED <<pc, newest, mishaps, packet_head, udp_buf, packet_segmentend, bytestoread,
                  segmentsize, packets_arrived, next_segmentstart, next_udpoffset, delivered,
                  segment, astray>>
  BY DEF SkipSegments, call, memory
<1>8. packet_head # 0
  BY <1>1, Constants DEF NumbersOK, BeforeFirst
<1>9. TypeOK'
  BY <1>6, <1>7 DEF NumbersOK, TypeOK, ArrivedSize
<1>10. BuffersOK' /\ NeverAborts'
  BY <1>7 DEF NumbersOK, BuffersOK, NeverAborts
<1>11. BeforeFirst' /\ CountOK'
  BY <1>1, <1>7, <1>8 DEF BeforeFirst, CountOK, InCall
<1> QED BY <1>9, <1>10, <1>11 DEF NumbersOK
\* memcpy puts numbers into the segment, and touches what it is told to.
LEMMA WriteType ==
    ASSUME BuffersOK, TypeOK, NEW place, NEW n, NEW from \in [0 .. udpsize - 1 -> Int],
           Write(place, from, n)
    PROVE  segment' \in [0 .. readbytes - 1 -> Int] /\ astray' \in BOOLEAN
<1>1. segment \in [0 .. readbytes - 1 -> Int]
  BY DEF BuffersOK
<1>2. ASSUME NEW x \in 0 .. readbytes - 1
      PROVE  Copied(segment, place, from, n)[x] \in Int
  <2>1. Copied(segment, place, from, n)[x] =
            IF x - place \notin 0 .. n - 1 THEN segment[x]
            ELSE IF x - place \in DOMAIN from THEN from[x - place] ELSE Old
    BY <1>1 DEF Copied
  <2>2. Old \in Int /\ segment[x] \in Int /\ \A i \in DOMAIN from : from[i] \in Int
    BY <1>1 DEF Old
  <2> QED BY <2>1, <2>2
<1>3. /\ DOMAIN Copied(segment, place, from, n) = 0 .. readbytes - 1
      /\ Copied(segment, place, from, n) =
             [x \in DOMAIN Copied(segment, place, from, n) |-> Copied(segment, place, from, n)[x]]
  BY <1>1 DEF Copied
<1> QED BY <1>2, <1>3 DEF Write

\* Where the packet in udp_buf is.
LEMMA LeftIs ==
    ASSUME TypeOK, udp_offset > 0
    PROVE  /\ LeftIndex \in Nat /\ LeftOffset \in 1 .. udpsize
           /\ LeftOffset + LeftIndex * udpsize = udp_offset /\ LeftOffset <= udp_offset
           /\ CallFitsIn => bytestoread < udp_offset
           /\ ~CallFitsIn => bytestoread >= udp_offset
<1>1. udp_offset - 1 \in Nat /\ udpsize \in Nat \ {0}
  BY Constants DEF TypeOK
<1> DEFINE q == (udp_offset - 1) \div udpsize
           r == (udp_offset - 1) % udpsize
<1>2. q \in Nat /\ r \in 0 .. udpsize - 1 /\ udp_offset - 1 = udpsize * q + r
  BY <1>1, Division
<1>3. LeftIndex = q /\ LeftOffset = r + 1
  BY DEF LeftIndex, LeftOffset
<1> HIDE DEF q, r
<1>4. q * udpsize = udpsize * q /\ q * udpsize \in Nat
  BY <1>1, <1>2
<1>5. LeftIndex \in Nat /\ LeftOffset \in 1 .. udpsize
  BY <1>1, <1>2, <1>3
<1>6. udp_offset \in Int /\ bytestoread \in Int
  BY DEF TypeOK
<1>7. LeftOffset + LeftIndex * udpsize = udp_offset /\ LeftOffset <= udp_offset
  BY <1>2, <1>3, <1>4, <1>6
<1> QED BY <1>5, <1>6, <1>7 DEF CallFitsIn

\* The packet in udp_buf is marked as one of the call.
LEMMA MarkLeftType ==
    ASSUME TypeOK, udp_offset > 0, MarkLeft
    PROVE  packets_arrived' \subseteq 0 .. segmentsize - 1
<1>1. LeftIndex \in Nat /\ segmentsize \in Nat
  BY LeftIs DEF TypeOK
<1> QED BY <1>1 DEF MarkLeft

\* A call of one packet that begins with a packet wants no more than it has.
LEMMA OnePacket ==
    ASSUME NumbersOK, pc = "left", udp_offset = 0 \/ (udp_offset > 0 /\ LeftOffset = udpsize)
    PROVE  /\ segmentsize = 1 => bytestoread <= udpsize
           /\ udp_offset = 0 => segmentsize = ((bytestoread - 1) \div udpsize) + 1
           /\ udp_offset = 0 /\ bytestoread < udpsize => segmentsize = 1
<1> DEFINE a == bytestoread - 1
           q == a \div udpsize
<1>1. udpsize \in Nat \ {0} /\ a \in Nat /\ bytestoread \in Nat /\ udp_offset \in Nat
      /\ packet_segmentstart \in Nat /\ readbytes \in Nat
  BY Constants DEF NumbersOK, TypeOK
<1>2. udp_offset % udpsize = 0
  <2>1. CASE udp_offset = 0
    BY <2>1, <1>1
  <2>2. CASE udp_offset > 0 /\ LeftOffset = udpsize
    <3>1. LeftIndex \in Nat /\ udpsize + LeftIndex * udpsize = udp_offset
      BY <2>2, LeftIs DEF NumbersOK
    <3>2. udpsize * (LeftIndex + 1) = udp_offset /\ LeftIndex + 1 \in Int
      BY <1>1, <3>1
    <3>3. udpsize * (LeftIndex + 1) <= udp_offset /\ udp_offset < udpsize * (LeftIndex + 1) + udpsize
      BY <1>1, <3>2
    <3>4. udp_offset % udpsize = udp_offset - udpsize * (LeftIndex + 1)
      BY <1>1, <3>2, <3>3, QuotientIs
    <3> QED BY <1>1, <3>2, <3>4
  <2> QED BY <2>1, <2>2
<1>3. bytestoread - (udp_offset % udpsize) - 1 = a
  BY <1>1, <1>2
<1>4. Div(a, udpsize) = q
  <2>1. a \in Int /\ a >= 0
    BY <1>1
  <2> HIDE DEF a
  <2> QED BY <1>1, <2>1, CDivision
<1>5. q \in Nat /\ udpsize * q <= a /\ a < udpsize * q + udpsize
  <2> HIDE DEF a
  <2> QED BY <1>1, QuotientBounds
<1>6. segmentsize = q + (IF udp_offset > 0 /\ udp_offset < bytestoread THEN 1 ELSE 0) + 1
  <2>1. segmentsize = LastPacket(bytestoread) - packet_segmentstart + 1
    BY DEF NumbersOK, CountOK, InCall
  <2>2. LastPacket(bytestoread) = packet_segmentstart + q
            + (IF udp_offset > 0 /\ udp_offset < bytestoread THEN 1 ELSE 0)
    BY <1>3, <1>4 DEF LastPacket
  <2> HIDE DEF q
  <2> QED BY <1>1, <1>5, <2>1, <2>2
<1>7. a < udpsize => q = 0
  BY <1>1, QuotientIs
<1>8. a = bytestoread - 1
  OBVIOUS
<1> HIDE DEF a, q
<1>9. segmentsize = 1 => q = 0
  BY <1>5, <1>6
<1>10. segmentsize = 1 => bytestoread <= udpsize
  BY <1>1, <1>5, <1>8, <1>9
<1>11. udp_offset = 0 => segmentsize = q + 1
  BY <1>5, <1>6
<1>12. udp_offset = 0 /\ bytestoread < udpsize => segmentsize = 1
  BY <1>1, <1>7, <1>8, <1>11
<1> QED BY <1>10, <1>11, <1>12 DEF a, q
\* A call with nothing left of a packet, which waits for the first one.
LEMMA NumbersNothingOver ==
    ASSUME NumbersOK, NothingOver
    PROVE  NumbersOK'
<1>1. /\ pc = "left" /\ udp_offset = 0 /\ udp_offset' = udpsize /\ pc' = "receive"
      /\ UNCHANGED <<newest, position, mishaps, packet_head, packet_segmentstart, udp_buf,
                     packet_segmentend, bytestoread, segmentsize, packets_arrived,
                     next_segmentstart, next_udpoffset, delivered, segment, astray>>
  BY DEF NothingOver, call, memory
<1>2. /\ segmentsize = 1 => bytestoread <= udpsize
      /\ segmentsize = ((bytestoread - 1) \div udpsize) + 1
      /\ bytestoread < udpsize => segmentsize = 1
  BY <1>1, OnePacket
<1>3. TypeOK'
  BY <1>1, Constants DEF NumbersOK, TypeOK, ArrivedSize
<1>4. BuffersOK' /\ NeverAborts'
  BY <1>1 DEF NumbersOK, BuffersOK, NeverAborts
<1>5. BeforeFirst'
  <2> SUFFICES ASSUME packet_head' = 0
               PROVE  /\ position' = 0 /\ packet_segmentstart' = 0 /\ mishaps' = {}
                      /\ delivered' = {} /\ packets_arrived' = {} /\ udp_offset' = udpsize
                      /\ packet_segmentend' = (bytestoread' - 1) \div udpsize
    BY <1>1 DEF BeforeFirst
  <2>1. /\ position = 0 /\ packet_segmentstart = 0 /\ mishaps = {}
        /\ delivered = {} /\ packets_arrived = {}
    BY <1>1 DEF NumbersOK, BeforeFirst
  <2>2. segmentsize = packet_segmentend - packet_segmentstart + 1 /\ packet_segmentend \in Nat
    BY <1>1 DEF NumbersOK, CountOK, InCall, TypeOK
  <2>3. (bytestoread - 1) \div udpsize \in Int
    BY Constants DEF NumbersOK, TypeOK
  <2>4. packet_segmentend = (bytestoread - 1) \div udpsize
    BY <1>2, <2>1, <2>2, <2>3
  <2> QED BY <1>1, <2>1, <2>4
<1>6. CountOK'
  <2>1. udp_offset' \in 1 .. udpsize
    BY <1>1, Constants
  <2>2. /\ segmentsize = packet_segmentend - packet_segmentstart + 1
        /\ segmentsize \in 1 .. ArrivedSize /\ packets_arrived \subseteq 0 .. segmentsize - 1
    BY <1>1 DEF NumbersOK, CountOK, InCall
  <2>3. /\ bytestoread' < udp_offset' => udp_offset' = udpsize /\ segmentsize' = 1
        /\ udp_offset' = udpsize /\ segmentsize' = 1 => bytestoread' <= udpsize
    BY <1>1, <1>2
  <2>4. pc' # "left" /\ ArrivedSize' = ArrivedSize
    BY <1>1 DEF ArrivedSize
  <2> QED BY <1>1, <2>1, <2>2, <2>3, <2>4 DEF CountOK
<1> QED BY <1>3, <1>4, <1>5, <1>6 DEF NumbersOK

\* What all calls with something left of a packet have in common.
LEMMA NumbersLeft ==
    ASSUME NumbersOK, pc = "left", udp_offset > 0, MarkLeft, pc' \in {"receive", "fill"},
           UNCHANGED <<newest, position, mishaps, packet_head, packet_segmentstart,
                       packet_segmentend, bytestoread, segmentsize, delivered>>,
           udp_offset' \in Nat, next_segmentstart' \in Nat, next_udpoffset' \in Nat,
           udp_buf' = udp_buf \/ \E n \in Int : udp_buf' = Shifted(udp_buf, n),
           UNCHANGED memory \/ \E place, n : Write(place, udp_buf, n),
           pc' = "receive" => udp_offset' = LeftOffset /\ ~CallFitsIn
    PROVE  NumbersOK'
<1>1. udp_buf \in [0 .. udpsize - 1 -> Int] /\ udpsize \in Nat
  BY Constants DEF NumbersOK, BuffersOK
<1>2. segment' \in [0 .. readbytes - 1 -> Int] /\ astray' \in BOOLEAN
  <2>1. CASE UNCHANGED memory
    BY <2>1 DEF memory, NumbersOK, BuffersOK, TypeOK
  <2>2. CASE \E place, n : Write(place, udp_buf, n)
    BY <1>1, <2>2, WriteType DEF NumbersOK
  <2> QED BY <2>1, <2>2
<1>3. packet_head > 0
  BY DEF NumbersOK, BeforeFirst, TypeOK
<1>4. udp_buf \in [0 .. udpsize - 1 -> Nat]
  <2>1. \A i \in 0 .. udpsize - 1 : udp_buf[i] \in Nat
    BY <1>3 DEF NumbersOK, BuffersOK
  <2> QED BY <1>1, <2>1
<1>5. udp_buf' \in [0 .. udpsize - 1 -> Nat]
  <2>1. CASE udp_buf' = udp_buf
    BY <1>4, <2>1
  <2>2. CASE \E n \in Int : udp_buf' = Shifted(udp_buf, n)
    <3>1. PICK n \in Int : udp_buf' = Shifted(udp_buf, n)
      BY <2>2
    <3> QED BY <1>1, <1>4, <3>1, ShiftedType
  <2> QED BY <2>1, <2>2
<1>6. /\ segmentsize = packet_segmentend - packet_segmentstart + 1
      /\ segmentsize \in 1 .. ArrivedSize /\ packets_arrived' \subseteq 0 .. segmentsize - 1
  BY MarkLeftType DEF NumbersOK, CountOK, InCall
<1>7. ArrivedSize' = ArrivedSize /\ ArrivedSize \in Nat
  BY SizeOfCall DEF ArrivedSize, NumbersOK, TypeOK
<1>8. packets_arrived' \subseteq 0 .. ArrivedSize - 1
  BY <1>6, <1>7
<1>9. TypeOK'
  <2>1. DOMAIN udp_buf' = 0 .. udpsize - 1 /\ DOMAIN segment' = 0 .. readbytes - 1
    BY <1>2, <1>5
  <2> QED BY <1>2, <1>7, <1>8, <2>1 DEF NumbersOK, TypeOK
<1>10. BuffersOK'
  <2>1. udp_buf' \in [0 .. udpsize - 1 -> Int]
    BY <1>5
  <2> QED BY <1>2, <1>5, <2>1 DEF BuffersOK
<1>11. BeforeFirst' /\ NeverAborts'
  BY <1>3 DEF BeforeFirst, NeverAborts
<1>12. CountOK'
  <2>1. ASSUME pc' = "receive"
        PROVE  /\ udp_offset' \in 1 .. udpsize /\ bytestoread' >= udp_offset'
               /\ udp_offset' = udpsize /\ segmentsize' = 1 => bytestoread' <= udpsize
    <3>1. /\ LeftOffset \in 1 .. udpsize /\ LeftOffset <= udp_offset
          /\ ~CallFitsIn => bytestoread >= udp_offset
      BY LeftIs DEF NumbersOK
    <3>2. udp_offset' \in 1 .. udpsize /\ bytestoread' >= udp_offset'
      BY <2>1, <3>1 DEF NumbersOK, TypeOK
    <3>3. LeftOffset = udpsize /\ segmentsize = 1 => bytestoread <= udpsize
      BY OnePacket
    <3> QED BY <2>1, <3>2, <3>3
  <2>2. bytestoread' \in Nat
    BY Constants DEF NumbersOK, TypeOK
  <2>3. pc' = "receive" => ~(bytestoread' < udp_offset')
    BY <1>1, <2>1, <2>2
  <2> QED BY <1>6, <1>7, <2>1, <2>3 DEF CountOK
<1> QED BY <1>9, <1>10, <1>11, <1>12 DEF NumbersOK

\* A call that begins with what is left of a packet, or all of whose data is.
LEMMA NumbersLeftSteps ==
    ASSUME NumbersOK, CopyLeft \/ LeftIsLater \/ LeftIsAll \/ LeftIsLast
    PROVE  NumbersOK'
<1>1. /\ udp_offset \in Nat /\ bytestoread \in Nat \ {0} /\ packet_segmentend \in Nat
      /\ packet_head \in Nat /\ udpsize \in Nat \ {0} /\ next_segmentstart \in Nat
      /\ next_udpoffset \in Nat
  BY Constants DEF NumbersOK, TypeOK
<1>2. udp_offset > 0 => /\ LeftIndex \in Nat /\ LeftOffset \in 1 .. udpsize
                        /\ LeftOffset + LeftIndex * udpsize = udp_offset
                        /\ CallFitsIn => bytestoread < udp_offset
  BY LeftIs DEF NumbersOK
<1>3. CASE CopyLeft
  <2>1. udp_offset' \in Nat /\ next_segmentstart' \in Nat /\ next_udpoffset' \in Nat
    BY <1>1, <1>2, <1>3 DEF CopyLeft
  <2>2. \E place, n : Write(place, udp_buf, n)
    BY <1>3 DEF CopyLeft
  <2>3. /\ pc = "left" /\ udp_offset > 0 /\ MarkLeft /\ pc' = "receive" /\ udp_buf' = udp_buf
        /\ udp_offset' = LeftOffset /\ ~CallFitsIn
        /\ UNCHANGED <<newest, position, mishaps, packet_head, packet_segmentstart,
                       packet_segmentend, bytestoread, segmentsize, delivered>>
    BY <1>3 DEF CopyLeft
  <2> QED BY <2>1, <2>2, <2>3, NumbersLeft
<1>4. CASE LeftIsLater
  <2>1. /\ pc = "left" /\ udp_offset > 0 /\ MarkLeft /\ pc' = "fill" /\ udp_buf' = udp_buf
        /\ udp_offset' = LeftOffset /\ CallFitsIn /\ UNCHANGED memory
        /\ UNCHANGED <<newest, position, mishaps, packet_head, packet_segmentstart,
                       packet_segmentend, bytestoread, segmentsize, delivered>>
        /\ next_segmentstart' \in {packet_segmentend, packet_segmentend + 1}
        /\ next_udpoffset' = LeftOffset + LeftIndex * udpsize - bytestoread
    BY <1>4 DEF LeftIsLater
  <2>2. next_udpoffset' = (LeftOffset + LeftIndex * udpsize) - bytestoread
    <3>1. LeftIndex * udpsize \in Int /\ LeftOffset \in Int
      BY <1>1, <1>2, <2>1
    <3> QED BY <1>1, <2>1, <3>1
  <2>3. next_udpoffset' = udp_offset - bytestoread
    BY <1>2, <2>1, <2>2
  <2>4. bytestoread < udp_offset /\ LeftOffset \in Nat
    BY <1>2, <2>1
  <2>5. udp_offset' \in Nat /\ next_segmentstart' \in Nat
    BY <1>1, <2>1, <2>4
  <2>6. next_udpoffset' \in Nat
    BY <1>1, <2>3, <2>4
  <2> QED BY <2>1, <2>5, <2>6, NumbersLeft
<1>5. CASE LeftIsAll
  <2>1. /\ pc = "left" /\ udp_offset > 0 /\ MarkLeft /\ pc' = "fill" /\ CallFitsIn
        /\ LeftIndex = 0 /\ udp_offset' = LeftOffset - bytestoread
        /\ UNCHANGED <<newest, position, mishaps, packet_head, packet_segmentstart,
                       packet_segmentend, bytestoread, segmentsize, delivered>>
        /\ next_segmentstart' \in {packet_segmentend, packet_segmentend + 1}
        /\ next_udpoffset' = udp_offset' /\ Write(0, udp_buf, bytestoread)
        /\ udp_buf' \in {udp_buf, Shifted(udp_buf, bytestoread)}
    BY <1>5 DEF LeftIsAll
  <2>2. LeftIndex * udpsize = 0
    BY <1>1, <2>1
  <2>3. udp_offset' \in Nat /\ next_segmentstart' \in Nat /\ next_udpoffset' \in Nat
    <3>1. LeftOffset = udp_offset /\ bytestoread < udp_offset
      <4>1. LeftOffset + 0 = udp_offset /\ LeftOffset \in Int /\ bytestoread < udp_offset
        BY <1>2, <2>1, <2>2
      <4> QED BY <4>1
    <3> QED BY <1>1, <2>1, <3>1
  <2>4. udp_buf' = udp_buf \/ \E n \in Int : udp_buf' = Shifted(udp_buf, n)
    BY <1>1, <2>1
  <2> QED BY <2>1, <2>3, <2>4, NumbersLeft
<1>6. CASE LeftIsLast
  <2> DEFINE bytes == Rem(bytestoread - LeftOffset, udpsize)
  <2>1. /\ pc = "left" /\ udp_offset > 0 /\ MarkLeft /\ pc' = "fill" /\ CallFitsIn
        /\ LeftIndex > 0 /\ LeftIndex < segmentsize /\ udp_offset' = udpsize - bytes
        /\ UNCHANGED <<newest, position, mishaps, packet_head, packet_segmentstart,
                       packet_segmentend, bytestoread, segmentsize, delivered>>
        /\ next_segmentstart' = packet_head /\ next_udpoffset' = 0
        /\ Write(LeftPlace, udp_buf, bytes) /\ udp_buf' = Shifted(udp_buf, bytes)
    BY <1>6 DEF LeftIsLast
  <2>2. LeftOffset \in 1 .. udpsize
    BY <1>2, <2>1
  <2>3. bytestoread - LeftOffset \in Int
    BY <1>1, <2>2
  <2>4. bytes \in 1 - udpsize .. udpsize - 1
    BY <1>1, <2>3, CDivision
  <2> HIDE DEF bytes
  <2>5. udp_offset' \in Nat /\ next_segmentstart' \in Nat /\ next_udpoffset' \in Nat
    BY <1>1, <2>1, <2>4
  <2>6. \E n \in Int : udp_buf' = Shifted(udp_buf, n)
    BY <2>1, <2>4
  <2> QED BY <2>1, <2>5, <2>6, NumbersLeft
<1> QED BY <1>3, <1>4, <1>5, <1>6
\* The numbers of a packet and of its call.
LEMMA PacketIs ==
    ASSUME NumbersOK, Usual, NEW sequence \in Arrivals, pc = "receive"
    PROVE  /\ sequence \in 1 .. MaxSequence /\ sequence \in Nat
           /\ IsFirst(sequence) <=> packet_head = 0
           /\ StartAt(sequence) \in Nat /\ EndAt(sequence) \in Nat
           /\ segmentsize = EndAt(sequence) - StartAt(sequence) + 1
           /\ Index(sequence) \in Int /\ Index(sequence) = sequence - StartAt(sequence)
<1>1. sequence \in 1 .. MaxSequence
  BY Constants DEF Arrivals, Usual
<1>2. sequence \in Nat /\ sequence # 0
  BY <1>1, Constants
<1>3. IsFirst(sequence) <=> packet_head = 0
  BY <1>2 DEF IsFirst
<1>4. StartAt(sequence) \in Nat
  BY <1>2 DEF StartAt, NumbersOK, TypeOK
<1>5. EndAt(sequence) \in Nat /\ segmentsize = EndAt(sequence) - StartAt(sequence) + 1
  <2> DEFINE q == (bytestoread - 1) \div udpsize
  <2>1. CASE packet_head = 0
    <3>1. bytestoread - 1 \in Nat /\ udpsize \in Nat \ {0}
      BY Constants DEF NumbersOK, TypeOK
    <3>2. q \in Nat
      BY <3>1, Division
    <3>3. EndAt(sequence) = sequence + q /\ StartAt(sequence) = sequence
      BY <1>3, <2>1 DEF EndAt, StartAt
    <3>4. segmentsize = q + 1
      <4>1. packet_segmentstart = 0 /\ packet_segmentend = q
        BY <2>1 DEF NumbersOK, BeforeFirst
      <4>2. segmentsize = packet_segmentend - packet_segmentstart + 1
        BY DEF NumbersOK, CountOK, InCall
      <4> HIDE DEF q
      <4> QED BY <3>2, <4>1, <4>2
    <3> HIDE DEF q
    <3> QED BY <1>2, <3>2, <3>3, <3>4
  <2>2. CASE packet_head # 0
    <3>1. EndAt(sequence) = packet_segmentend /\ StartAt(sequence) = packet_segmentstart
      BY <1>3, <2>2 DEF EndAt, StartAt
    <3> QED BY <3>1 DEF NumbersOK, CountOK, InCall, TypeOK
  <2> QED BY <2>1, <2>2
<1>6. Index(sequence) \in Int /\ Index(sequence) = sequence - StartAt(sequence)
  BY <1>2, <1>4 DEF Index
<1> QED BY <1>1, <1>2, <1>3, <1>4, <1>5, <1>6

\* What recvmsg puts into udp_buf.
LEMMA PacketType ==
    ASSUME NEW sequence \in Nat
    PROVE  PacketOf(sequence) \in [0 .. udpsize - 1 -> Nat] /\ PacketOf(sequence) \in [0 .. udpsize - 1 -> Int]
<1>1. sequence * udpsize \in Nat
  BY Constants
<1>2. \A i \in 0 .. udpsize - 1 : sequence * udpsize + i \in Nat /\ sequence * udpsize + i \in Int
  BY <1>1, Constants
<1> QED BY <1>2 DEF PacketOf

\* No more units of the last packet are wanted than it has.
LEMMA LastUnitsIs ==
    ASSUME NumbersOK, pc = "receive"
    PROVE  LastUnits \in 0 .. udpsize
<1>1. /\ udpsize \in Nat \ {0} /\ bytestoread \in Nat \ {0} /\ udp_offset \in 1 .. udpsize
      /\ bytestoread < udp_offset => udp_offset = udpsize /\ segmentsize = 1
      /\ udp_offset = udpsize /\ segmentsize = 1 => bytestoread <= udpsize
  BY Constants DEF NumbersOK, TypeOK, CountOK
<1>2. CASE udp_offset = udpsize /\ segmentsize = 1
  BY <1>1, <1>2 DEF LastUnits
<1>3. CASE ~(udp_offset = udpsize /\ segmentsize = 1)
  <2> DEFINE a == bytestoread - udp_offset - 1
  <2>1. a \in Int /\ (a >= 0 \/ a = -1)
    BY <1>1, <1>3
  <2>2. LastUnits = Rem(a, udpsize) + 1
    BY <1>3 DEF LastUnits
  <2> HIDE DEF a
  <2>3. Rem(a, udpsize) \in 1 - udpsize .. udpsize - 1
    BY <1>1, <2>1, CDivision
  <2>4. a >= 0 => Rem(a, udpsize) \in Nat
    BY <1>1, <2>1, CDivision
  <2>5. a = -1 /\ udpsize > 1 => Rem(a, udpsize) = a
    <3>1. a = -1 /\ udpsize > 1 => -a \in 1 .. udpsize - 1
      BY <1>1
    <3> QED BY <1>1, <2>1, <3>1, CDivision
  <2>6. Rem(a, udpsize) \in -1 .. udpsize - 1
    BY <1>1, <2>1, <2>3, <2>4, <2>5
  <2> QED BY <1>1, <2>2, <2>6
<1> QED BY <1>2, <1>3

\* What all packets have in common.
LEMMA NumbersPacket ==
    ASSUME NumbersOK, Usual, NEW sequence \in Arrivals, Receive(sequence),
           pc' \in {"receive", "fill"}, udp_offset' = udp_offset,
           mishaps' \subseteq {"endlost", "exact"},
           packet_head' \in 1 .. MaxSequence, udp_buf' \in [0 .. udpsize - 1 -> Nat],
           packets_arrived' \subseteq 0 .. segmentsize - 1, next_segmentstart' \in Nat,
           next_udpoffset' \in Nat,
           UNCHANGED memory \/ \E place, n : Write(place, PacketOf(sequence), n)
    PROVE  NumbersOK'
<1>0. pc = "receive"
  BY DEF Receive
<1>1. /\ sequence \in 1 .. MaxSequence /\ sequence \in Nat
      /\ StartAt(sequence) \in Nat /\ EndAt(sequence) \in Nat
      /\ segmentsize = EndAt(sequence) - StartAt(sequence) + 1
  BY <1>0, PacketIs
<1>2. /\ newest' = IF sequence > newest THEN sequence ELSE newest
      /\ delivered' = delivered \cup {sequence}
      /\ packet_segmentstart' = StartAt(sequence) /\ packet_segmentend' = EndAt(sequence)
      /\ position' \in {sequence * udpsize, position}
      /\ bytestoread' = bytestoread /\ segmentsize' = segmentsize
  BY DEF Receive
<1>3. segment' \in [0 .. readbytes - 1 -> Int] /\ astray' \in BOOLEAN
  <2>1. CASE UNCHANGED memory
    BY <2>1 DEF memory, NumbersOK, BuffersOK, TypeOK
  <2>2. CASE \E place, n : Write(place, PacketOf(sequence), n)
    BY <1>1, <2>2, PacketType, WriteType DEF NumbersOK
  <2> QED BY <2>1, <2>2
<1>4. ArrivedSize' = ArrivedSize /\ ArrivedSize \in Nat
  BY SizeOfCall DEF ArrivedSize, NumbersOK, TypeOK
<1>5. segmentsize \in 1 .. ArrivedSize
  BY <1>0 DEF NumbersOK, CountOK, InCall
<1>6. TypeOK'
  <2>1. newest' \in -1 .. MaxSequence /\ packet_head' \in 0 .. MaxSequence
    BY <1>1, <1>2, Constants DEF NumbersOK, TypeOK
  <2>2. delivered' \subseteq Nat
    BY <1>1, <1>2 DEF NumbersOK, TypeOK
  <2>3. position' \in Nat
    <3>1. sequence * udpsize \in Nat
      BY <1>1, Constants
    <3> QED BY <1>2, <3>1 DEF NumbersOK, TypeOK
  <2>4. packets_arrived' \subseteq 0 .. ArrivedSize - 1
    BY <1>4, <1>5
  <2>5. DOMAIN udp_buf' = 0 .. udpsize - 1 /\ DOMAIN segment' = 0 .. readbytes - 1
    BY <1>3
  <2>6. bytestoread' \in 1 .. readbytes /\ segmentsize' \in Nat /\ udp_offset' \in Nat
    BY <1>2 DEF NumbersOK, TypeOK
  <2>7. packet_segmentstart' \in Nat /\ packet_segmentend' \in Nat
    BY <1>1, <1>2
  <2> QED BY <1>3, <1>4, <2>1, <2>2, <2>3, <2>4, <2>5, <2>6, <2>7 DEF TypeOK
<1>7. BuffersOK'
  <2>1. udp_buf' \in [0 .. udpsize - 1 -> Int]
    OBVIOUS
  <2> QED BY <1>3, <2>1 DEF BuffersOK
<1>8. BeforeFirst' /\ NeverAborts'
  BY DEF BeforeFirst, NeverAborts
<1>9. CountOK'
  <2>1. /\ udp_offset \in 1 .. udpsize
        /\ bytestoread < udp_offset => udp_offset = udpsize /\ segmentsize = 1
        /\ udp_offset = udpsize /\ segmentsize = 1 => bytestoread <= udpsize
    BY <1>0 DEF NumbersOK, CountOK
  <2> QED BY <1>1, <1>2, <1>4, <1>5, <2>1 DEF CountOK
<1> QED BY <1>6, <1>7, <1>8, <1>9 DEF NumbersOK
\* A packet that is of no use, of the middle, the last of a call or of a later call.
LEMMA NumbersPacketSteps ==
    ASSUME NumbersOK, Usual, NEW sequence \in Arrivals,
           \/ UselessPacket(sequence) \/ MiddlePacket(sequence)
           \/ LastPacketComes(sequence) \/ LaterPacket(sequence)
    PROVE  NumbersOK'
<1>1. Receive(sequence) /\ pc = "receive"
  BY DEF UselessPacket, MiddlePacket, LastPacketComes, LaterPacket, Receive
<1>2. /\ sequence \in 1 .. MaxSequence /\ sequence \in Nat
      /\ IsFirst(sequence) <=> packet_head = 0
      /\ StartAt(sequence) \in Nat /\ EndAt(sequence) \in Nat
      /\ segmentsize = EndAt(sequence) - StartAt(sequence) + 1
      /\ Index(sequence) \in Int /\ Index(sequence) = sequence - StartAt(sequence)
  BY <1>1, PacketIs
<1>3. PacketOf(sequence) \in [0 .. udpsize - 1 -> Nat] /\ PacketOf(sequence) \in [0 .. udpsize - 1 -> Int]
  BY <1>2, PacketType
<1>4. /\ packet_head \in 0 .. MaxSequence /\ mishaps \subseteq {"endlost", "exact"}
      /\ next_segmentstart \in Nat
      /\ next_udpoffset \in Nat /\ packets_arrived \subseteq 0 .. segmentsize - 1
      /\ segmentsize \in Nat \ {0} /\ udpsize \in Nat \ {0} /\ packet_segmentend \in Nat
      /\ udp_offset \in 1 .. udpsize /\ bytestoread \in Nat /\ packet_segmentstart \in Nat
  <2>1. segmentsize \in Nat /\ segmentsize >= 1
    BY <1>1, SizeOfCall DEF NumbersOK, TypeOK, CountOK, InCall
  <2>2. packets_arrived \subseteq 0 .. segmentsize - 1 /\ udp_offset \in 1 .. udpsize
    BY <1>1 DEF NumbersOK, CountOK, InCall
  <2> QED BY <2>1, <2>2, Constants DEF NumbersOK, TypeOK
<1>5. CASE UselessPacket(sequence)
  <2>1. packet_head' \in 1 .. MaxSequence
    BY <1>2, <1>4, <1>5 DEF UselessPacket
  <2>2. /\ pc' = "receive" /\ udp_offset' = udp_offset /\ mishaps' = mishaps
        /\ udp_buf' = PacketOf(sequence) /\ packets_arrived' = packets_arrived
        /\ next_segmentstart' = next_segmentstart /\ next_udpoffset' = next_udpoffset
        /\ UNCHANGED memory
    BY <1>1, <1>5 DEF UselessPacket
  <2> QED BY <1>1, <1>3, <1>4, <2>1, <2>2, NumbersPacket
<1>6. CASE MiddlePacket(sequence)
  <2>1. packet_head' \in 1 .. MaxSequence
    BY <1>2, <1>4, <1>6 DEF MiddlePacket
  <2>2. /\ pc' = "receive" /\ udp_offset' = udp_offset /\ mishaps' = mishaps
        /\ udp_buf' = PacketOf(sequence)
        /\ packets_arrived' = packets_arrived \cup {Index(sequence)}
        /\ Index(sequence) \in 0 .. segmentsize - 1
        /\ next_segmentstart' = next_segmentstart /\ next_udpoffset' = next_udpoffset
        /\ \E place, n : Write(place, PacketOf(sequence), n)
    BY <1>1, <1>6 DEF MiddlePacket
  <2>3. packets_arrived' \subseteq 0 .. segmentsize - 1
    BY <1>4, <2>2
  <2> QED BY <1>1, <1>3, <1>4, <2>1, <2>2, <2>3, NumbersPacket
<1>7. CASE LastPacketComes(sequence)
  <2>1. LastUnits \in 0 .. udpsize
    BY <1>1, LastUnitsIs
  <2>2. /\ Write(PlaceOf(sequence), PacketOf(sequence), LastUnits)
        /\ udp_buf' = Shifted(PacketOf(sequence), LastUnits)
        /\ next_udpoffset' = udpsize - LastUnits
        /\ next_segmentstart' = IF LastUnits = udpsize THEN sequence + 1 ELSE sequence
        /\ packet_head' = sequence
        /\ packets_arrived' = packets_arrived \cup {Index(sequence)}
        /\ pc' = "fill" /\ mishaps' = mishaps /\ udp_offset' = udp_offset
        /\ sequence = EndAt(sequence)
    BY <1>7, <2>1 DEF LastPacketComes
  <2>3. packets_arrived' \subseteq 0 .. segmentsize - 1
    <3>1. Index(sequence) = segmentsize - 1
      BY <1>2, <2>2
    <3> QED BY <1>4, <2>2, <3>1
  <2>4. udp_buf' \in [0 .. udpsize - 1 -> Nat]
    <3>1. LastUnits \in Int /\ udpsize \in Nat
      BY <1>4, <2>1
    <3> QED BY <1>3, <2>2, <3>1, ShiftedType
  <2>5. next_udpoffset' \in Nat /\ next_segmentstart' \in Nat
    BY <1>2, <1>4, <2>1, <2>2
  <2>6. \E place, n : Write(place, PacketOf(sequence), n)
    BY <2>2
  <2> QED BY <1>1, <1>2, <1>4, <2>2, <2>3, <2>4, <2>5, <2>6, NumbersPacket
<1>8. CASE LaterPacket(sequence)
  <2> DEFINE rem == Rem(bytestoread - udp_offset, udpsize)
             more == sequence - packet_segmentend
  <2>1. /\ pc' = "fill" /\ udp_offset' = udp_offset /\ mishaps' = mishaps \cup {"endlost"}
        /\ udp_buf' = PacketOf(sequence) /\ packets_arrived' = packets_arrived
        /\ next_segmentstart' \in {packet_segmentend, packet_segmentend + 1}
        /\ next_udpoffset' = udpsize - rem + udpsize * more
        /\ packet_head' = sequence /\ Index(sequence) >= segmentsize
        /\ UNCHANGED memory
    BY <1>8 DEF LaterPacket, Mishap
  <2>2. bytestoread - udp_offset \in Int
    BY <1>4
  <2>3. rem \in 1 - udpsize .. udpsize - 1
    BY <1>4, <2>2, CDivision
  <2>4. packet_head # 0
    <3>1. Index(sequence) > 0
      BY <1>2, <1>4, <2>1
    <3> QED BY <1>2, <3>1 DEF StartAt
  <2>5. EndAt(sequence) = packet_segmentend
    BY <1>2, <2>4 DEF EndAt
  <2>6. more \in Nat
    BY <1>2, <1>4, <2>1, <2>5
  <2> HIDE DEF rem, more
  <2>7. udpsize * more \in Nat
    BY <1>4, <2>6
  <2>8. next_udpoffset' \in Nat /\ next_segmentstart' \in Nat
    BY <1>4, <2>1, <2>3, <2>7
  <2> QED BY <1>1, <1>2, <1>3, <1>4, <2>1, <2>8, NumbersPacket
<1> QED BY <1>5, <1>6, <1>7, <1>8

\* The end of a call.
LEMMA NumbersEnd ==
    ASSUME NumbersOK, SocketCloses \/ FillMissing \/ SegmentDone
    PROVE  NumbersOK'
<1>1. CASE SocketCloses
  <2>1. /\ pc = "receive" /\ pc' = "closed"
        /\ UNCHANGED <<newest, position, mishaps, packet_head, packet_segmentstart, udp_offset,
                       udp_buf, packet_segmentend, bytestoread, segmentsize, packets_arrived,
                       next_segmentstart, next_udpoffset, delivered, segment, astray>>
    BY <1>1 DEF SocketCloses, state, call, memory
  <2>2. TypeOK'
    BY <2>1 DEF NumbersOK, TypeOK, ArrivedSize
  <2>3. BuffersOK' /\ BeforeFirst' /\ CountOK' /\ NeverAborts'
    BY <2>1 DEF NumbersOK, BuffersOK, BeforeFirst, CountOK, NeverAborts, InCall
  <2> QED BY <2>2, <2>3 DEF NumbersOK
<1>2. CASE FillMissing
  <2>1. /\ pc = "fill" /\ pc' \in {"read", "caught"}
        /\ packet_segmentstart' = next_segmentstart /\ udp_offset' = next_udpoffset
        /\ UNCHANGED <<newest, position, mishaps, packet_head, udp_buf, packet_segmentend,
                       bytestoread, segmentsize, packets_arrived, next_segmentstart,
                       next_udpoffset, delivered>>
    BY <1>2 DEF FillMissing, call
  <2>2. segment' \in [0 .. readbytes - 1 -> Int]
    <3>1. segment \in [0 .. readbytes - 1 -> Int] /\ Fill \in Int
      BY DEF NumbersOK, BuffersOK, Fill
    <3>2. segment' = [x \in 0 .. readbytes - 1 |-> IF x \in Filled THEN Fill ELSE segment[x]]
      BY <1>2, <3>1 DEF FillMissing
    <3> QED BY <3>1, <3>2
  <2>3. astray' \in BOOLEAN
    BY <1>2 DEF FillMissing
  <2>4. TypeOK'
    BY <2>1, <2>2, <2>3 DEF NumbersOK, TypeOK, ArrivedSize
  <2>5. packet_head # 0
    BY <2>1 DEF NumbersOK, BeforeFirst
  <2>6. BuffersOK' /\ BeforeFirst' /\ CountOK' /\ NeverAborts'
    BY <2>1, <2>2, <2>5 DEF NumbersOK, BuffersOK, BeforeFirst, CountOK, NeverAborts, InCall
  <2> QED BY <2>4, <2>6 DEF NumbersOK
<1>3. CASE SegmentDone
  <2>1. /\ pc \in {"read", "caught"} /\ pc' = "segment" /\ position' = position + bytestoread
        /\ UNCHANGED <<newest, mishaps, packet_head, packet_segmentstart, udp_offset,
                       udp_buf, packet_segmentend, bytestoread, segmentsize, packets_arrived,
                       next_segmentstart, next_udpoffset, delivered, segment, astray>>
    BY <1>3 DEF SegmentDone, state, call, memory
  <2>2. position' \in Nat
    BY <2>1, Constants DEF NumbersOK, TypeOK
  <2>3. TypeOK'
    BY <2>1, <2>2 DEF NumbersOK, TypeOK, ArrivedSize
  <2>4. packet_head # 0
    BY <2>1 DEF NumbersOK, BeforeFirst
  <2>5. BuffersOK' /\ BeforeFirst' /\ CountOK' /\ NeverAborts'
    BY <2>1, <2>4 DEF NumbersOK, BuffersOK, BeforeFirst, CountOK, NeverAborts, InCall
  <2> QED BY <2>3, <2>5 DEF NumbersOK
<1> QED BY <1>1, <1>2, <1>3

\* The counts hold after every step.
LEMMA NumbersStep ==
    ASSUME NumbersOK, Usual, Next
    PROVE  NumbersOK'
<1>1. CASE SkipSegments \/ ReadSegment
  BY <1>1, NumbersSkip, NumbersReadSegment
<1>2. CASE NothingOver \/ CopyLeft \/ LeftIsLater \/ LeftIsAll \/ LeftIsLast
  BY <1>2, NumbersNothingOver, NumbersLeftSteps
<1>3. CASE \E sequence \in Arrivals :
              \/ UselessPacket(sequence) \/ MiddlePacket(sequence)
              \/ LastPacketComes(sequence) \/ LaterPacket(sequence)
  BY <1>3, NumbersPacketSteps
<1>4. CASE SocketCloses \/ FillMissing \/ SegmentDone
  BY <1>4, NumbersEnd
<1>5. CASE \E missing \in Catch : CatchUp(missing)
  BY <1>5, NumbersCatchUp
<1> QED BY <1>1, <1>2, <1>3, <1>4, <1>5 DEF Next
-----------------------------------------------------------------------------
(* Where a call is in the stream, while the last packet of every call comes.   *)

\* The packet of a unit that is in what is over of a packet.
LEMMA RestsIn ==
    ASSUME NEW place \in Nat, NEW start \in Nat, NEW offset \in Nat, Rests(place, start, offset)
    PROVE  /\ offset < udpsize
           /\ udpsize * start <= place /\ place < udpsize * start + udpsize
           /\ place \div udpsize = start
<1>1. udpsize \in Nat \ {0} /\ offset \in 0 .. udpsize - 1
  BY Constants DEF Rests
<1>2. (start + 1) * udpsize = udpsize * start + udpsize /\ start * udpsize = udpsize * start
      /\ udpsize * start \in Nat
  BY <1>1
<1>3. udpsize * start <= place /\ place < udpsize * start + udpsize
  <2>1. CASE offset = 0
    BY <1>1, <1>2, <2>1 DEF Rests
  <2>2. CASE offset > 0
    <3>1. place + offset = udpsize * start + udpsize
      BY <1>2, <2>2 DEF Rests
    <3> QED BY <1>1, <1>2, <2>2, <3>1
  <2> QED BY <1>1, <2>1, <2>2
<1>4. place \div udpsize = start
  <2>1. start \in Int
    OBVIOUS
  <2> QED BY <1>1, <1>3, <2>1, QuotientIs
<1> QED BY <1>1, <1>3, <1>4

\* Call counts the packets up to that of the last unit that is wanted.
LEMMA EndOfCall ==
    ASSUME NumbersOK, NEW wanted \in 1 .. readbytes, NEW place \in Nat,
           Rests(place, packet_segmentstart, udp_offset), udp_offset # wanted
    PROVE  LastPacket(wanted) = (place + wanted - 1) \div udpsize
<1> DEFINE o == udp_offset
           start == packet_segmentstart
           a == wanted - o - 1
<1>1. /\ udpsize \in Nat \ {0} /\ o \in 0 .. udpsize - 1 /\ start \in Nat /\ wanted \in Nat \ {0}
      /\ udpsize * start \in Nat /\ readbytes \in Nat
  BY Constants DEF Rests, NumbersOK, TypeOK
<1>2. o % udpsize = o
  <2>1. o < udpsize /\ o \in Nat
    BY <1>1
  <2> QED BY <1>1, <2>1, SmallQuotient
<1>3. /\ o = 0 => place = udpsize * start
      /\ o > 0 => place + o = udpsize * (start + 1)
      /\ udpsize * (start + 1) = udpsize * start + udpsize
  BY <1>1 DEF Rests
<1>4. LastPacket(wanted) = start + Div(a, udpsize) + (IF o > 0 /\ o < wanted THEN 1 ELSE 0)
  <2>1. wanted - (udp_offset % udpsize) - 1 = a
    BY <1>2
  <2> HIDE DEF a
  <2> QED BY <2>1 DEF LastPacket
<1> HIDE DEF o, start
<1>5. CASE o = 0 \/ o < wanted
  <2> DEFINE k == IF o = 0 THEN start ELSE start + 1
  <2>1. a \in Nat /\ a \in Int /\ a >= 0
    BY <1>1, <1>5
  <2>2. Div(a, udpsize) = a \div udpsize /\ a \div udpsize \in Nat
    <3> HIDE DEF a
    <3> QED BY <1>1, <2>1, CDivision
  <2>3. k \in Int /\ place + wanted - 1 = udpsize * k + a /\ udpsize * k + a \in Nat
    <3>1. CASE o = 0
      <4>1. place = udpsize * start /\ k = start
        BY <1>3, <3>1
      <4> HIDE DEF k
      <4> QED BY <1>1, <3>1, <4>1
    <3>2. CASE o # 0
      <4>1. place + o = udpsize * (start + 1) /\ k = start + 1
        BY <1>1, <1>3, <3>2
      <4> HIDE DEF k
      <4> QED BY <1>1, <2>1, <4>1
    <3> QED BY <3>1, <3>2
  <2>4. LastPacket(wanted) = k + (a \div udpsize)
    <3> HIDE DEF a
    <3>1. CASE o = 0
      BY <1>1, <1>4, <2>2, <3>1
    <3>2. CASE o # 0
      <4>1. o > 0 /\ o < wanted
        BY <1>1, <1>5, <3>2
      <4>2. LastPacket(wanted) = start + (a \div udpsize) + 1 /\ k = start + 1
        BY <1>4, <2>2, <3>2, <4>1
      <4> QED BY <1>1, <2>2, <4>2
    <3> QED BY <3>1, <3>2
  <2> HIDE DEF k, a
  <2>5. (udpsize * k + a) \div udpsize = k + (a \div udpsize)
    BY <1>1, <2>1, <2>3, QuotientPlus
  <2> QED BY <2>3, <2>4, <2>5
<1>6. CASE o > wanted
  <2>1. a \in Int /\ -a \in 1 .. udpsize
    BY <1>1, <1>6
  <2>2. -a \in 1 .. udpsize - 1
    BY <1>1, <1>6
  <2>3. Div(a, udpsize) = 0
    <3> HIDE DEF a
    <3> QED BY <1>1, <2>1, <2>2, CDivision
  <2>4. LastPacket(wanted) = start
    BY <1>1, <1>4, <1>6, <2>3
  <2> DEFINE u == place + wanted - 1
  <2>5. u \in Nat /\ udpsize * start <= u /\ u < udpsize * start + udpsize
    <3>1. place + o = udpsize * start + udpsize
      BY <1>1, <1>3, <1>6
    <3> QED BY <1>1, <1>6, <3>1
  <2> HIDE DEF u
  <2>6. u \div udpsize = start
    BY <1>1, <2>5, QuotientIs
  <2> QED BY <2>4, <2>6 DEF u
<1>7. o = 0 \/ o < wanted \/ o > wanted
  BY <1>1 DEF o
<1> QED BY <1>5, <1>6, <1>7
\* A call begins where the last one has ended.
LEMMA StreamCall ==
    ASSUME NumbersOK, NEW wanted \in 1 .. readbytes, Call(wanted), UNCHANGED <<state, astray>>,
           pc' = "left", NEW place \in Nat, position' = place, ~astray,
           Rests(place, packet_segmentstart, udp_offset), mishaps' = {}
    PROVE  StreamOK' /\ SegmentRight'
<1>1. UNCHANGED <<packet_head, packet_segmentstart, udp_offset, udp_buf, astray>>
  BY DEF state
<1>2. /\ bytestoread' = wanted /\ packets_arrived' = {}
      /\ mishaps' = mishaps \cup {k \in {"exact"} : udp_offset = wanted}
      /\ delivered' = IF udp_offset > 0 THEN {udp_buf[0] \div udpsize} ELSE {}
  BY DEF Call, Mishap
<1>3. udp_offset' # bytestoread'
  BY <1>1, <1>2
<1>4. Rests(position, packet_segmentstart, udp_offset)'
  BY <1>1 DEF Rests
<1>5. delivered' = IF udp_offset' > 0 THEN {packet_segmentstart'} ELSE {}
  <2>1. ASSUME udp_offset > 0 PROVE udp_buf[0] \div udpsize = packet_segmentstart
    <3>1. udp_offset \in Nat /\ packet_segmentstart \in Nat
      BY DEF NumbersOK, TypeOK
    <3>2. 0 \in 0 .. udp_offset - 1
      BY <2>1, <3>1
    <3>3. place + 0 = place
      OBVIOUS
    <3>4. udp_buf[0] = place
      BY <2>1, <3>2, <3>3 DEF Rests
    <3>5. place \div udpsize = packet_segmentstart
      BY <3>1, RestsIn
    <3> QED BY <3>4, <3>5
  <2> QED BY <1>1, <1>2, <2>1
<1>6. StreamOK'
  <2>1. packets_arrived' = {} /\ ~astray'
    BY <1>1, <1>2
  <2> QED BY <1>3, <1>4, <1>5, <2>1 DEF StreamOK, CallOver
<1>7. SegmentRight'
  BY DEF SegmentRight, InPlace, DeliveredKept, CallOver
<1> QED BY <1>6, <1>7

\* A call for a segment, and one for what is missing of it.
LEMMA StreamReadSegment ==
    ASSUME CallInv, ReadSegment, mishaps' = {}
    PROVE  StreamOK' /\ SegmentRight'
<1>1. pc' = "left"
  BY NumbersReadSegment DEF CallInv
<1>2. /\ pc = "segment" /\ Call(readbytes) /\ UNCHANGED <<state, astray>> /\ position' = position
  BY DEF ReadSegment
<1>3. mishaps = {}
  BY <1>2 DEF Call, Mishap
<1>4. ~astray /\ Rests(position, packet_segmentstart, udp_offset) /\ position \in Nat
  BY <1>2, <1>3 DEF CallInv, StreamOK, NumbersOK, TypeOK
<1>5. readbytes \in 1 .. readbytes /\ NumbersOK
  BY Constants DEF CallInv
<1> QED BY <1>1, <1>2, <1>4, <1>5, StreamCall

LEMMA StreamCatchUp ==
    ASSUME CallInv, NEW missing \in Catch, CatchUp(missing), mishaps' = {}
    PROVE  StreamOK' /\ SegmentRight'
<1>1. pc' = "left" /\ NumbersOK
  BY NumbersCatchUp DEF CallInv
<1>2. /\ pc = "read" /\ Call(missing) /\ UNCHANGED <<state, astray>>
      /\ position' = position + bytestoread
  BY DEF CatchUp
<1>3. mishaps = {}
  BY <1>2 DEF Call, Mishap
<1>4. ~astray /\ Rests(position + bytestoread, packet_segmentstart, udp_offset)
  BY <1>2, <1>3 DEF CallInv, StreamOK, CallOver
<1>5. position + bytestoread \in Nat
  BY Constants DEF CallInv, NumbersOK, TypeOK
<1>6. missing \in 1 .. readbytes
  BY Constants
<1> QED BY <1>1, <1>2, <1>4, <1>5, <1>6, StreamCall

\* A segment is handed over.
LEMMA StreamSegmentDone ==
    ASSUME CallInv, SegmentDone, mishaps' = {}
    PROVE  StreamOK' /\ SegmentRight'
<1>1. /\ pc \in {"read", "caught"} /\ pc' = "segment" /\ position' = position + bytestoread
      /\ UNCHANGED <<mishaps, packet_head, packet_segmentstart, udp_offset, udp_buf, astray>>
  BY DEF SegmentDone, state, memory
<1>2. ~astray /\ Rests(position + bytestoread, packet_segmentstart, udp_offset)
  BY <1>1 DEF CallInv, StreamOK, CallOver
<1>3. Rests(position, packet_segmentstart, udp_offset)'
  BY <1>1, <1>2 DEF Rests
<1> QED BY <1>1, <1>2, <1>3 DEF StreamOK, SegmentRight, InPlace, DeliveredKept, CallOver

\* No segment is skipped while the last packet of every call comes.
LEMMA StreamSkip ==
    ASSUME CallInv, Usual, SkipSegments, mishaps' = {}
    PROVE  FALSE
<1>1. /\ pc = "segment" /\ udp_offset > readbytes /\ mishaps = {}
  BY DEF SkipSegments
<1>2. Rests(position, packet_segmentstart, udp_offset)
  BY <1>1 DEF CallInv, StreamOK
<1>3. udp_offset < udpsize /\ udp_offset \in Nat
  BY <1>2, RestsIn DEF CallInv, NumbersOK, TypeOK
<1> QED BY <1>1, <1>3, Constants DEF Usual

\* Nothing is left of a packet: the units of the call begin with its first packet.
LEMMA StreamNothingOver ==
    ASSUME CallInv, NothingOver, mishaps' = {}
    PROVE  StreamOK' /\ SegmentRight'
<1>1. /\ pc = "left" /\ udp_offset = 0 /\ udp_offset' = udpsize /\ pc' = "receive"
      /\ UNCHANGED <<position, mishaps, packet_segmentstart, packet_segmentend, bytestoread,
                     segmentsize, packets_arrived, delivered, segment, astray>>
  BY DEF NothingOver, call, memory
<1>2. /\ ~astray /\ Rests(position, packet_segmentstart, udp_offset)
      /\ udp_offset # bytestoread /\ packets_arrived = {} /\ delivered = {}
  BY <1>1 DEF CallInv, StreamOK
<1>3. /\ bytestoread \in 1 .. readbytes /\ position \in Nat /\ NumbersOK
      /\ packet_segmentstart \in Nat /\ udpsize \in Nat
  BY Constants DEF CallInv, NumbersOK, TypeOK
<1>4. packet_segmentend = (position + bytestoread - 1) \div udpsize
  <2>1. packet_segmentend = LastPacket(bytestoread)
    BY <1>1 DEF CallInv, NumbersOK, CountOK
  <2> QED BY <1>2, <1>3, <2>1, EndOfCall
<1>5. position + udpsize = (packet_segmentstart + 1) * udpsize
  <2>1. position = packet_segmentstart * udpsize
    BY <1>1, <1>2 DEF Rests
  <2> QED BY <1>3, <2>1
<1>6. ReceiveOK'
  <2>1. CallInStream'
    BY <1>1, <1>4, <1>5 DEF CallInStream
  <2>2. ArrivedThere'
    BY <1>1, <1>2 DEF ArrivedThere
  <2>3. ~(udp_offset' < udpsize)
    BY <1>1, <1>3
  <2> QED BY <2>1, <2>2, <2>3 DEF ReceiveOK
<1> QED BY <1>1, <1>2, <1>6 DEF StreamOK, SegmentRight, InPlace, DeliveredKept, CallOver
\* What a copy of numbers puts where.
LEMMA Copying ==
    ASSUME NumbersOK, NEW place \in Int, NEW n \in 0 .. udpsize, ~astray,
           NEW from \in [0 .. udpsize - 1 -> Int], Write(place, from, n)
    PROVE  /\ \A x \in 0 .. readbytes - 1 :
                  segment'[x] = IF x - place \in 0 .. n - 1 THEN from[x - place] ELSE segment[x]
           /\ place \in Nat /\ place + n <= readbytes => ~astray'
<1>1. udpsize \in Nat /\ readbytes \in Nat /\ DOMAIN segment = 0 .. readbytes - 1
      /\ DOMAIN from = 0 .. udpsize - 1
  BY Constants DEF NumbersOK, TypeOK
<1>2. ASSUME NEW x \in 0 .. readbytes - 1
      PROVE  segment'[x] = IF x - place \in 0 .. n - 1 THEN from[x - place] ELSE segment[x]
  <2>1. x - place \in 0 .. n - 1 => x - place \in 0 .. udpsize - 1
    BY <1>1
  <2>2. segment'[x] = IF x - place \notin 0 .. n - 1 THEN segment[x]
                      ELSE IF x - place \in DOMAIN from THEN from[x - place] ELSE Old
    BY <1>1 DEF Write, Copied
  <2> QED BY <1>1, <2>1, <2>2
<1>3. ASSUME place \in Nat, place + n <= readbytes PROVE ~astray'
  <2>1. \A x \in place .. place + n - 1 : x \in 0 .. readbytes - 1
    BY <1>1, <1>3
  <2>2. ~Outside(place, n)
    BY <2>1 DEF Outside
  <2> QED BY <2>2 DEF Write
<1> QED BY <1>2, <1>3

\* A call with what is left of a packet: it is of the first packet wanted.
LEMMA LeftIsFirst ==
    ASSUME CallInv, pc = "left", udp_offset > 0, mishaps = {}
    PROVE  /\ LeftIndex = 0 /\ LeftOffset = udp_offset /\ udp_offset \in 1 .. udpsize - 1
           /\ CallFitsIn => bytestoread < udp_offset
           /\ ~CallFitsIn => bytestoread > udp_offset
           /\ position + udp_offset = (packet_segmentstart + 1) * udpsize
           /\ packet_segmentend = (position + bytestoread - 1) \div udpsize
           /\ packet_head = packet_segmentstart
           /\ \A i \in 0 .. udp_offset - 1 : udp_buf[i] = position + i
           /\ delivered = {packet_segmentstart} /\ ~astray
           /\ MarkLeft => packets_arrived' = {0}
           /\ position \div udpsize = packet_segmentstart
<1>1. /\ ~astray /\ Rests(position, packet_segmentstart, udp_offset)
      /\ udp_offset # bytestoread /\ delivered = {packet_segmentstart}
  BY DEF CallInv, StreamOK
<1>2. /\ bytestoread \in 1 .. readbytes /\ position \in Nat /\ NumbersOK /\ TypeOK
      /\ packet_segmentstart \in Nat /\ udpsize \in Nat \ {0} /\ udp_offset \in Nat
      /\ readbytes \in Nat
  BY Constants DEF CallInv, NumbersOK, TypeOK
<1>3. packet_segmentend = (position + bytestoread - 1) \div udpsize
  <2>1. packet_segmentend = LastPacket(bytestoread)
    BY DEF CallInv, NumbersOK, CountOK
  <2> QED BY <1>1, <1>2, <2>1, EndOfCall
<1>4. udp_offset \in 1 .. udpsize - 1
  BY <1>1, <1>2 DEF Rests
<1>5. LeftIndex = 0 /\ LeftOffset = udp_offset
  <2>1. udp_offset - 1 \in Nat /\ udp_offset - 1 < udpsize
    BY <1>2, <1>4
  <2>2. (udp_offset - 1) \div udpsize = 0 /\ (udp_offset - 1) % udpsize = udp_offset - 1
    BY <1>2, <2>1, SmallQuotient
  <2> QED BY <1>2, <2>2 DEF LeftIndex, LeftOffset
<1>6. /\ CallFitsIn => bytestoread < udp_offset
      /\ ~CallFitsIn => bytestoread > udp_offset
  <2>1. /\ CallFitsIn => bytestoread < udp_offset
        /\ ~CallFitsIn => bytestoread >= udp_offset
    BY <1>2, LeftIs
  <2> QED BY <1>1, <1>2, <2>1
<1>7. MarkLeft => packets_arrived' = {0}
  <2>1. segmentsize \in Nat /\ segmentsize >= 1
    BY SizeOfCall DEF CallInv, NumbersOK, TypeOK, CountOK, InCall
  <2>2. 0 < segmentsize
    BY <2>1
  <2> QED BY <1>5, <2>2 DEF MarkLeft
<1>8. position \div udpsize = packet_segmentstart
  BY <1>1, <1>2, RestsIn
<1>9. /\ position + udp_offset = (packet_segmentstart + 1) * udpsize
      /\ packet_head = packet_segmentstart
      /\ \A i \in 0 .. udp_offset - 1 : udp_buf[i] = position + i
  BY <1>1 DEF Rests
<1> QED BY <1>1, <1>3, <1>4, <1>5, <1>6, <1>7, <1>8, <1>9

\* The units of a call that are in its first packet.
LEMMA FirstUnits ==
    ASSUME NEW place \in Nat, NEW start \in Nat, NEW offset \in 1 .. udpsize,
           place + offset = (start + 1) * udpsize, NEW x \in Nat,
           NEW q \in Int, q = (place + x) \div udpsize
    PROVE  q >= start /\ (q = start <=> x < offset)
<1>1. udpsize \in Nat \ {0} /\ place + x \in Nat
  BY Constants
<1>2. q \in Nat /\ udpsize * q <= place + x /\ place + x < udpsize * q + udpsize
  BY <1>1, QuotientBounds
<1>3. place + offset = udpsize * start + udpsize /\ udpsize * start \in Nat
  BY <1>1
<1>4. ASSUME q < start PROVE FALSE
  <2>1. udpsize * (start - q) >= udpsize /\ udpsize * (start - q) = udpsize * start - udpsize * q
    BY <1>1, <1>2, <1>4, Multiple
  <2>2. udpsize * q \in Nat
    BY <1>1, <1>2
  <2> QED BY <1>1, <1>2, <1>3, <2>1, <2>2
<1>5. ASSUME x < offset PROVE q = start
  <2>1. udpsize * start <= place + x /\ place + x < udpsize * start + udpsize
    BY <1>1, <1>3, <1>5
  <2>2. start \in Int
    OBVIOUS
  <2> QED BY <1>1, <2>1, <2>2, QuotientIs
<1>6. ASSUME q = start PROVE x < offset
  BY <1>1, <1>2, <1>3, <1>6
<1> QED BY <1>2, <1>4, <1>5, <1>6

\* What is left of a packet is copied to the beginning of the segment.
LEMMA StreamCopyLeft ==
    ASSUME CallInv, CopyLeft, mishaps' = {}
    PROVE  StreamOK' /\ SegmentRight'
<1>1. /\ pc = "left" /\ udp_offset > 0 /\ ~CallFitsIn /\ MarkLeft /\ udp_offset' = LeftOffset
      /\ pc' = "receive" /\ mishaps = {}
      /\ IF LeftIndex = 0 THEN Write(0, udp_buf, LeftOffset) ELSE Write(LeftPlace, udp_buf, udpsize)
      /\ UNCHANGED <<position, mishaps, packet_segmentstart, packet_segmentend, bytestoread,
                     segmentsize, delivered>>
  BY DEF CopyLeft
<1>2. /\ LeftIndex = 0 /\ LeftOffset = udp_offset /\ udp_offset \in 1 .. udpsize - 1
      /\ bytestoread > udp_offset
      /\ position + udp_offset = (packet_segmentstart + 1) * udpsize
      /\ packet_segmentend = (position + bytestoread - 1) \div udpsize
      /\ \A i \in 0 .. udp_offset - 1 : udp_buf[i] = position + i
      /\ delivered = {packet_segmentstart} /\ ~astray /\ packets_arrived' = {0}
  BY <1>1, LeftIsFirst
<1>3. /\ NumbersOK /\ udpsize \in Nat \ {0} /\ readbytes \in Nat /\ bytestoread \in 1 .. readbytes
      /\ position \in Nat /\ packet_segmentstart \in Nat
      /\ udp_buf \in [0 .. udpsize - 1 -> Int]
  BY Constants DEF CallInv, NumbersOK, TypeOK, BuffersOK
<1>4. Write(0, udp_buf, udp_offset) /\ udp_offset \in 0 .. udpsize /\ 0 \in Int
  <2>1. LeftIndex = 0 /\ LeftOffset = udp_offset
    BY <1>2
  <2>2. udp_offset \in 0 .. udpsize
    BY <1>2, <1>3
  <2> QED BY <1>1, <2>1, <2>2
<1>5. \A x \in 0 .. readbytes - 1 :
          segment'[x] = IF x - 0 \in 0 .. udp_offset - 1 THEN udp_buf[x - 0] ELSE segment[x]
  BY <1>2, <1>3, <1>4, Copying
<1>6. ~astray'
  <2>1. 0 \in Nat /\ 0 + udp_offset <= readbytes
    BY <1>2, <1>3
  <2> QED BY <1>2, <1>3, <1>4, <2>1, Copying
<1>7. ASSUME NEW x \in Wanted,
             ((position + x) \div udpsize) - packet_segmentstart \in {0}
      PROVE  segment'[x] = position + x
  <2>1. x \in Nat /\ x \in 0 .. readbytes - 1
    BY <1>3 DEF Wanted
  <2>2. (position + x) \div udpsize \in Int
    BY <1>3, <2>1
  <2>3. (position + x) \div udpsize = packet_segmentstart
    BY <1>3, <1>7, <2>2
  <2>4. udp_offset \in 1 .. udpsize
    BY <1>2, <1>3
  <2>5. x < udp_offset
    <3> DEFINE q == (position + x) \div udpsize
    <3>1. q \in Int /\ q = packet_segmentstart /\ q = (position + x) \div udpsize
      BY <2>2, <2>3
    <3>2. position + udp_offset = (packet_segmentstart + 1) * udpsize
      BY <1>2
    <3> HIDE DEF q
    <3> QED BY <1>3, <2>1, <2>4, <3>1, <3>2, FirstUnits
  <2>6. x - 0 = x /\ x \in 0 .. udp_offset - 1
    BY <1>2, <2>1, <2>5
  <2> QED BY <1>2, <1>5, <2>1, <2>6
<1>8. ArrivedThere'
  <2>1. Wanted' = Wanted
    BY <1>1 DEF Wanted
  <2>2. \A q \in delivered' : q - packet_segmentstart' \in packets_arrived'
    <3>1. packet_segmentstart - packet_segmentstart = 0
      BY <1>3
    <3> QED BY <1>1, <1>2, <3>1
  <2>3. \A x \in Wanted' : ((position' + x) \div udpsize) - packet_segmentstart' \in packets_arrived'
                               => segment'[x] = position' + x
    BY <1>1, <1>2, <1>7, <2>1
  <2> QED BY <2>2, <2>3 DEF ArrivedThere
<1>9. ReceiveOK'
  <2>1. CallInStream'
    BY <1>1, <1>2 DEF CallInStream
  <2>2. 0 \in packets_arrived' /\ bytestoread' > udp_offset'
    BY <1>1, <1>2
  <2> QED BY <1>8, <2>1, <2>2 DEF ReceiveOK
<1> QED BY <1>1, <1>6, <1>9 DEF StreamOK, SegmentRight, InPlace, DeliveredKept, CallOver

\* All of the call is left of a packet, and some of it stays for the next.
LEMMA StreamLeftIsAll ==
    ASSUME CallInv, LeftIsAll, mishaps' = {}
    PROVE  StreamOK' /\ SegmentRight'
<1>1. /\ pc = "left" /\ udp_offset > 0 /\ CallFitsIn /\ MarkLeft /\ pc' = "fill" /\ mishaps = {}
      /\ Write(0, udp_buf, bytestoread) /\ udp_offset' = LeftOffset - bytestoread
      /\ udp_buf' = IF udp_offset' > 0 THEN Shifted(udp_buf, bytestoread) ELSE udp_buf
      /\ next_segmentstart' = IF udp_offset' > 0 THEN packet_segmentend ELSE packet_segmentend + 1
      /\ next_udpoffset' = udp_offset'
      /\ UNCHANGED <<position, mishaps, packet_head, packet_segmentstart, packet_segmentend,
                     bytestoread, segmentsize, delivered>>
  BY DEF LeftIsAll
<1>2. /\ LeftIndex = 0 /\ LeftOffset = udp_offset /\ udp_offset \in 1 .. udpsize - 1
      /\ bytestoread < udp_offset
      /\ position + udp_offset = (packet_segmentstart + 1) * udpsize
      /\ packet_segmentend = (position + bytestoread - 1) \div udpsize
      /\ packet_head = packet_segmentstart
      /\ \A i \in 0 .. udp_offset - 1 : udp_buf[i] = position + i
      /\ delivered = {packet_segmentstart} /\ ~astray /\ packets_arrived' = {0}
      /\ position \div udpsize = packet_segmentstart
  BY <1>1, LeftIsFirst
<1>3. /\ NumbersOK /\ udpsize \in Nat \ {0} /\ readbytes \in Nat /\ bytestoread \in 1 .. readbytes
      /\ position \in Nat /\ packet_segmentstart \in Nat
      /\ udp_buf \in [0 .. udpsize - 1 -> Int] /\ bytestoread \in Nat
      /\ segmentsize = packet_segmentend - packet_segmentstart + 1
  BY <1>1, Constants DEF CallInv, NumbersOK, TypeOK, BuffersOK, CountOK, InCall
<1>4. bytestoread \in 0 .. udpsize /\ 0 \in Int
  BY <1>2, <1>3
<1>5. \A x \in 0 .. readbytes - 1 :
          segment'[x] = IF x - 0 \in 0 .. bytestoread - 1 THEN udp_buf[x - 0] ELSE segment[x]
  BY <1>1, <1>2, <1>3, <1>4, Copying
<1>6. ~astray'
  <2>1. 0 \in Nat /\ 0 + bytestoread <= readbytes
    BY <1>3
  <2> QED BY <1>1, <1>2, <1>3, <1>4, <2>1, Copying
<1>7. packet_segmentend = packet_segmentstart /\ segmentsize = 1
  <2>1. udp_offset \in 1 .. udpsize /\ bytestoread - 1 \in Nat /\ bytestoread - 1 < udp_offset
    BY <1>2, <1>3
  <2>2. (position + (bytestoread - 1)) \div udpsize = packet_segmentstart
    <3> DEFINE q == (position + (bytestoread - 1)) \div udpsize
    <3>1. q \in Int /\ q = (position + (bytestoread - 1)) \div udpsize
      BY <1>3
    <3>2. position + udp_offset = (packet_segmentstart + 1) * udpsize
      BY <1>2
    <3> HIDE DEF q
    <3>3. q = packet_segmentstart
      BY <1>3, <2>1, <3>1, <3>2, FirstUnits
    <3> QED BY <3>1, <3>3
  <2>3. position + (bytestoread - 1) = position + bytestoread - 1
    BY <1>3
  <2> QED BY <1>2, <1>3, <2>2, <2>3
<1>8. ASSUME NEW x \in Wanted PROVE segment'[x] = position + x
  <2>1. x \in 0 .. readbytes - 1 /\ x - 0 = x /\ x \in 0 .. bytestoread - 1
        /\ x \in 0 .. udp_offset - 1
    BY <1>2, <1>3 DEF Wanted
  <2> QED BY <1>2, <1>5, <2>1
<1>9. ArrivedThere'
  <2>1. Wanted' = Wanted
    BY <1>1 DEF Wanted
  <2>2. \A q \in delivered' : q - packet_segmentstart' \in packets_arrived'
    <3>1. packet_segmentstart - packet_segmentstart = 0
      BY <1>3
    <3> QED BY <1>1, <1>2, <3>1
  <2>3. \A x \in Wanted' : segment'[x] = position' + x
    BY <1>1, <1>8, <2>1
  <2> QED BY <2>2, <2>3 DEF ArrivedThere
<1>10. udp_offset' = udp_offset - bytestoread /\ udp_offset' \in 1 .. udpsize - 1 /\ udp_offset' > 0
  BY <1>1, <1>2, <1>3
<1>11. next_segmentstart' = packet_segmentstart /\ next_udpoffset' = udp_offset - bytestoread
       /\ udp_buf' = Shifted(udp_buf, bytestoread)
  BY <1>1, <1>7, <1>10
<1>12. Rests(position + bytestoread, next_segmentstart, next_udpoffset)'
  <2>1. ASSUME NEW i \in 0 .. (udp_offset - bytestoread) - 1
        PROVE  udp_buf'[i] = (position + bytestoread) + i
    <3>1. /\ i \in 0 .. udpsize - 1 /\ i + bytestoread \in 0 .. udpsize - 1
          /\ i + bytestoread \in 0 .. udp_offset - 1
      BY <1>2, <1>3
    <3>2. DOMAIN udp_buf = 0 .. udpsize - 1
      BY <1>3
    <3>3. udp_buf'[i] = udp_buf[i + bytestoread]
      BY <1>11, <3>1, <3>2 DEF Shifted
    <3>4. udp_buf[i + bytestoread] = position + (i + bytestoread)
      BY <1>2, <3>1
    <3> QED BY <1>3, <3>1, <3>3, <3>4
  <2>2. (position + bytestoread) + (udp_offset - bytestoread) = (packet_segmentstart + 1) * udpsize
    <3>1. (position + bytestoread) + (udp_offset - bytestoread) = position + udp_offset
      BY <1>2, <1>3
    <3> QED BY <1>2, <3>1
  <2>3. udp_offset - bytestoread \in 0 .. udpsize - 1 /\ udp_offset - bytestoread # 0
    BY <1>2, <1>3
  <2> QED BY <1>1, <1>2, <1>11, <2>1, <2>2, <2>3 DEF Rests
<1>13. FillOK'
  <2>1. segmentsize' - 1 \in packets_arrived' /\ ~(segmentsize' > 1)
    BY <1>1, <1>2, <1>7
  <2>2. /\ packet_segmentend' = (position' + bytestoread' - 1) \div udpsize
        /\ packet_segmentstart' = position' \div udpsize
    BY <1>1, <1>2
  <2> QED BY <1>9, <1>12, <2>1, <2>2 DEF FillOK
<1> QED BY <1>1, <1>6, <1>13 DEF StreamOK, SegmentRight, InPlace, DeliveredKept, CallOver

\* The packet in udp_buf is never one of a later call while the last packet of every
\* call comes.
LEMMA StreamNotLater ==
    ASSUME CallInv, LeftIsLater \/ LeftIsLast, mishaps' = {}
    PROVE  FALSE
<1>1. pc = "left" /\ udp_offset > 0 /\ mishaps = {} /\ (LeftIndex >= segmentsize \/ LeftIndex > 0)
  BY DEF LeftIsLater, LeftIsLast
<1>2. LeftIndex = 0
  BY <1>1, LeftIsFirst
<1>3. segmentsize \in Nat /\ segmentsize >= 1
  BY <1>1, SizeOfCall DEF CallInv, NumbersOK, TypeOK, CountOK, InCall
<1> QED BY <1>1, <1>2, <1>3
\* A call that begins with the unit at a place of the stream
Located(place, start, end) ==
    /\ place + udp_offset = (start + 1) * udpsize
    /\ end = (place + bytestoread - 1) \div udpsize
    /\ \A q \in delivered : q - start \in 0 .. segmentsize - 1 => q - start \in packets_arrived
    /\ \A x \in Wanted :
           ((place + x) \div udpsize) - start \in packets_arrived => segment[x] = place + x
    /\ udp_offset < udpsize => 0 \in packets_arrived /\ bytestoread > udp_offset

\* The first packet of all sets the place of the call, and no other packet changes it.
LEMMA ReceiveLocates ==
    ASSUME CallInv, Usual, NEW sequence \in Arrivals, Receive(sequence), mishaps = {}
    PROVE  \E place \in Nat : position' = place
                              /\ Located(place, StartAt(sequence), EndAt(sequence))
<1>1. pc = "receive" /\ NumbersOK
  BY DEF Receive, CallInv
<1>2. /\ sequence \in Nat /\ (IsFirst(sequence) <=> packet_head = 0)
  BY <1>1, PacketIs
<1>3. ReceiveOK
  BY <1>1 DEF CallInv, StreamOK
<1>4. CASE packet_head # 0
  <2>1. /\ StartAt(sequence) = packet_segmentstart /\ EndAt(sequence) = packet_segmentend
        /\ position' = position /\ position \in Nat
    BY <1>1, <1>2, <1>4 DEF StartAt, EndAt, Receive, NumbersOK, TypeOK
  <2>2. Located(position, packet_segmentstart, packet_segmentend)
    BY <1>3 DEF ReceiveOK, CallInStream, ArrivedThere, Located
  <2> QED BY <2>1, <2>2
<1>5. CASE packet_head = 0
  <2>1. /\ udp_offset = udpsize /\ delivered = {} /\ packets_arrived = {}
    BY <1>1, <1>5 DEF NumbersOK, BeforeFirst
  <2>2. /\ StartAt(sequence) = sequence /\ position' = sequence * udpsize
        /\ EndAt(sequence) = sequence + ((bytestoread - 1) \div udpsize)
    BY <1>2, <1>5 DEF StartAt, EndAt, Receive
  <2>3. udpsize \in Nat \ {0} /\ bytestoread - 1 \in Nat /\ sequence * udpsize \in Nat
        /\ bytestoread \in Nat /\ sequence * udpsize = udpsize * sequence
    BY <1>1, <1>2, Constants DEF NumbersOK, TypeOK
  <2>4. EndAt(sequence) = (sequence * udpsize + bytestoread - 1) \div udpsize
    <3> DEFINE a == bytestoread - 1
    <3>1. sequence * udpsize + bytestoread - 1 = udpsize * sequence + a
      BY <2>3
    <3>2. a \in Nat /\ udpsize * sequence + a \in Nat /\ sequence \in Int
      BY <1>2, <2>3
    <3>3. EndAt(sequence) = sequence + (a \div udpsize)
      BY <2>2
    <3> HIDE DEF a
    <3>4. (udpsize * sequence + a) \div udpsize = sequence + (a \div udpsize)
      BY <2>3, <3>2, QuotientPlus
    <3> QED BY <3>1, <3>3, <3>4
  <2>5. sequence * udpsize + udp_offset = (sequence + 1) * udpsize
    BY <1>2, <2>1, <2>3
  <2>6. ~(udp_offset < udpsize)
    BY <2>1, <2>3
  <2>7. Located(sequence * udpsize, sequence, EndAt(sequence))
    BY <2>1, <2>4, <2>5, <2>6 DEF Located
  <2> QED BY <2>2, <2>3, <2>7
<1> QED BY <1>4, <1>5

\* What every packet of a call has to do with its place.
LEMMA PlaceIs ==
    ASSUME CallInv, Usual, NEW sequence \in Arrivals, Receive(sequence), mishaps = {},
           NEW place \in Nat, Located(place, StartAt(sequence), EndAt(sequence))
    PROVE  /\ PlaceOf(sequence) = udpsize * sequence - place
           /\ PlaceOf(sequence) \in Int
           /\ udpsize * EndAt(sequence) <= place + bytestoread - 1
           /\ place + bytestoread - 1 < udpsize * EndAt(sequence) + udpsize
           /\ place \div udpsize = StartAt(sequence)
           /\ Index(sequence) >= 1 => udpsize * sequence >= place
           /\ Index(sequence) = 0 /\ udp_offset = udpsize => udpsize * sequence = place
<1> DEFINE s == StartAt(sequence)
           e == EndAt(sequence)
           i == Index(sequence)
<1>1. pc = "receive" /\ NumbersOK
  BY DEF Receive, CallInv
<1>2. /\ sequence \in Nat /\ s \in Nat /\ e \in Nat /\ i = sequence - s /\ i \in Int
  BY <1>1, PacketIs
<1>3. /\ udpsize \in Nat \ {0} /\ bytestoread \in Nat \ {0} /\ udp_offset \in 1 .. udpsize
  BY <1>1, Constants DEF NumbersOK, TypeOK, CountOK
<1>4. place + udp_offset = (s + 1) * udpsize /\ e = (place + bytestoread - 1) \div udpsize
  BY DEF Located
<1>5. PlaceOf(sequence) = udp_offset + (i - 1) * udpsize
  BY DEF PlaceOf
<1> HIDE DEF s, e, i
<1>6. (s + 1) * udpsize = udpsize * s + udpsize
  BY <1>2, <1>3
<1>7. (i - 1) * udpsize = udpsize * i - udpsize
  BY <1>2, <1>3
<1>8. udpsize * i = udpsize * sequence - udpsize * s
  BY <1>2, <1>3
<1>9. udpsize * sequence \in Int /\ udpsize * s \in Int /\ udpsize * i \in Int
  BY <1>2, <1>3
<1>10. PlaceOf(sequence) = udpsize * sequence - place
  BY <1>3, <1>4, <1>5, <1>6, <1>7, <1>8, <1>9
<1>11. PlaceOf(sequence) \in Int
  BY <1>9, <1>10
<1>12. udpsize * e <= place + bytestoread - 1 /\ place + bytestoread - 1 < udpsize * e + udpsize
  <2> DEFINE l == place + bytestoread - 1
  <2>1. l \in Nat /\ e = l \div udpsize
    BY <1>3, <1>4
  <2> HIDE DEF l
  <2>2. udpsize * e <= l /\ l < udpsize * e + udpsize
    BY <1>3, <2>1, QuotientBounds
  <2> QED BY <2>2 DEF l
<1>13. place \div udpsize = s
  <2>1. udpsize * s <= place /\ place < udpsize * s + udpsize /\ s \in Int
    BY <1>2, <1>3, <1>4, <1>6, <1>9
  <2> QED BY <1>3, <2>1, QuotientIs
<1>14. i >= 1 => udpsize * sequence >= place
  <2> SUFFICES ASSUME i >= 1 PROVE udpsize * sequence >= place
    OBVIOUS
  <2>1. udpsize * i >= udpsize
    BY <1>2, <1>3, Multiple
  <2> QED BY <1>3, <1>4, <1>6, <1>8, <1>9, <2>1
<1>15. i = 0 /\ udp_offset = udpsize => udpsize * sequence = place
  <2> SUFFICES ASSUME i = 0, udp_offset = udpsize PROVE udpsize * sequence = place
    OBVIOUS
  <2>1. udpsize * i = 0
    BY <1>3
  <2> QED BY <1>3, <1>4, <1>6, <1>8, <1>9, <2>1
<1> QED BY <1>10, <1>11, <1>12, <1>13, <1>14, <1>15 DEF s, e, i
\* What holds again when the call goes on.
LEMMA ReceiveGoesOn ==
    ASSUME CallInv, Usual, NEW sequence \in Arrivals, Receive(sequence), mishaps = {},
           NEW place \in Nat, position' = place,
           Located(place, StartAt(sequence), EndAt(sequence)),
           udp_offset' = udp_offset, pc' = "receive", ~astray', packets_arrived \subseteq packets_arrived',
           Index(sequence) \in 0 .. segmentsize - 1 => Index(sequence) \in packets_arrived',
           \A x \in Wanted : ((place + x) \div udpsize) - StartAt(sequence) \in packets_arrived'
                                 => segment'[x] = place + x
    PROVE  StreamOK' /\ SegmentRight'
<1>1. /\ delivered' = delivered \cup {sequence} /\ packet_segmentstart' = StartAt(sequence)
      /\ packet_segmentend' = EndAt(sequence) /\ bytestoread' = bytestoread
      /\ segmentsize' = segmentsize
  BY DEF Receive
<1>2. Wanted' = Wanted
  BY <1>1 DEF Wanted
<1>3. ArrivedThere'
  <2>1. ASSUME NEW q \in delivered', q - packet_segmentstart' \in 0 .. segmentsize' - 1
        PROVE  q - packet_segmentstart' \in packets_arrived'
    <3>1. CASE q \in delivered
      BY <1>1, <2>1, <3>1 DEF Located
    <3>2. CASE q = sequence
      BY <1>1, <2>1, <3>2 DEF Index
    <3> QED BY <1>1, <3>1, <3>2
  <2> QED BY <1>1, <1>2, <2>1 DEF ArrivedThere
<1>4. CallInStream'
  BY <1>1 DEF Located, CallInStream
<1>5. udp_offset' < udpsize => 0 \in packets_arrived' /\ bytestoread' > udp_offset'
  BY <1>1 DEF Located
<1>6. ReceiveOK'
  BY <1>3, <1>4, <1>5 DEF ReceiveOK
<1> QED BY <1>6 DEF StreamOK, SegmentRight, InPlace, DeliveredKept, CallOver

\* A packet of no use.
LEMMA StreamUseless ==
    ASSUME CallInv, Usual, NEW sequence \in Arrivals, UselessPacket(sequence), mishaps' = {}
    PROVE  StreamOK' /\ SegmentRight'
<1>1. /\ Receive(sequence) /\ mishaps = {} /\ pc = "receive" /\ pc' = "receive"
      /\ packets_arrived' = packets_arrived /\ segment' = segment /\ astray' = astray
      /\ udp_offset' = udp_offset /\ NumbersOK
      /\ Index(sequence) < 0 \/ Index(sequence) \in packets_arrived
  BY DEF UselessPacket, Receive, memory, CallInv
<1>2. PICK place \in Nat : position' = place /\ Located(place, StartAt(sequence), EndAt(sequence))
  BY <1>1, ReceiveLocates
<1>3. ~astray
  BY <1>1 DEF CallInv, StreamOK
<1>4. Index(sequence) \in 0 .. segmentsize - 1 => Index(sequence) \in packets_arrived'
  <2>1. Index(sequence) \in Int
    BY <1>1, PacketIs
  <2> QED BY <1>1, <2>1 DEF NumbersOK, TypeOK
<1>5. \A x \in Wanted : ((place + x) \div udpsize) - StartAt(sequence) \in packets_arrived'
                            => segment'[x] = place + x
  BY <1>1, <1>2 DEF Located
<1> QED BY <1>1, <1>2, <1>3, <1>4, <1>5, ReceiveGoesOn

\* The units of a packet.
LEMMA UnitsOfPacket ==
    ASSUME NEW place \in Nat, NEW sequence \in Nat, NEW x \in Nat,
           NEW q \in Int, q = (place + x) \div udpsize
    PROVE  q = sequence <=> x - (udpsize * sequence - place) \in 0 .. udpsize - 1
<1>1. udpsize \in Nat \ {0} /\ place + x \in Nat /\ udpsize * sequence \in Nat
  BY Constants
<1>2. q = sequence => x - (udpsize * sequence - place) \in 0 .. udpsize - 1
  <2>1. udpsize * q <= place + x /\ place + x < udpsize * q + udpsize
    BY <1>1, QuotientBounds
  <2> QED BY <1>1, <2>1
<1>3. ASSUME x - (udpsize * sequence - place) \in 0 .. udpsize - 1 PROVE q = sequence
  <2>1. udpsize * sequence <= place + x /\ place + x < udpsize * sequence + udpsize
    BY <1>1, <1>3
  <2>2. sequence \in Int
    OBVIOUS
  <2> QED BY <1>1, <2>1, <2>2, QuotientIs
<1> QED BY <1>2, <1>3

\* A packet that comes into its place: its units are there, and no other is disturbed.
LEMMA PacketWritten ==
    ASSUME CallInv, Usual, NEW sequence \in Arrivals, Receive(sequence), mishaps = {},
           NEW place \in Nat, Located(place, StartAt(sequence), EndAt(sequence)),
           NEW n \in 0 .. udpsize, Write(PlaceOf(sequence), PacketOf(sequence), n),
           packets_arrived' = packets_arrived \cup {Index(sequence)},
           NEW x \in Wanted, x - PlaceOf(sequence) \in 0 .. udpsize - 1 => x - PlaceOf(sequence) \in 0 .. n - 1,
           ((place + x) \div udpsize) - StartAt(sequence) \in packets_arrived'
    PROVE  segment'[x] = place + x
<1> DEFINE q == (place + x) \div udpsize
           p == PlaceOf(sequence)
<1>1. pc = "receive" /\ NumbersOK /\ ~astray
  BY DEF Receive, CallInv, StreamOK
<1>2. /\ sequence \in Nat /\ StartAt(sequence) \in Nat
      /\ Index(sequence) = sequence - StartAt(sequence)
  BY <1>1, PacketIs
<1>3. p = udpsize * sequence - place /\ p \in Int
  BY PlaceIs
<1>4. udpsize \in Nat \ {0} /\ readbytes \in Nat /\ bytestoread \in 1 .. readbytes
      /\ udpsize * sequence \in Nat
  BY <1>1, <1>2, Constants DEF NumbersOK, TypeOK
<1>5. x \in Nat /\ x \in 0 .. readbytes - 1
  BY <1>4 DEF Wanted
<1>6. q \in Int /\ q = (place + x) \div udpsize
  BY <1>4, <1>5
<1>7. PacketOf(sequence) \in [0 .. udpsize - 1 -> Int]
  BY <1>2, PacketType
<1> HIDE DEF p, q
<1>8. q = sequence <=> x - p \in 0 .. udpsize - 1
  BY <1>2, <1>3, <1>5, <1>6, UnitsOfPacket
<1>9. segment'[x] = IF x - p \in 0 .. n - 1 THEN PacketOf(sequence)[x - p] ELSE segment[x]
  BY <1>1, <1>3, <1>5, <1>7, Copying DEF p
<1>10. CASE q = sequence
  <2>1. x - p \in 0 .. udpsize - 1 /\ x - p \in 0 .. n - 1
    BY <1>8, <1>10 DEF p
  <2>2. PacketOf(sequence)[x - p] = sequence * udpsize + (x - p)
    BY <2>1 DEF PacketOf
  <2>3. sequence * udpsize + (x - p) = place + x
    <3>1. sequence * udpsize = udpsize * sequence
      BY <1>2, <1>4
    <3> QED BY <1>3, <1>4, <1>5, <3>1
  <2> QED BY <1>9, <2>1, <2>2, <2>3
<1>11. CASE q # sequence
  <2>1. x - p \notin 0 .. n - 1
    BY <1>3, <1>4, <1>5, <1>8, <1>11
  <2>2. q - StartAt(sequence) # Index(sequence)
    BY <1>2, <1>6, <1>11
  <2>3. q - StartAt(sequence) \in packets_arrived
    BY <2>2 DEF q
  <2>4. segment[x] = place + x
    BY <2>3 DEF Located, q
  <2> QED BY <1>9, <2>1, <2>4
<1> QED BY <1>10, <1>11
\* A packet of the middle.
LEMMA StreamMiddle ==
    ASSUME CallInv, Usual, NEW sequence \in Arrivals, MiddlePacket(sequence), mishaps' = {}
    PROVE  StreamOK' /\ SegmentRight'
<1>1. /\ Receive(sequence) /\ mishaps = {} /\ pc = "receive" /\ pc' = "receive"
      /\ Index(sequence) \in 0 .. segmentsize - 1 /\ sequence # EndAt(sequence)
      /\ Index(sequence) \notin packets_arrived
      /\ Write(PlaceOf(sequence), PacketOf(sequence), udpsize)
      /\ packets_arrived' = packets_arrived \cup {Index(sequence)}
      /\ udp_offset' = udp_offset /\ NumbersOK
  BY DEF MiddlePacket, Receive, CallInv
<1>2. PICK place \in Nat : position' = place /\ Located(place, StartAt(sequence), EndAt(sequence))
  BY <1>1, ReceiveLocates
<1>3. /\ udpsize \in Nat \ {0} /\ readbytes \in Nat /\ bytestoread \in 1 .. readbytes
      /\ udp_offset \in 1 .. udpsize /\ segmentsize \in Nat
  BY <1>1, Constants DEF NumbersOK, TypeOK, CountOK
<1>4. /\ sequence \in Nat /\ StartAt(sequence) \in Nat /\ EndAt(sequence) \in Nat
      /\ segmentsize = EndAt(sequence) - StartAt(sequence) + 1
      /\ Index(sequence) = sequence - StartAt(sequence) /\ Index(sequence) \in Int
  BY <1>1, PacketIs
<1>5. /\ PlaceOf(sequence) = udpsize * sequence - place /\ PlaceOf(sequence) \in Int
      /\ udpsize * EndAt(sequence) <= place + bytestoread - 1
      /\ Index(sequence) >= 1 => udpsize * sequence >= place
      /\ Index(sequence) = 0 /\ udp_offset = udpsize => udpsize * sequence = place
  BY <1>1, <1>2, PlaceIs
<1>6. PlaceOf(sequence) \in Nat
  <2>1. udpsize * sequence \in Nat
    BY <1>3, <1>4
  <2>2. CASE Index(sequence) >= 1
    BY <1>5, <2>1, <2>2
  <2>3. CASE Index(sequence) = 0
    <3>1. udp_offset = udpsize
      BY <1>1, <1>2, <1>3, <2>3 DEF Located
    <3> QED BY <1>5, <2>1, <2>3, <3>1
  <2> QED BY <1>1, <1>3, <1>4, <2>2, <2>3
<1>7. PlaceOf(sequence) + udpsize <= readbytes
  <2>1. EndAt(sequence) - sequence >= 1
    BY <1>1, <1>3, <1>4
  <2>2. EndAt(sequence) - sequence \in Int
    BY <1>4
  <2>3. udpsize * (EndAt(sequence) - sequence) >= udpsize
    BY <1>3, <2>1, <2>2, Multiple
  <2>4. udpsize * (EndAt(sequence) - sequence) = udpsize * EndAt(sequence) - udpsize * sequence
        /\ udpsize * EndAt(sequence) \in Int /\ udpsize * sequence \in Int
    BY <1>3, <1>4
  <2> QED BY <1>3, <1>5, <2>3, <2>4
<1>8. ~astray /\ udpsize \in 0 .. udpsize
  BY <1>1, <1>3 DEF CallInv, StreamOK
<1>9. PacketOf(sequence) \in [0 .. udpsize - 1 -> Int]
  BY <1>4, PacketType
<1>10. ~astray'
  BY <1>1, <1>5, <1>6, <1>7, <1>8, <1>9, Copying
<1>11. \A x \in Wanted : ((place + x) \div udpsize) - StartAt(sequence) \in packets_arrived'
                             => segment'[x] = place + x
  BY <1>1, <1>2, <1>8, PacketWritten
<1> QED BY <1>1, <1>2, <1>10, <1>11, ReceiveGoesOn

\* How much of the last packet is wanted.
LEMMA LastUnitsAre ==
    ASSUME CallInv, Usual, NEW sequence \in Arrivals, Receive(sequence), mishaps = {},
           NEW place \in Nat, Located(place, StartAt(sequence), EndAt(sequence))
    PROVE  /\ LastUnits = place + bytestoread - udpsize * EndAt(sequence)
           /\ LastUnits \in 1 .. udpsize
           /\ segmentsize = 1 => udp_offset = udpsize
<1> DEFINE s == StartAt(sequence)
           e == EndAt(sequence)
           a == bytestoread - udp_offset - 1
           l == place + bytestoread - 1
<1>1. pc = "receive" /\ NumbersOK
  BY DEF Receive, CallInv
<1>2. /\ udpsize \in Nat \ {0} /\ bytestoread \in Nat \ {0} /\ udp_offset \in 1 .. udpsize
      /\ bytestoread < udp_offset => udp_offset = udpsize /\ segmentsize = 1
      /\ udp_offset = udpsize /\ segmentsize = 1 => bytestoread <= udpsize
  BY <1>1, Constants DEF NumbersOK, TypeOK, CountOK
<1>3. /\ s \in Nat /\ e \in Nat /\ segmentsize = e - s + 1
  BY <1>1, PacketIs
<1>4. /\ udpsize * e <= l /\ l < udpsize * e + udpsize
  BY PlaceIs
<1>5. /\ place + udp_offset = (s + 1) * udpsize
      /\ udp_offset < udpsize => bytestoread > udp_offset
  BY DEF Located
<1>6. LastUnits = IF udp_offset = udpsize /\ segmentsize = 1 THEN bytestoread
                  ELSE Rem(a, udpsize) + 1
  BY DEF LastUnits
<1> HIDE DEF s, e
<1>7. (s + 1) * udpsize = udpsize * s + udpsize /\ udpsize * s \in Nat /\ udpsize * e \in Nat
      /\ udpsize * (s + 1) = udpsize * s + udpsize
  BY <1>2, <1>3
<1>8. segmentsize = 1 => udp_offset = udpsize
  <2> SUFFICES ASSUME segmentsize = 1, udp_offset < udpsize PROVE FALSE
    BY <1>2
  <2>1. e = s
    BY <1>3
  <2> QED BY <1>2, <1>4, <1>5, <1>7, <2>1
<1>9. CASE segmentsize = 1
  <2>1. e = s /\ udp_offset = udpsize /\ LastUnits = bytestoread /\ bytestoread <= udpsize
    BY <1>2, <1>3, <1>6, <1>8, <1>9
  <2> QED BY <1>2, <1>5, <1>7, <1>8, <2>1 DEF e
<1>10. CASE segmentsize # 1
  <2>1. a \in Nat
    <3>1. bytestoread > udp_offset
      <4>1. CASE udp_offset < udpsize
        BY <1>5, <4>1
      <4>2. CASE udp_offset = udpsize
        <5>1. e - s >= 1
          <6>1. segmentsize \in Int /\ segmentsize >= 1
            BY <1>1, SizeOfCall DEF NumbersOK, TypeOK, CountOK, InCall
          <6> QED BY <1>3, <1>10, <6>1
        <5>2. udpsize * (e - s) >= udpsize /\ udpsize * (e - s) = udpsize * e - udpsize * s
          BY <1>2, <1>3, <5>1, Multiple
        <5> QED BY <1>2, <1>4, <1>5, <1>7, <4>2, <5>2
      <4> QED BY <1>2, <4>1, <4>2
    <3> QED BY <1>2, <3>1
  <2>2. LastUnits = Rem(a, udpsize) + 1
    BY <1>6, <1>10
  <2>3. l = udpsize * (s + 1) + a /\ l \in Nat
    BY <1>2, <1>5, <1>7
  <2>4. a \in Int /\ a >= 0 /\ s + 1 \in Int
    BY <1>3, <2>1
  <2>5. l = place + bytestoread - 1
    OBVIOUS
  <2> HIDE DEF a, l
  <2>6. Rem(a, udpsize) = a % udpsize
    BY <1>2, <2>4, CDivision
  <2>7. (udpsize * (s + 1) + a) % udpsize = a % udpsize
    BY <1>2, <2>1, <2>3, <2>4, QuotientPlus
  <2>8. l % udpsize = l - udpsize * e
    <3>1. e \in Int
      BY <1>3
    <3> QED BY <1>2, <1>4, <2>3, <3>1, QuotientIs
  <2>9. Rem(a, udpsize) = l - udpsize * e
    BY <2>3, <2>6, <2>7, <2>8
  <2>10. LastUnits = place + bytestoread - udpsize * e
    BY <1>2, <1>7, <2>2, <2>5, <2>9
  <2>11. LastUnits \in 1 .. udpsize
    BY <1>2, <1>4, <1>7, <2>3, <2>2, <2>9
  <2> QED BY <1>8, <2>10, <2>11 DEF e
<1> QED BY <1>9, <1>10
\* The last packet of a call: what is over of it stays in udp_buf.
LEMMA StreamLast ==
    ASSUME CallInv, Usual, NEW sequence \in Arrivals, LastPacketComes(sequence), mishaps' = {}
    PROVE  StreamOK' /\ SegmentRight'
<1> DEFINE n == LastUnits
<1>1. /\ Receive(sequence) /\ mishaps = {} /\ pc = "receive" /\ udp_offset' = udp_offset
      /\ NumbersOK /\ Index(sequence) >= 0 /\ sequence = EndAt(sequence)
  BY DEF LastPacketComes, Receive, CallInv
<1>2. PICK place \in Nat : position' = place /\ Located(place, StartAt(sequence), EndAt(sequence))
  BY <1>1, ReceiveLocates
<1>3. /\ udpsize \in Nat \ {0} /\ readbytes \in Nat /\ bytestoread \in 1 .. readbytes
      /\ udp_offset \in 1 .. udpsize /\ segmentsize \in Nat
  BY <1>1, Constants DEF NumbersOK, TypeOK, CountOK
<1>4. /\ sequence \in Nat /\ StartAt(sequence) \in Nat /\ EndAt(sequence) \in Nat
      /\ segmentsize = EndAt(sequence) - StartAt(sequence) + 1
      /\ Index(sequence) = sequence - StartAt(sequence) /\ Index(sequence) \in Int
  BY <1>1, PacketIs
<1>5. /\ n = place + bytestoread - udpsize * sequence /\ n \in 1 .. udpsize
      /\ segmentsize = 1 => udp_offset = udpsize
  BY <1>1, <1>2, LastUnitsAre
<1>6. /\ Write(PlaceOf(sequence), PacketOf(sequence), n)
      /\ udp_buf' = Shifted(PacketOf(sequence), n)
      /\ next_udpoffset' = udpsize - n
      /\ next_segmentstart' = IF n = udpsize THEN sequence + 1 ELSE sequence
      /\ packet_head' = sequence
      /\ packets_arrived' = packets_arrived \cup {Index(sequence)} /\ pc' = "fill"
  <2>1. n \in 0 .. udpsize
    BY <1>3, <1>5
  <2> QED BY <2>1 DEF LastPacketComes
<1> HIDE DEF n
<1>7. /\ PlaceOf(sequence) = udpsize * sequence - place /\ PlaceOf(sequence) \in Int
      /\ place \div udpsize = StartAt(sequence)
      /\ Index(sequence) >= 1 => udpsize * sequence >= place
      /\ Index(sequence) = 0 /\ udp_offset = udpsize => udpsize * sequence = place
  BY <1>1, <1>2, PlaceIs
<1>8. udpsize * sequence \in Nat /\ sequence * udpsize = udpsize * sequence
      /\ (sequence + 1) * udpsize = udpsize * sequence + udpsize
  BY <1>3, <1>4
<1>9. PlaceOf(sequence) \in Nat
  <2>1. CASE Index(sequence) >= 1
    BY <1>7, <1>8, <2>1
  <2>2. CASE Index(sequence) = 0
    <3>1. segmentsize = 1
      BY <1>1, <1>4, <2>2
    <3> QED BY <1>5, <1>7, <1>8, <2>2, <3>1
  <2> QED BY <1>1, <1>4, <2>1, <2>2
<1>10. PlaceOf(sequence) + n = bytestoread
  BY <1>3, <1>5, <1>7, <1>8
<1>11. ~astray /\ n \in 0 .. udpsize
  BY <1>1, <1>3, <1>5 DEF CallInv, StreamOK
<1>12. PacketOf(sequence) \in [0 .. udpsize - 1 -> Int]
  BY <1>4, PacketType
<1>13. ~astray'
  <2>1. PlaceOf(sequence) + n <= readbytes
    BY <1>3, <1>10
  <2> QED BY <1>1, <1>6, <1>7, <1>9, <1>11, <1>12, <2>1, Copying
<1>14. ASSUME NEW x \in Wanted,
              ((place + x) \div udpsize) - StartAt(sequence) \in packets_arrived'
       PROVE  segment'[x] = place + x
  <2>1. x - PlaceOf(sequence) \in 0 .. udpsize - 1 => x - PlaceOf(sequence) \in 0 .. n - 1
    <3>1. x \in 0 .. bytestoread - 1
      BY DEF Wanted
    <3> QED BY <1>3, <1>5, <1>7, <1>10, <3>1
  <2> QED BY <1>1, <1>2, <1>6, <1>11, <1>14, <2>1, PacketWritten
<1>15. /\ delivered' = delivered \cup {sequence} /\ packet_segmentstart' = StartAt(sequence)
       /\ packet_segmentend' = EndAt(sequence) /\ bytestoread' = bytestoread
       /\ segmentsize' = segmentsize /\ Wanted' = Wanted
  BY <1>1 DEF Receive, Wanted
<1>16. ArrivedThere'
  <2>1. ASSUME NEW q \in delivered', q - packet_segmentstart' \in 0 .. segmentsize' - 1
        PROVE  q - packet_segmentstart' \in packets_arrived'
    <3>1. CASE q \in delivered
      BY <1>2, <1>6, <1>15, <2>1, <3>1 DEF Located
    <3>2. CASE q = sequence
      BY <1>6, <1>15, <2>1, <3>2 DEF Index
    <3> QED BY <1>15, <3>1, <3>2
  <2> QED BY <1>2, <1>14, <1>15, <2>1 DEF ArrivedThere
<1>17. Rests(position + bytestoread, next_segmentstart, next_udpoffset)'
  <2>1. place + bytestoread = udpsize * sequence + n
    BY <1>3, <1>5, <1>8
  <2>2. CASE n = udpsize
    <3>1. next_udpoffset' = 0 /\ next_segmentstart' = sequence + 1
      BY <1>3, <1>6, <2>2
    <3>2. place + bytestoread = (sequence + 1) * udpsize
      BY <1>8, <2>1, <2>2
    <3>3. 0 \in 0 .. udpsize - 1 /\ ~(0 > 0)
      BY <1>3
    <3> QED BY <1>2, <1>15, <3>1, <3>2, <3>3 DEF Rests
  <2>3. CASE n # udpsize
    <3>1. next_udpoffset' = udpsize - n /\ next_segmentstart' = sequence
      BY <1>6, <2>3
    <3>2. udpsize - n \in 0 .. udpsize - 1 /\ udpsize - n # 0
      BY <1>3, <1>5, <2>3
    <3>3. (place + bytestoread) + (udpsize - n) = (sequence + 1) * udpsize
      BY <1>3, <1>5, <1>8, <2>1
    <3>4. ASSUME NEW i \in 0 .. (udpsize - n) - 1
          PROVE  udp_buf'[i] = (place + bytestoread) + i
      <4>1. i \in 0 .. udpsize - 1 /\ i + n \in 0 .. udpsize - 1
        BY <1>3, <1>5
      <4>2. DOMAIN PacketOf(sequence) = 0 .. udpsize - 1
        BY <1>12
      <4>3. udp_buf'[i] = PacketOf(sequence)[i + n]
        BY <1>6, <4>1, <4>2 DEF Shifted
      <4>4. PacketOf(sequence)[i + n] = sequence * udpsize + (i + n)
        BY <4>1 DEF PacketOf
      <4> QED BY <1>5, <1>8, <2>1, <4>1, <4>3, <4>4
    <3> QED BY <1>2, <1>6, <1>15, <3>1, <3>2, <3>3, <3>4 DEF Rests
  <2> QED BY <2>2, <2>3
<1>18. FillOK'
  <2>1. segmentsize' - 1 \in packets_arrived'
    <3>1. segmentsize - 1 = Index(sequence)
      BY <1>1, <1>4
    <3> QED BY <1>6, <1>15, <3>1
  <2>2. /\ packet_segmentend' = (position' + bytestoread' - 1) \div udpsize
        /\ packet_segmentstart' = position' \div udpsize
    BY <1>2, <1>7, <1>15 DEF Located
  <2>3. CallInStream'
    BY <1>1, <1>2, <1>15 DEF Located, CallInStream
  <2> QED BY <1>16, <1>17, <2>1, <2>2, <2>3 DEF FillOK
<1> QED BY <1>6, <1>13, <1>18 DEF StreamOK, SegmentRight, InPlace, DeliveredKept, CallOver
\* The units that fill data goes to are those of the packets that have not come.
LEMMA FilledUnits ==
    ASSUME CallInv, pc = "fill", mishaps = {}, NEW i \in (0 .. segmentsize - 1) \ packets_arrived,
           NEW x
    PROVE  x \in FilledBy(i) <=> /\ x \in Wanted
                                 /\ (position + x) \div udpsize = packet_segmentstart + i
<1> DEFINE s == packet_segmentstart
           e == packet_segmentend
<1>1. FillOK /\ NumbersOK
  BY DEF CallInv, StreamOK
<1>2. /\ udpsize \in Nat \ {0} /\ bytestoread \in Nat \ {0} /\ udp_offset \in Nat
      /\ position \in Nat /\ s \in Nat /\ e \in Nat /\ segmentsize = e - s + 1
      /\ segmentsize \in Nat
  BY <1>1, Constants DEF NumbersOK, TypeOK, CountOK, InCall
<1>3. i \in Nat /\ i < e - s
  <2>1. i # segmentsize - 1 /\ i \in 0 .. segmentsize - 1
    BY <1>1 DEF FillOK
  <2> QED BY <1>2, <2>1
<1>4. /\ position + udp_offset = (s + 1) * udpsize
      /\ e = (position + bytestoread - 1) \div udpsize /\ s = position \div udpsize
  <2>1. segmentsize > 1
    BY <1>2, <1>3
  <2> QED BY <1>1, <2>1 DEF FillOK, CallInStream
<1>5. FilledBy(i) = IF i = 0 THEN 0 .. udp_offset - 1
                    ELSE (udp_offset + (i - 1) * udpsize) .. (udp_offset + (i - 1) * udpsize + udpsize - 1)
  <2>1. i # packet_segmentend - packet_segmentstart
    BY <1>2, <1>3
  <2> QED BY <2>1 DEF FilledBy
<1>6. x \in Wanted <=> x \in Int /\ 0 <= x /\ x < bytestoread
  BY <1>2 DEF Wanted
<1> HIDE DEF s, e
<1>7. /\ (s + 1) * udpsize = udpsize * s + udpsize /\ udpsize * (s + i) = udpsize * s + udpsize * i
      /\ (i - 1) * udpsize = udpsize * i - udpsize /\ udpsize * s \in Nat /\ udpsize * i \in Nat
      /\ udpsize * (s + i) \in Nat /\ udpsize * e \in Nat
  BY <1>2, <1>3
<1>8. udpsize * s <= position /\ position < udpsize * s + udpsize
  BY <1>2, <1>4, QuotientBounds
<1>9. udp_offset \in 1 .. udpsize
  BY <1>2, <1>4, <1>7, <1>8
<1>10. udpsize * (s + i) + udpsize <= position + bytestoread - 1
  <2> DEFINE l == position + bytestoread - 1
  <2>1. l \in Nat /\ e = l \div udpsize
    BY <1>2, <1>4
  <2> HIDE DEF l
  <2>2. udpsize * e <= l
    BY <1>2, <2>1, QuotientBounds
  <2>3. e - (s + i) \in Int /\ e - (s + i) >= 1
    BY <1>2, <1>3
  <2>4. udpsize * (e - (s + i)) >= udpsize
    BY <1>2, <2>3, Multiple
  <2>5. udpsize * (e - (s + i)) = udpsize * e - udpsize * (s + i)
    BY <1>2, <1>3
  <2>6. udpsize * (s + i) + udpsize <= l
    BY <1>2, <1>7, <2>1, <2>2, <2>4, <2>5
  <2> QED BY <2>6 DEF l
<1>11. ASSUME x \in Nat
       PROVE  (position + x) \div udpsize = s + i <=>
                  udpsize * (s + i) <= position + x /\ position + x < udpsize * (s + i) + udpsize
  <2> DEFINE c == position + x
             k == s + i
  <2>1. c \in Nat /\ k \in Int
    BY <1>2, <1>3, <1>11
  <2> HIDE DEF c, k
  <2>2. udpsize * (c \div udpsize) <= c /\ c < udpsize * (c \div udpsize) + udpsize
    BY <1>2, <2>1, QuotientBounds
  <2>3. udpsize * k <= c /\ c < udpsize * k + udpsize => c \div udpsize = k
    BY <1>2, <2>1, QuotientIs
  <2>4. c \div udpsize = k <=> udpsize * k <= c /\ c < udpsize * k + udpsize
    BY <2>2, <2>3
  <2> QED BY <2>4 DEF c, k
<1>12. x \in FilledBy(i) <=> /\ x \in Nat /\ udpsize * (s + i) <= position + x
                             /\ position + x < udpsize * (s + i) + udpsize
  <2>1. CASE i = 0
    <3>1. FilledBy(i) = 0 .. udp_offset - 1 /\ udpsize * (s + i) = udpsize * s
      BY <1>2, <1>5, <2>1
    <3>2. position + udp_offset = udpsize * s + udpsize
      BY <1>4, <1>7
    <3>3. x \in FilledBy(i) <=> x \in Int /\ 0 <= x /\ x < udp_offset
      BY <1>2, <3>1
    <3> QED BY <1>2, <1>7, <1>8, <3>1, <3>2, <3>3
  <2>2. CASE i # 0
    <3> DEFINE p == udpsize * (s + i) - position
    <3>1. udp_offset + (i - 1) * udpsize = p
      BY <1>2, <1>4, <1>7
    <3>2. p \in Nat
      <4>1. udpsize * i >= udpsize
        BY <1>2, <1>3, <2>2, Multiple
      <4> QED BY <1>2, <1>7, <1>8, <4>1
    <3>3. FilledBy(i) = p .. p + udpsize - 1
      BY <1>2, <1>5, <2>2, <3>1, <3>2
    <3>4. p = udpsize * (s + i) - position
      OBVIOUS
    <3> HIDE DEF p
    <3>5. x \in FilledBy(i) <=> x \in Int /\ p <= x /\ x < p + udpsize
      BY <1>2, <3>2, <3>3
    <3> QED BY <1>2, <1>7, <3>2, <3>4, <3>5
  <2> QED BY <2>1, <2>2
<1>13. x \in Nat /\ position + x < udpsize * (s + i) + udpsize => x < bytestoread
  BY <1>2, <1>7, <1>10
<1>14. x \in FilledBy(i) <=> x \in Wanted /\ (position + x) \div udpsize = s + i
  BY <1>6, <1>11, <1>12, <1>13
<1> QED BY <1>14 DEF s
\* The packet of a unit that is wanted is one of the call.
LEMMA WantedInCall ==
    ASSUME CallInv, pc = "fill", mishaps = {}, NEW x \in Wanted
    PROVE  /\ ((position + x) \div udpsize) - packet_segmentstart \in 0 .. segmentsize - 1
           /\ (position + x) \div udpsize \in Nat
<1>1. FillOK /\ NumbersOK
  BY DEF CallInv, StreamOK
<1>2. /\ udpsize \in Nat \ {0} /\ bytestoread \in Nat \ {0} /\ position \in Nat
      /\ packet_segmentstart \in Nat /\ packet_segmentend \in Nat
      /\ segmentsize = packet_segmentend - packet_segmentstart + 1
  BY <1>1, Constants DEF NumbersOK, TypeOK, CountOK, InCall
<1>3. /\ packet_segmentend = (position + bytestoread - 1) \div udpsize
      /\ packet_segmentstart = position \div udpsize
  BY <1>1 DEF FillOK
<1> DEFINE c == position + x
           l == position + bytestoread - 1
<1>4. c \in Nat /\ l \in Nat /\ position <= c /\ c <= l
  BY <1>2 DEF Wanted
<1> HIDE DEF c, l
<1>5. position \div udpsize <= c \div udpsize /\ c \div udpsize <= l \div udpsize
  BY <1>2, <1>4, QuotientGrows
<1>6. c \div udpsize \in Nat
  BY <1>2, <1>4, Division
<1>7. l \div udpsize = packet_segmentend
  BY <1>3 DEF l
<1>8. (c \div udpsize) - packet_segmentstart \in 0 .. segmentsize - 1
  BY <1>2, <1>3, <1>5, <1>6, <1>7
<1> QED BY <1>6, <1>8 DEF c

\* The places of the packets that have not come are filled, and the call returns.
LEMMA StreamFill ==
    ASSUME CallInv, FillMissing, mishaps' = {}
    PROVE  StreamOK' /\ SegmentRight'
<1>1. /\ pc = "fill" /\ mishaps = {} /\ pc' \in {"read", "caught"}
      /\ segment' = [x \in DOMAIN segment |-> IF x \in Filled THEN Fill ELSE segment[x]]
      /\ astray' = (astray \/ ~(Filled \subseteq DOMAIN segment))
      /\ packet_segmentstart' = next_segmentstart /\ udp_offset' = next_udpoffset
      /\ UNCHANGED <<position, mishaps, packet_head, udp_buf, packet_segmentend,
                     bytestoread, segmentsize, packets_arrived, delivered>>
  BY DEF FillMissing, call
<1>2. FillOK /\ NumbersOK /\ ~astray
  BY <1>1 DEF CallInv, StreamOK
<1>3. /\ readbytes \in Nat /\ bytestoread \in 1 .. readbytes /\ packet_segmentstart \in Nat
      /\ DOMAIN segment = 0 .. readbytes - 1
  BY <1>2, Constants DEF NumbersOK, TypeOK
<1>4. Wanted \subseteq 0 .. readbytes - 1
  BY <1>3 DEF Wanted
<1>5. ASSUME NEW x \in Filled
      PROVE  /\ x \in Wanted
             /\ ((position + x) \div udpsize) - packet_segmentstart \notin packets_arrived
  <2>1. PICK i \in (0 .. segmentsize - 1) \ packets_arrived : x \in FilledBy(i)
    BY DEF Filled
  <2>2. x \in Wanted /\ (position + x) \div udpsize = packet_segmentstart + i
    BY <1>1, <2>1, FilledUnits
  <2>3. (packet_segmentstart + i) - packet_segmentstart = i
    BY <1>3, <2>1
  <2> QED BY <2>1, <2>2, <2>3
<1>6. ASSUME NEW x \in Wanted,
             ((position + x) \div udpsize) - packet_segmentstart \notin packets_arrived
      PROVE  x \in Filled
  <2> DEFINE i == ((position + x) \div udpsize) - packet_segmentstart
  <2>1. i \in (0 .. segmentsize - 1) \ packets_arrived /\ (position + x) \div udpsize \in Nat
    BY <1>1, <1>6, WantedInCall
  <2>2. (position + x) \div udpsize = packet_segmentstart + i
    BY <1>3, <2>1
  <2> HIDE DEF i
  <2>3. x \in FilledBy(i)
    BY <1>1, <2>1, <2>2, FilledUnits
  <2> QED BY <2>1, <2>3 DEF Filled
<1>7. ~astray'
  <2>1. Filled \subseteq DOMAIN segment
    BY <1>3, <1>4, <1>5
  <2> QED BY <1>1, <1>2, <2>1
<1>8. ASSUME NEW x \in Wanted
      PROVE  /\ segment'[x] \in {Fill, position + x}
             /\ (position + x) \div udpsize \in delivered => segment'[x] = position + x
  <2> DEFINE q == (position + x) \div udpsize
  <2>1. q - packet_segmentstart \in 0 .. segmentsize - 1
    BY <1>1, WantedInCall
  <2>2. segment'[x] = IF x \in Filled THEN Fill ELSE segment[x]
    BY <1>1, <1>3, <1>4
  <2>3. q - packet_segmentstart \in packets_arrived => segment[x] = position + x
    BY <1>2 DEF FillOK, ArrivedThere
  <2>4. q \in delivered => q - packet_segmentstart \in packets_arrived
    BY <1>2, <2>1 DEF FillOK, ArrivedThere
  <2>5. x \in Filled <=> q - packet_segmentstart \notin packets_arrived
    BY <1>5, <1>6
  <2> HIDE DEF q
  <2>6. segment'[x] \in {Fill, position + x}
    BY <2>2, <2>3, <2>5
  <2>7. q \in delivered => segment'[x] = position + x
    BY <2>2, <2>3, <2>4, <2>5
  <2> QED BY <2>6, <2>7 DEF q
<1>9. SegmentRight'
  <2>1. Wanted' = Wanted
    BY <1>1 DEF Wanted
  <2> QED BY <1>1, <1>8, <2>1 DEF SegmentRight, InPlace, DeliveredKept
<1>10. Rests(position + bytestoread, packet_segmentstart, udp_offset)'
  <2>1. Rests(position + bytestoread, next_segmentstart, next_udpoffset)
    BY <1>2 DEF FillOK
  <2> QED BY <1>1, <2>1 DEF Rests
<1>11. StreamOK'
  BY <1>1, <1>7, <1>10 DEF StreamOK
<1> QED BY <1>9, <1>11

-----------------------------------------------------------------------------
(* The theorems.                                                               *)

\* Every step keeps the invariant.
LEMMA CallStep ==
    ASSUME CallInv, Usual, [Next]_vars
    PROVE  CallInv'
<1>1. CASE Next
  <2>1. NumbersOK'
    BY <1>1, NumbersStep DEF CallInv
  <2>2. CASE mishaps' = {}
    <3> SUFFICES StreamOK' /\ SegmentRight'
      BY <2>1 DEF CallInv
    <3>1. CASE SkipSegments
      BY <2>2, <3>1, StreamSkip
    <3>2. CASE ReadSegment
      BY <2>2, <3>2, StreamReadSegment
    <3>3. CASE NothingOver \/ CopyLeft \/ LeftIsAll
      BY <2>2, <3>3, StreamNothingOver, StreamCopyLeft, StreamLeftIsAll
    <3>4. CASE LeftIsLater \/ LeftIsLast
      BY <2>2, <3>4, StreamNotLater
    <3>5. ASSUME NEW sequence \in Arrivals,
                 \/ UselessPacket(sequence) \/ MiddlePacket(sequence)
                 \/ LastPacketComes(sequence) \/ LaterPacket(sequence)
          PROVE  StreamOK' /\ SegmentRight'
      <4>1. ~LaterPacket(sequence)
        BY <2>2 DEF LaterPacket, Mishap
      <4> QED BY <2>2, <3>5, <4>1, StreamUseless, StreamMiddle, StreamLast
    <3>6. CASE SocketCloses
      <4>1. pc' = "closed" /\ UNCHANGED <<mishaps, astray>>
        BY <3>6 DEF SocketCloses, memory
      <4> QED BY <2>2, <4>1 DEF CallInv, StreamOK, SegmentRight, InPlace, DeliveredKept, CallOver
    <3>7. CASE FillMissing \/ SegmentDone
      BY <2>2, <3>7, StreamFill, StreamSegmentDone
    <3>8. CASE \E missing \in Catch : CatchUp(missing)
      BY <2>2, <3>8, StreamCatchUp
    <3> QED BY <1>1, <3>1, <3>2, <3>3, <3>4, <3>5, <3>6, <3>7, <3>8 DEF Next
  <2>3. CASE mishaps' # {}
    BY <2>1, <2>3 DEF CallInv, StreamOK, SegmentRight, Unharmed, InPlace, DeliveredKept
  <2> QED BY <2>2, <2>3
<1>2. CASE UNCHANGED vars
  <2> USE <1>2 DEF vars, state, call, memory
  <2>1. TypeOK' /\ BuffersOK' /\ BeforeFirst' /\ CountOK' /\ NeverAborts'
    BY DEF CallInv, NumbersOK, TypeOK, BuffersOK, BeforeFirst, CountOK, NeverAborts, InCall,
           ArrivedSize, LastPacket
  <2>2. StreamOK'
    BY DEF CallInv, StreamOK, ReceiveOK, FillOK, ArrivedThere, CallInStream, Rests, CallOver, Wanted
  <2>3. SegmentRight'
    BY DEF CallInv, SegmentRight, Unharmed, InPlace, DeliveredKept, CallOver, Wanted
  <2> QED BY <2>1, <2>2, <2>3 DEF CallInv, NumbersOK
<1> QED BY <1>1, <1>2

\* readnetwork, NothingOver and the packets keep the inductive invariant: the counts of
\* a call agree, and while the last packet of every call comes and none wants exactly what
\* is left in udp_buf, the place in the stream, what is over of a packet, the packets
\* marked and the segment agree.
THEOREM CallInvariant == Usual /\ Spec => []CallInv
<1>1. Init /\ Usual => CallInv
  <2> SUFFICES ASSUME Init, Usual PROVE CallInv
    OBVIOUS
  <2>1. NumbersOK
    BY NumbersInit
  <2>2. Rests(0, 0, 0)
    BY Constants DEF Rests
  <2>3. StreamOK /\ SegmentRight
    BY <2>2 DEF Init, StreamOK, SegmentRight, InPlace, DeliveredKept, CallOver
  <2> QED BY <2>1, <2>3 DEF CallInv
<1>2. CallInv /\ Usual /\ [Next]_vars => CallInv'
  BY CallStep
<1>3. Usual => []Usual
  <2>1. Usual => Usual'
    BY DEF Usual
  <2> QED BY <2>1, PTL
<1> QED BY <1>1, <1>2, <1>3, PTL DEF Spec

\* No sequence of packets makes readnetwork write outside of its segment before the last
\* packet of a call is lost or a call wants exactly what is left in udp_buf, and none
\* makes it abort the job for what it has counted at all.
THEOREM CallsAreSafe == Usual /\ Spec => []CallsSafe
<1>1. CallInv => CallsSafe
  BY DEF CallInv, NumbersOK, StreamOK, CallsSafe, WithinSegment, Unharmed
<1> QED BY <1>1, CallInvariant, PTL

\* What a call of readnetwork returns has every unit that came in its place, and fill
\* data in the others, as long as the last packet of every call has come and no call wanted
\* exactly what was left in udp_buf (after which the stream slips without any loss).
THEOREM SegmentsAreRight == Usual /\ Spec => []SegmentRight
<1>1. CallInv => SegmentRight
  BY DEF CallInv
<1> QED BY <1>1, CallInvariant, PTL

\* Between calls readnetwork knows its place in the stream, and what is over of the last
\* packet, as long as the last packet of every call has come and no call wanted exactly
\* what was left in udp_buf (after which the stream slips without any loss).
THEOREM OffsetIsRight == Usual /\ Spec => []OffsetRight
<1>1. CallInv => OffsetRight
  <2> SUFFICES ASSUME CallInv, pc = "segment", mishaps = {}
               PROVE  /\ packet_segmentstart = position \div udpsize
                      /\ udp_offset > 0 => position + udp_offset = (packet_head + 1) * udpsize
    BY DEF OffsetRight, Unharmed
  <2>1. Rests(position, packet_segmentstart, udp_offset)
    BY DEF CallInv, StreamOK
  <2>2. position \in Nat /\ packet_segmentstart \in Nat /\ udp_offset \in Nat
    BY DEF CallInv, NumbersOK, TypeOK
  <2>3. packet_segmentstart = position \div udpsize
    BY <2>1, <2>2, RestsIn
  <2> QED BY <2>1, <2>3 DEF Rests
<1> QED BY <1>1, CallInvariant, PTL
================================================================================
