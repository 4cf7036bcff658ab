------------------------------- MODULE DataStream -------------------------------
(* A DataStream of mpifxcorr (datastream.cpp) reading from files.  A read      *)
(* thread fills a ring of data segments; the main thread takes the time of a   *)
(* subintegration from the manager, looks for the segment with its data and    *)
(* sends it to a Core with MPI_Issend.  A mutex per segment separates them:    *)
(* the main thread holds the segment it sends from and the next, the read      *)
(* thread the one it fills.  What is sent is read from the ring until the      *)
(* Core has received it, so a segment is filled again only then.               *)
(*                                                                             *)
(* One unit of data is one FFT block, and time is counted in units.  The       *)
(* station's delay is constant, and so is the size of a subintegration.        *)
EXTENDS Integers, Sequences, FiniteSets

CONSTANTS
    NumSegments,    \* numdatasegments
    SegmentUnits,   \* readbytes: units in a segment
    Blocks,         \* blockspersend: units of a subintegration
    SendBytes,      \* sendbytes: units sent, with the guard
    FlagsPerInt,    \* FLAGS_PER_INT, on the scale of Blocks
    MaxSends,       \* maxsendspersegment
    SecondUnits,    \* units in a second
    Delay,          \* geometric delay and clock of the station
    Scans,          \* the scans: start, duration, configuration
    Files,          \* the files: start of the data, units, whether it opens
    Requests        \* what the manager asks for: scan, offset, and whether the
                    \* model has a delay for it

\* configuration.cpp: "Databuffer must have a minimum of 5 segments", and "There
\* must be an integer number of sends per datasegment".
ASSUME SegmentsAssumption == NumSegments \in Nat /\ NumSegments >= 5
ASSUME UnitsAssumption == /\ Blocks \in Nat \ {0} /\ SegmentUnits \in Nat
                          /\ SendBytes \in Blocks .. SegmentUnits
                          /\ SegmentUnits % Blocks = 0
                          /\ {FlagsPerInt, MaxSends, SecondUnits} \subseteq Nat \ {0}
                          /\ Delay \in Int
\* Every scan has a configuration.
ASSUME ScansAssumption == /\ Len(Scans) > 0
                          /\ \A s \in 1 .. Len(Scans) : Scans[s].config \in Nat

Segments == 0 .. NumSegments - 1
NumScans == Len(Scans)
NumFiles == Len(Files)
Nothing == -1       \* in memory: no data, or data that is being overwritten

VARIABLES
    pc,             \* where the main thread is
    atsegment,      \* the segment the main thread sends from
    waitsegment,    \* the oldest segment whose sends may not have completed
    active,         \* the request being worked on, and so the requests received
    sends,          \* the sends that the Cores have not received
    overflow,       \* what follows the last segment in memory
    rpc,            \* where the read thread is
    lastvalidsegment,   \* the segment the read thread is at
    numread,        \* segments read
    readscan, readtime, \* scan of the next read, and the offset from its start
    filesread,      \* files opened
    position,       \* units read of the open file
    dataremaining, isnewfile,
    keepreading, readthreadstarted,
    owner,          \* bufferlock: who holds each segment's mutex
    bufferinfo,     \* what is known of each segment
    memory          \* the time of each unit of data in memory

mainvars == <<pc, atsegment, waitsegment, active, sends, overflow>>
filevars == <<readscan, readtime, filesread, position, dataremaining, isnewfile>>
vars == <<mainvars, rpc, lastvalidsegment, numread, filevars, keepreading,
          readthreadstarted, owner, bufferinfo, memory>>

After(s, k) == (s + k) % NumSegments
Before(s) == (s + NumSegments - 1) % NumSegments
Distance(s, r) == (s - r + NumSegments) % NumSegments
Second(t) == t \div SecondUnits
Least(x, y) == IF x < y THEN x ELSE y

-----------------------------------------------------------------------------
(* The main thread.  It starts with the first two segments, waiting on         *)
(* initcond with the second one's mutex.                                       *)

Init ==
    /\ pc = "init" /\ atsegment = 0 /\ waitsegment = 0 /\ active = 0
    /\ sends = {} /\ overflow = [i \in 0 .. SendBytes - 1 |-> Nothing]
    /\ rpc = "open" /\ lastvalidsegment = 0 /\ numread = 0
    /\ readscan = 1 /\ readtime = 0 /\ filesread = 0 /\ position = 0
    /\ dataremaining = FALSE /\ isnewfile = FALSE
    /\ keepreading = TRUE /\ readthreadstarted = FALSE
    /\ owner = [s \in Segments |-> IF s = 0 THEN "main" ELSE "free"]
    /\ bufferinfo = [s \in Segments |->
            [scan |-> 1, start |-> 0, config |-> Scans[1].config,
             valid |-> 0, readto |-> FALSE, numsent |-> 0]]
    /\ memory = [s \in Segments |-> [i \in 0 .. SegmentUnits - 1 |-> Nothing]]

\* initialiseMemoryBuffer(): the wait is a timed one.
StartUp ==
    /\ pc = "init" /\ readthreadstarted /\ owner[1] = "free"
    /\ owner' = [owner EXCEPT ![1] = "main"]
    /\ pc' = "idle"
    /\ UNCHANGED <<atsegment, waitsegment, active, sends, overflow, rpc,
                   lastvalidsegment, numread, filevars, keepreading,
                   readthreadstarted, bufferinfo, memory>>

at == bufferinfo[atsegment]
next == bufferinfo[After(atsegment, 1)]

\* Where the data of request r is relative to the start of the main thread's
\* segment.
Offset(r) == Requests[r].offset - Delay - at.start

\* Mutant: the start of the ring is not copied behind its end.
SendDataNoCopy(r, segoff, first, flags) ==
    /\ sends' = sends \cup
            {[request |-> r, segment |-> atsegment, start |-> segoff,
              first |-> first, flags |-> flags]}
    /\ bufferinfo' = [bufferinfo EXCEPT ![atsegment].numsent = @ + 1]
    /\ pc' = IF at.numsent + 1 >= MaxSends THEN "full" ELSE "idle"
    /\ UNCHANGED overflow

\* The part of execute() after calculateControlParams(): the start of the ring
\* is copied behind its end if the data goes beyond it, and the data sent.
SendData(r, segoff, first, flags) ==
    LET remaining == (NumSegments - atsegment) * SegmentUnits - segoff IN
    /\ sends' = sends \cup
            {[request |-> r, segment |-> atsegment, start |-> segoff,
              first |-> first, flags |-> flags]}
    /\ overflow' = [i \in DOMAIN overflow |->
            IF i < SendBytes - remaining THEN memory[0][i] ELSE overflow[i]]
    /\ bufferinfo' = [bufferinfo EXCEPT ![atsegment].numsent = @ + 1]
    /\ pc' = IF at.numsent + 1 >= MaxSends THEN "full" ELSE "idle"

\* INVALID_SUBINT: nothing but the control information is sent.
SendInvalid(r) == SendData(r, -atsegment * SegmentUnits, 0, {})

\* A message of the manager: a subintegration to send.
TakeRequest ==
    /\ pc = "idle" /\ active < Len(Requests)
    /\ active' = active + 1
    /\ LET r == Requests[active + 1] IN
       IF ~r.model \/ r.scan < at.scan
       THEN SendInvalid(active + 1)
       ELSE pc' = "first" /\ UNCHANGED <<sends, overflow, bufferinfo>>
    /\ UNCHANGED <<atsegment, waitsegment, rpc, lastvalidsegment, numread, filevars,
                   keepreading, readthreadstarted, owner, memory>>

\* The Cores have received every send from segment s.
Completed(s) == \A m \in sends : m.segment # s

\* Mutants: it never has to wait; it waits one segment too late.
TestOnlyAlways == TRUE
TestOnlyLate == atsegment # After(waitsegment, NumSegments - 2)

\* waitForSendComplete(): it only tests unless the main thread is about to need
\* the segment.
TestOnly == atsegment # After(waitsegment, NumSegments - 3)
            /\ atsegment # After(waitsegment, NumSegments - 2)

WaitForSendComplete ==
    /\ pc \in {"first", "again"}
    /\ pc' = IF pc = "first" THEN "look" ELSE "lock"
    /\ \/ /\ Distance(atsegment, waitsegment) <= 2
          /\ UNCHANGED <<waitsegment, bufferinfo>>
       \/ /\ Distance(atsegment, waitsegment) > 2
          /\ bufferinfo[waitsegment].numsent = 0 \/ Completed(waitsegment)
          /\ bufferinfo' = [bufferinfo EXCEPT ![waitsegment].numsent = 0]
          /\ waitsegment' = After(waitsegment, 1)
       \/ /\ Distance(atsegment, waitsegment) > 2
          /\ bufferinfo[waitsegment].numsent > 0 /\ ~Completed(waitsegment)
          /\ TestOnly
          /\ UNCHANGED <<waitsegment, bufferinfo>>
    /\ UNCHANGED <<atsegment, active, sends, overflow, rpc, lastvalidsegment, numread,
                   filevars, keepreading, readthreadstarted, owner, memory>>

\* Nothing was ever read, or the data begins more than three seconds later.
NoData(r) ==
    \/ ~at.readto
    \/ /\ Requests[r].scan = at.scan
       /\ Second(Requests[r].offset - Delay) < Second(at.start) - 3

\* The subintegration begins after the segment.
Passed(r) ==
    \/ Requests[r].scan > at.scan
    \/ Requests[r].scan = at.scan /\ Offset(r) >= at.valid

\* Mutant: the length of the segment is left out.
ContiguousSameTime == at.valid = SegmentUnits /\ next.start = at.start

\* Data of the next segment continues that of this one.
Contiguous == at.valid = SegmentUnits /\ next.start - at.start = SegmentUnits

\* The tail of calculateControlParams().  first is the number of blocks before
\* the segment, segoff where the next one is.
First(r) == IF Offset(r) < 0 THEN Least(-Offset(r), Blocks) ELSE 0
SegOff(r) == Offset(r) + First(r)

OutOfRange(r) ==
    atsegment * SegmentUnits + Offset(r) \notin -Blocks .. NumSegments * SegmentUnits

Elsewhere(r) ==
    \/ Requests[r].scan # at.scan
    \/ Offset(r) < -SegmentUnits
    \/ /\ \/ at.valid < SegmentUnits
          \/ Second(next.start) - Second(at.start) > 2
          \/ next.start < at.start
       /\ \/ next.start < at.start /\ Offset(r) > at.valid
          \/ OutOfRange(r)
    \/ /\ atsegment * SegmentUnits + Offset(r) = NumSegments * SegmentUnits
       /\ next.scan # at.scan \/ next.start - at.start # SegmentUnits
    \/ SegOff(r) < 0

AllValid(r) ==
    \/ at.valid - SegOff(r) >= SendBytes
    \/ Contiguous /\ at.valid - SegOff(r) + next.valid > SendBytes

\* The blocks that are flagged as valid.
Flags(r) ==
    {i \in First(r) .. Blocks - 1 :
        \/ AllValid(r)
        \/ SegOff(r) + i < at.valid
        \/ Contiguous /\ at.valid - SegOff(r) + next.valid > i}

\* Only the integers that are full of flags are looked at.
SomeGoodData(r) ==
    \/ AllValid(r)
    \/ /\ ~OutOfRange(r)
       /\ \E i \in Flags(r) : i < (Blocks \div FlagsPerInt) * FlagsPerInt

\* calculateControlParams() from the first look at the segment to the end, one
\* round of its loop at a time.
Look ==
    /\ pc \in {"look", "check"}
    /\ IF pc = "look" /\ NoData(active)
       THEN SendInvalid(active)
       ELSE IF Passed(active) /\ (keepreading \/ atsegment # lastvalidsegment)
       THEN pc' = "again" /\ UNCHANGED <<sends, overflow, bufferinfo>>
       ELSE IF Elsewhere(active) \/ ~SomeGoodData(active)
       THEN SendInvalid(active)
       ELSE SendData(active, SegOff(active), First(active), Flags(active))
    /\ UNCHANGED <<atsegment, waitsegment, active, rpc, lastvalidsegment, numread,
                   filevars, keepreading, readthreadstarted, owner, memory>>

\* On to the next segment: lock the one after it, then unlock this one.
Ahead == After(atsegment, 2)

Advance ==
    /\ pc = "lock" /\ owner[Ahead] = "free"
    /\ owner' = [owner EXCEPT ![Ahead] = "main", ![atsegment] = "free"]
    /\ atsegment' = After(atsegment, 1)
    /\ pc' = "check"
    /\ UNCHANGED <<waitsegment, active, sends, overflow, rpc, lastvalidsegment, numread,
                   filevars, keepreading, readthreadstarted, bufferinfo, memory>>

\* As many sends as there are requests: wait for all of them.
WaitFull ==
    /\ pc = "full" /\ Completed(atsegment)
    /\ bufferinfo' = [bufferinfo EXCEPT ![atsegment].numsent = 0]
    /\ pc' = "idle"
    /\ UNCHANGED <<atsegment, waitsegment, active, sends, overflow, rpc,
                   lastvalidsegment, numread, filevars, keepreading,
                   readthreadstarted, owner, memory>>

\* The manager's terminate message, which may come early.
TakeTerminate ==
    /\ pc = "idle"
    /\ keepreading' = FALSE
    /\ pc' = "waitall"
    /\ UNCHANGED <<atsegment, waitsegment, active, sends, overflow, rpc,
                   lastvalidsegment, numread, filevars, readthreadstarted, owner,
                   bufferinfo, memory>>

\* Wait for the sends of every segment in turn, and then let the segments go.
Outstanding == {s \in Segments : bufferinfo[s].numsent > 0}

WaitSegment ==
    /\ pc = "waitall" /\ Outstanding # {}
    /\ LET s == CHOOSE s \in Outstanding : \A r \in Outstanding : s <= r IN
       /\ Completed(s)
       /\ bufferinfo' = [bufferinfo EXCEPT ![s].numsent = 0]
    /\ UNCHANGED <<mainvars, rpc, lastvalidsegment, numread, filevars, keepreading,
                   readthreadstarted, owner, memory>>

UnlockSegments ==
    /\ pc = "waitall" /\ Outstanding = {}
    /\ owner' = [owner EXCEPT ![atsegment] = "free", ![After(atsegment, 1)] = "free"]
    /\ pc' = "join"
    /\ UNCHANGED <<atsegment, waitsegment, active, sends, overflow, rpc,
                   lastvalidsegment, numread, filevars, keepreading,
                   readthreadstarted, bufferinfo, memory>>

Join ==
    /\ pc = "join" /\ rpc = "done"
    /\ pc' = "done"
    /\ UNCHANGED <<atsegment, waitsegment, active, sends, overflow, rpc,
                   lastvalidsegment, numread, filevars, keepreading,
                   readthreadstarted, owner, bufferinfo, memory>>

-----------------------------------------------------------------------------
(* The read thread, loopfileread().                                            *)

\* initialiseFile(): the scan that a time belongs to, searched from the present
\* scan, first upwards and then downwards.
ScanOf(t) ==
    LET up == CHOOSE s \in readscan .. NumScans :
            /\ s = NumScans \/ Scans[s].start + Scans[s].duration >= t
            /\ \A r \in readscan .. s - 1 : Scans[r].start + Scans[r].duration < t
    IN CHOOSE s \in 1 .. up :
            /\ s = 1 \/ Scans[s].start <= t
            /\ \A r \in s + 1 .. up : Scans[r].start > t

\* openfile(), of the next file.
OpenFile ==
    LET f == filesread + 1 IN
    /\ filesread' = f
    /\ keepreading' = (keepreading /\ f <= NumFiles)
    /\ dataremaining' = (f <= NumFiles /\ Files[f].ok)
    /\ IF dataremaining'
       THEN /\ isnewfile' = TRUE
            /\ readscan' = ScanOf(Files[f].start)
            /\ readtime' = Files[f].start - Scans[readscan'].start
            /\ position' = 0
       ELSE UNCHANGED <<isnewfile, readscan, readtime, position>>

OpenFirst ==
    /\ rpc = "open" /\ ~dataremaining /\ keepreading
    /\ OpenFile
    /\ UNCHANGED <<mainvars, rpc, lastvalidsegment, numread, readthreadstarted, owner,
                   bufferinfo, memory>>

Opened ==
    /\ rpc = "open" /\ (dataremaining \/ ~keepreading)
    /\ rpc' = IF keepreading THEN "header" ELSE "loop"
    /\ readthreadstarted' = ~keepreading
    /\ UNCHANGED <<mainvars, lastvalidsegment, numread, filevars, keepreading, owner,
                   bufferinfo, memory>>

\* The segment that is read: the first three are counted off.
Target == IF numread < 3 THEN numread ELSE lastvalidsegment

\* waitForBuffer(): the time and the configuration of the segment, then a wait
\* for the sends from it.
SetHeader ==
    /\ rpc = "header"
    /\ bufferinfo' = [bufferinfo EXCEPT
            ![Target].scan = readscan, ![Target].start = readtime,
            ![Target].config = Scans[readscan].config]
    /\ rpc' = "wait"
    /\ UNCHANGED <<mainvars, lastvalidsegment, numread, filevars, keepreading,
                   readthreadstarted, owner, memory>>

\* Mutant: the sends are not waited for.
ReusableAlways(s) == TRUE

Reusable(s) == bufferinfo[s].numsent = 0

\* The wait times out after half a second, and begins again.
WaitTimesOut == rpc = "wait" /\ ~Reusable(Target) /\ UNCHANGED vars

\* The read begins, and what was in the segment is gone.
BeginRead ==
    /\ rpc = "wait" /\ Reusable(Target)
    /\ memory' = [memory EXCEPT ![Target] = [i \in DOMAIN @ |-> Nothing]]
    /\ rpc' = "read"
    /\ UNCHANGED <<mainvars, lastvalidsegment, numread, filevars, keepreading,
                   readthreadstarted, owner, bufferinfo>>

UnitsRead == Least(SegmentUnits, Files[filesread].units - position)

\* What unit i of segment s holds; it may be in the segment after s.
UnitOf(mem, s, i) ==
    IF i < SegmentUnits THEN mem[s][i] ELSE mem[After(s, 1)][i - SegmentUnits]

\* diskToMemory() when a short segment is followed by data that continues it:
\* the arguments of vectorCopy_u8 are the source, the destination and a length.
Continues(p, s) ==
    /\ bufferinfo[p].readto /\ bufferinfo[p].valid < SendBytes
    /\ bufferinfo[p].config = bufferinfo[s].config
    /\ bufferinfo[p].scan = bufferinfo[s].scan
    /\ bufferinfo[s].start = bufferinfo[p].start + bufferinfo[p].valid

CopyBack(mem, s) ==
    LET p == Before(s)
        length == Least(Least(SegmentUnits - bufferinfo[p].valid, SendBytes), UnitsRead)
    IN IF ~Continues(p, s) THEN mem
       ELSE [mem EXCEPT ![p] = [i \in DOMAIN @ |->
                IF i < length THEN UnitOf(mem, s, bufferinfo[p].valid + i) ELSE @[i]]]

\* The time of the next read, a segment later: it may be in the next scan, and
\* after the last scan there is nothing to read.
AdvanceTime ==
    LET t == readtime + SegmentUnits
        over == t >= Scans[readscan].duration
    IN IF over /\ readscan < NumScans
       THEN /\ readscan' = readscan + 1
            /\ readtime' = t - (Scans[readscan + 1].start - Scans[readscan].start)
            /\ UNCHANGED keepreading
       ELSE /\ readtime' = t
            /\ keepreading' = (keepreading /\ ~over)
            /\ UNCHANGED readscan

\* The previous segment was kept through the first read of a file.
Unlocked(s) == IF isnewfile THEN [owner EXCEPT ![Before(s)] = "free"] ELSE owner

\* The rest of diskToMemory(), and what loopfileread() does after it.
EndRead ==
    /\ rpc = "read"
    /\ LET n == UnitsRead
           read == [memory EXCEPT ![Target] = [i \in DOMAIN @ |->
                        IF i < n THEN Files[filesread].start + position + i ELSE @[i]]]
       IN /\ memory' = CopyBack(read, Target)
          /\ bufferinfo' = [bufferinfo EXCEPT ![Target].valid = n, ![Target].readto = TRUE]
          /\ position' = position + n
    /\ AdvanceTime
    /\ dataremaining' = (dataremaining /\ position' < Files[filesread].units)
    /\ numread' = numread + 1
    /\ rpc' = CASE numread = 0 -> "header" [] numread = 1 -> "third" [] OTHER -> "loop"
    /\ owner' = IF numread < 3 THEN owner ELSE Unlocked(Target)
    /\ isnewfile' = (isnewfile /\ numread < 3)
    /\ UNCHANGED <<mainvars, lastvalidsegment, filesread, readthreadstarted>>

\* Two segments are ready: lock the third, tell the main thread, and read on.
Started ==
    /\ rpc = "third" /\ owner[2] = "free"
    /\ owner' = [owner EXCEPT ![2] = "reader"]
    /\ lastvalidsegment' = 2
    /\ readthreadstarted' = TRUE
    /\ rpc' = IF keepreading THEN "header" ELSE "loop"
    /\ UNCHANGED <<mainvars, numread, filevars, keepreading, bufferinfo, memory>>

\* Mutant: the next segment is read without its lock.
NextSegmentUnlocked ==
    /\ rpc = "loop" /\ keepreading /\ dataremaining
    /\ lastvalidsegment' = After(lastvalidsegment, 1)
    /\ rpc' = "header"
    /\ UNCHANGED <<mainvars, numread, filevars, keepreading, readthreadstarted, owner,
                   bufferinfo, memory>>

NextSegment ==
    /\ rpc = "loop" /\ keepreading /\ dataremaining
    /\ lastvalidsegment' = After(lastvalidsegment, 1)
    /\ rpc' = "lock"
    /\ UNCHANGED <<mainvars, numread, filevars, keepreading, readthreadstarted, owner,
                   bufferinfo, memory>>

\* The previous segment is released at once unless a new file begins.
LockSegment ==
    /\ rpc = "lock" /\ owner[lastvalidsegment] = "free"
    /\ owner' = [owner EXCEPT
            ![lastvalidsegment] = "reader",
            ![Before(lastvalidsegment)] = IF isnewfile THEN @ ELSE "free"]
    /\ rpc' = "header"
    /\ UNCHANGED <<mainvars, lastvalidsegment, numread, filevars, keepreading,
                   readthreadstarted, bufferinfo, memory>>

\* At the end of a file the segment to come gets the configuration of the scan
\* to come, and the next file is opened.
NextFile ==
    /\ rpc = "loop" /\ keepreading /\ ~dataremaining
    /\ bufferinfo' = [bufferinfo EXCEPT
            ![After(lastvalidsegment, 1)].config = Scans[readscan].config]
    /\ OpenFile
    /\ UNCHANGED <<mainvars, rpc, lastvalidsegment, numread, readthreadstarted, owner,
                   memory>>

EndOfReading ==
    /\ rpc = "loop" /\ ~keepreading
    /\ owner' = IF numread > 0 THEN [owner EXCEPT ![lastvalidsegment] = "free"] ELSE owner
    /\ rpc' = "done"
    /\ UNCHANGED <<mainvars, lastvalidsegment, numread, filevars, keepreading,
                   readthreadstarted, bufferinfo, memory>>

-----------------------------------------------------------------------------
(* The Cores.                                                                  *)

\* A Core has received what was sent.
Received(m) ==
    /\ sends' = sends \ {m}
    /\ UNCHANGED <<pc, atsegment, waitsegment, active, overflow, rpc, lastvalidsegment,
                   numread, filevars, keepreading, readthreadstarted, owner,
                   bufferinfo, memory>>

Main == \/ StartUp \/ TakeRequest \/ WaitForSendComplete \/ Look \/ Advance \/ WaitFull
        \/ WaitSegment \/ UnlockSegments \/ Join
Reader == \/ OpenFirst \/ Opened \/ SetHeader \/ BeginRead \/ EndRead \/ Started
          \/ NextSegment \/ LockSegment \/ NextFile \/ EndOfReading

Finished == pc = "done" /\ UNCHANGED vars

Next == \/ Main \/ TakeTerminate \/ Reader \/ WaitTimesOut
        \/ \E m \in sends : Received(m)
        \/ Finished

Spec == Init /\ [][Next]_vars

\* The threads run, the manager sends its terminate message after the last
\* request, and the Cores receive what is sent to them.
FairSpec == /\ Spec
            /\ WF_vars(Main) /\ WF_vars(Reader)
            /\ WF_vars(active = Len(Requests) /\ TakeTerminate)
            /\ WF_vars(\E m \in sends : Received(m))

-----------------------------------------------------------------------------
(* Properties.                                                                 *)

\* The variables have the types of datastream.h, and no more sends are
\* outstanding from a segment than it has MPI requests for.
TypeOK ==
    /\ pc \in {"init", "idle", "first", "look", "check", "again", "lock", "full",
               "waitall", "join", "done"}
    /\ rpc \in {"open", "header", "wait", "read", "third", "loop", "lock", "done"}
    /\ atsegment \in Segments /\ waitsegment \in Segments /\ lastvalidsegment \in Segments
    /\ active \in 0 .. Len(Requests)
    /\ readscan \in 1 .. NumScans /\ readtime \in Int
    /\ filesread \in 0 .. NumFiles + 1 /\ numread \in Nat /\ position \in Nat
    /\ {dataremaining, isnewfile, keepreading, readthreadstarted} \subseteq BOOLEAN
    /\ owner \in [Segments -> {"free", "main", "reader"}]
    /\ \A s \in Segments :
        /\ bufferinfo[s].valid \in 0 .. SegmentUnits
        /\ bufferinfo[s].numsent \in 0 .. MaxSends
    /\ \A m \in sends : m.flags \subseteq m.first .. Blocks - 1

\* Where unit i behind the start of segment s is when the ring is read beyond
\* its end.
InMemory(s, i) ==
    LET u == s * SegmentUnits + i IN
    IF u < NumSegments * SegmentUnits
    THEN memory[u \div SegmentUnits][u % SegmentUnits]
    ELSE overflow[u - NumSegments * SegmentUnits]

\* The time of the data of request r's first block.
TimeOf(r) == Scans[Requests[r].scan].start + Requests[r].offset - Delay

\* Until a Core has received a subintegration, every block of it that is
\* flagged as valid is in memory, at its place, and is the block of the time
\* that was asked for: no segment is filled again too early, nothing old is
\* taken for new, and the copy behind the end of the ring is kept.
SentRight ==
    \A m \in sends : \A i \in m.flags :
        InMemory(m.segment, m.start + i - m.first) = TimeOf(m.request) + i

\* The state of the ring is well formed, with no segment's count of sends beyond its
\* requests, and what is sent as valid is right.
SendsRight == TypeOK /\ SentRight

\* Data that is in one file is not lost: the subintegration is sent with every
\* block flagged as valid, wherever it straddles two segments or the end of the
\* ring.
NothingLost ==
    \A m \in sends :
        (\E f \in 1 .. NumFiles :
            /\ Files[f].ok /\ Requests[m.request].model
            /\ Files[f].start <= TimeOf(m.request)
            /\ TimeOf(m.request) + Blocks <= Files[f].start + Files[f].units)
        => m.flags = 0 .. Blocks - 1

\* What is known of segment s, except for numsent, the main thread's own.
Known(s) == [bufferinfo[s] EXCEPT !.numsent = 0]

\* While the main thread holds a segment, the read thread changes neither its
\* data nor what is known of it.
HeldStable ==
    [][\A s \in Segments : pc # "init" /\ owner[s] = "main" /\ owner'[s] = "main"
        => memory'[s] = memory[s] /\ Known(s)' = Known(s)]_vars

\* What is known of a segment that the main thread holds includes "the
\* configuration parameters for that time interval" (datastream.h:93).
ConfigOfInterval ==
    \A s \in Segments : pc # "init" /\ owner[s] = "main" /\ bufferinfo[s].readto
        => bufferinfo[s].config = Scans[bufferinfo[s].scan].config

\* Every request is answered, and the DataStream ends: the main thread waits
\* for a segment of the read thread, which waits for sends that only the main
\* thread can declare complete, but they never wait for each other.
Terminates == <>(pc = "done")

=============================================================================
