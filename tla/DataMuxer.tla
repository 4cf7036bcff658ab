------------------------------- MODULE DataMuxer -------------------------------
(* The VDIF multiplexer of a data stream (datamuxer.cpp, and its use by        *)
(* DataStream::loopfileread and diskToMemory in datastream.cpp).  The threads  *)
(* of a station are interlaced in the file, frame by frame.  Each call of      *)
(* readonedemux reads a number of frames and puts every one into the ring of   *)
(* its thread, at the place of its time; each call of multiplex takes a number *)
(* of frames in the order of time from all rings.  Reads are two ahead of      *)
(* what is taken, and one is left out when a ring gets too full.               *)
(*                                                                             *)
(* A slot is a frame of a thread that the station has recorded: it is in the   *)
(* file, or lost, and may have changed places with its neighbours.             *)
EXTENDS Integers, Sequences, FiniteSets

CONSTANTS
    numthreads,
    readframes,         \* frames of a read
    framespersecond,
    FirstFrame,         \* time of the first slot, in frames
    MaxSlots,           \* slots of the file
    Window,             \* slots among which the order may change
    MaxLost,            \* slots that may be lost within a read
    LossEvery,          \* one slot in so many, and the next, may be lost
    MaxUnwanted         \* frames of other threads in the file

ASSUME SizeAssumption ==
    /\ {numthreads, readframes, framespersecond, Window, LossEvery} \subseteq Nat \ {0}
    /\ readframes % numthreads = 0
    /\ {FirstFrame, MaxSlots, MaxLost, MaxUnwanted} \subseteq Nat

DEMUX_BUFFER_FACTOR == 4
numthreadbufframes == (readframes * DEMUX_BUFFER_FACTOR) \div numthreads
outputframes == readframes \div numthreads

Threads == 0 .. numthreads - 1
Places == 0 .. numthreadbufframes - 1
NotFull == [second |-> -1, number |-> -1]

VARIABLES
    pc,                 \* where the read thread is
    firstslot,          \* the slots before it have all been passed
    passed,             \* slots after it that have been passed
    lost,               \* slots lost in this read
    unwanted,           \* frames of other threads so far
    reads,              \* calls of readonedemux, up to 2
    count,              \* frames of this read so far
    ref,                \* time of the reference frame
    threadbuffers,      \* header of the frame at a place of a thread's ring;
                        \* NotFull when bufferframefull is not set
    threadbufferfree,   \* in frames
    processframenumber,
    output,             \* what multiplex returned
    delivered           \* slots that are in the file, unless long taken

file == <<firstslot, passed, lost, unwanted, count>>
rings == <<ref, threadbuffers, threadbufferfree, processframenumber>>
vars == <<pc, reads, file, rings, output, delivered>>

\* The time in the header of a frame, and the frame number of a time
HeaderOf(frame) == [second |-> frame \div framespersecond, number |-> frame % framespersecond]
FrameOf(header) == header.second * framespersecond + header.number

\* Time and thread of a slot
FrameOfSlot(slot) == FirstFrame + slot \div numthreads
ThreadOf(slot) == slot % numthreads

Init ==
    /\ pc = "read" /\ reads = 0
    /\ firstslot = 0 /\ passed = {} /\ lost = 0 /\ unwanted = 0 /\ count = 0
    /\ ref = NotFull
    /\ threadbuffers = [t \in Threads |-> [p \in Places |-> NotFull]]
    /\ threadbufferfree = [t \in Threads |-> numthreadbufframes]
    /\ processframenumber = 0
    /\ output = <<>> /\ delivered = {}

-----------------------------------------------------------------------------
(* readonedemux.                                                               *)

MinThreadBufferFree == CHOOSE f \in {threadbufferfree[t] : t \in Threads} :
                           \A t \in Threads : f <= threadbufferfree[t]

\* Mutant: half a read of free space will do.
GettingFullLate == MinThreadBufferFree * 2 * DEMUX_BUFFER_FACTOR < numthreadbufframes

\* Less than 3/2 of a read is free
GettingFull == MinThreadBufferFree * 2 * DEMUX_BUFFER_FACTOR < 3 * numthreadbufframes

\* What follows a read: multiplex, but for the first two
AfterRead ==
    /\ reads' = (IF reads < 2 THEN reads + 1 ELSE reads)
    /\ pc' = IF reads < 2 THEN "read" ELSE "mux"

SkipRead ==
    /\ pc = "read"
    /\ GettingFull
    /\ AfterRead
    /\ UNCHANGED <<file, rings, output, delivered>>

StartRead ==
    /\ pc = "read"
    /\ ~GettingFull
    /\ count' = 0 /\ lost' = 0
    /\ pc' = "frames"
    /\ UNCHANGED <<reads, firstslot, passed, unwanted, rings, output, delivered>>

\* The slots that may come next in the file
Coming == {slot \in firstslot .. firstslot + Window - 1 : slot < MaxSlots} \ passed

Pass(slot) ==
    LET all == passed \cup {slot}
        first == CHOOSE s \in firstslot .. firstslot + Window :
                     s \notin all /\ \A r \in firstslot .. s - 1 : r \in all
    IN  /\ firstslot' = first
        /\ passed' = {s \in all : s > first}

LoseSlot(slot) ==
    /\ pc = "frames"
    /\ lost < MaxLost /\ slot % LossEvery <= 1
    /\ Pass(slot)
    /\ lost' = lost + 1
    /\ UNCHANGED <<pc, reads, unwanted, count, rings, output, delivered>>

\* initialise: the first frame that is read is the reference for all others
Reference(header) == IF ref = NotFull THEN header ELSE ref

\* deinterlace, for a frame of a thread that is wanted: it is too late, goes to
\* its place, or is so far ahead that the job is aborted
Deinterlace(slot) ==
    /\ pc = "frames"
    /\ count < readframes
    /\ Pass(slot)
    /\ count' = count + 1
    /\ delivered' = delivered \cup {slot}
    /\ LET header == HeaderOf(FrameOfSlot(slot))
           current == FrameOf(header) - FrameOf(Reference(header))
           frameoffset == current - processframenumber
       IN  /\ ref' = Reference(header)
           /\ \/ /\ current < 0 \/ frameoffset < 0
                 /\ UNCHANGED <<pc, threadbuffers, threadbufferfree>>
              \/ /\ current >= 0 /\ frameoffset \in 0 .. numthreadbufframes - 1
                 /\ threadbuffers' = [threadbuffers EXCEPT
                        ![ThreadOf(slot)][current % numthreadbufframes] = header]
                 /\ threadbufferfree' = [threadbufferfree EXCEPT
                        ![ThreadOf(slot)] = numthreadbufframes - frameoffset]
                 /\ UNCHANGED pc
              \/ /\ current >= 0 /\ frameoffset >= numthreadbufframes
                 /\ pc' = "abort"
                 /\ UNCHANGED <<threadbuffers, threadbufferfree>>
    /\ UNCHANGED <<reads, lost, unwanted, processframenumber, output>>

\* deinterlace, for a frame of another thread
UnwantedFrame ==
    /\ pc = "frames"
    /\ count \in 1 .. readframes - 1
    /\ unwanted < MaxUnwanted
    /\ unwanted' = unwanted + 1
    /\ count' = count + 1
    /\ UNCHANGED <<pc, reads, firstslot, passed, lost, rings, output, delivered>>

\* Mutants: every read is followed by multiplex; the end of the file is not seen.
ReadDoneNotAhead ==
    /\ pc = "frames"
    /\ count = readframes \/ firstslot = MaxSlots
    /\ pc' = "mux"
    /\ UNCHANGED <<reads, file, rings, output, delivered>>
ReadDoneWhenFull ==
    /\ pc = "frames"
    /\ count = readframes
    /\ AfterRead
    /\ UNCHANGED <<file, rings, output, delivered>>

\* The read is over
ReadDone ==
    /\ pc = "frames"
    /\ count = readframes \/ firstslot = MaxSlots
    /\ AfterRead
    /\ UNCHANGED <<file, rings, output, delivered>>

-----------------------------------------------------------------------------
(* multiplex.                                                                  *)

\* The threads that have a frame of a time
Having(frame) == {t \in Threads : threadbuffers[t][frame % numthreadbufframes] # NotFull}

\* Mutant: the second is not counted on.
NextHeaderSameSecond(header) ==
    [header EXCEPT !.number = IF @ + 1 = framespersecond THEN 0 ELSE @ + 1]

\* The header of the next frame
NextHeader(header) ==
    IF header.number + 1 = framespersecond THEN [second |-> header.second + 1, number |-> 0]
    ELSE [header EXCEPT !.number = @ + 1]

\* One frame more: a valid one if all threads have it; an invalid one with the
\* header of the first thread that has it, or after that of the frame before; and
\* none if there is no frame before
OneMore(before, frame) ==
    LET t == CHOOSE t \in Having(frame) : \A u \in Having(frame) : t <= u
    IN  IF Having(frame) # {}
        THEN Append(before, [header |-> threadbuffers[t][frame % numthreadbufframes],
                             valid |-> Having(frame) = Threads])
        ELSE IF before # <<>>
             THEN Append(before, [header |-> NextHeader(before[Len(before)].header),
                                  valid |-> FALSE])
             ELSE <<>>

\* The frames of a call
Multiplexed[n \in 0 .. outputframes] ==
    IF n = 0 THEN <<>> ELSE OneMore(Multiplexed[n - 1], processframenumber + n - 1)

\* Mutant: one frame is not freed.
TakenLess == {frame % numthreadbufframes : frame \in processframenumber .. processframenumber + outputframes - 2}

Taken == {frame % numthreadbufframes : frame \in processframenumber .. processframenumber + outputframes - 1}

multiplex ==
    /\ pc = "mux"
    /\ output' = Multiplexed[outputframes]
    /\ threadbuffers' = [t \in Threads |-> [p \in Places |->
                           IF p \in Taken THEN NotFull ELSE threadbuffers[t][p]]]
    /\ threadbufferfree' = [t \in Threads |-> threadbufferfree[t] + outputframes]
    /\ processframenumber' = processframenumber + outputframes
    /\ pc' = IF firstslot = MaxSlots THEN "end" ELSE "read"
    /\ delivered' = {slot \in delivered :
                       FrameOfSlot(slot) - FrameOf(ref) >= processframenumber}
    /\ UNCHANGED <<reads, file, ref>>

-----------------------------------------------------------------------------

Next ==
    \/ SkipRead \/ StartRead
    \/ \E slot \in Coming : LoseSlot(slot) \/ Deinterlace(slot)
    \/ UnwantedFrame \/ ReadDone \/ multiplex

Spec == Init /\ [][Next]_vars

\* The read thread runs.
FairSpec == Spec /\ WF_vars(Next)

-----------------------------------------------------------------------------
(* Properties.                                                                 *)

Header == [second : Nat, number : 0 .. framespersecond - 1]

TypeOK ==
    /\ pc \in {"read", "frames", "mux", "end", "abort"} /\ reads \in 0 .. 2
    /\ firstslot \in 0 .. MaxSlots /\ passed \subseteq firstslot .. MaxSlots
    /\ lost \in 0 .. MaxLost /\ unwanted \in 0 .. MaxUnwanted /\ count \in 0 .. readframes
    /\ ref \in Header \cup {NotFull}
    /\ threadbuffers \in [Threads -> [Places -> Header \cup {NotFull}]]
    /\ threadbufferfree \in [Threads -> Nat] /\ processframenumber \in Nat
    /\ output \in Seq([header : Header, valid : BOOLEAN])

\* A frame in a ring is at the place of its time, and is among the next
\* numthreadbufframes that multiplex takes: the ring never mixes two rounds.
RingsInWindow ==
    \A t \in Threads, p \in Places : threadbuffers[t][p] # NotFull =>
        LET current == FrameOf(threadbuffers[t][p]) - FrameOf(ref)
        IN  /\ current % numthreadbufframes = p
            /\ current \in processframenumber .. processframenumber + numthreadbufframes - 1

\* deinterlace and multiplex keep the rings well formed.
RingsRight == TypeOK /\ RingsInWindow

\* The frames that multiplex returns follow each other in time, across seconds
\* and over lost frames, up to the last one of the call.
OutputInOrder ==
    /\ \A i \in 1 .. Len(output) - 1 :
          FrameOf(output[i + 1].header) = FrameOf(output[i].header) + 1
    /\ output # <<>> => FrameOf(output[Len(output)].header) - FrameOf(ref) = processframenumber - 1

\* The slots after the first one that has not been passed.
FileOK == passed \subseteq {slot \in firstslot + 1 .. firstslot + Window - 1 : slot < MaxSlots}

\* Until there is a reference frame there is no frame at all.
ReferenceOK == ref = NotFull =>
    output = <<>> /\ \A t \in Threads, p \in Places : threadbuffers[t][p] = NotFull

\* Why the rings are well formed and what is returned is in order: parts that are
\* inductive together.
MuxInv == RingsRight /\ OutputInOrder /\ FileOK /\ ReferenceOK

\* multiplex returns a frame as valid exactly if the file has it for all threads:
\* reads are far enough ahead, and no ring has lost a frame.
ValidIfRecorded ==
    \A i \in 1 .. Len(output) :
        output[i].valid <=>
            \A t \in Threads : \E slot \in delivered :
                ThreadOf(slot) = t /\ FrameOfSlot(slot) = FrameOf(output[i].header)

\* deinterlace: no frame is so far ahead that the job is aborted; readonedemux
\* leaves out reads in time.
NeverTooFar == pc # "abort"

\* The end of the file is reached: reads are not left out forever.
FileRead == <>(pc = "end")

\* All that the file has is taken: what is left in the rings at its end is lost.
NothingInRings == pc = "end" => \A t \in Threads, p \in Places : threadbuffers[t][p] = NotFull

=============================================================================
