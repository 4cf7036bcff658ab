------------------------------- MODULE VdifReader -------------------------------
(* The VDIF data stream of mpifxcorr (vdiffile.cpp).  A second thread of the   *)
(* data stream, one for every file, reads the file into a ring of slots; the   *)
(* DataStream's read thread multiplexes what is there into the segments of     *)
(* module DataStream.  There is a mutex per slot, but slot 0 has that of the   *)
(* last one: nothing is ever read into slot 0, and what is left in the last    *)
(* slot is moved there so that it continues in slot 1.                         *)
(*                                                                             *)
(* The consumer (process 1 in the code) is the DataStream's read thread:       *)
(* loopfileread, openfile and initialiseFile, diskToMemory and dataRead.  The  *)
(* reader (process 2) is readthreadfunction.  Data is counted in units, and a  *)
(* unit in the ring is known by its file and its place in the file.            *)
EXTENDS Integers, Sequences, FiniteSets

CONSTANTS
    Slots,          \* readbufferslots
    SlotUnits,      \* readbufferslotsize
    ReadUnits,      \* readbytes: what a call of dataRead is to multiplex
    MinLeft,        \* minleftoverdata
    MaxUsed,        \* the most units of data that vdifmux puts into a segment
    Inputs,         \* the lists of files: units, those among them that vdifmux
                    \* skips, whether the file opens, and whether it ends before
                    \* the time that is wanted
    JobMayEnd       \* whether the end of the job may come before the last file's

\* vdiffile.cpp has 8 slots; with fewer than 5 the consumer, with two slots and in
\* need of slot 1, and the reader, with slot 1 and in need of slot 2, could wait
\* for each other.
ASSUME SlotsAssumption == Slots \in Nat /\ Slots >= 5
\* A slot is 2.1 times what is read at a time, rounded down to frames.  A frame of
\* a segment has one header, the frames of the threads it is made from one each, so
\* that ReadUnits of a segment are made from as many units or more.
ASSUME SizeAssumption == /\ ReadUnits \in Nat \ {0} /\ SlotUnits \in Nat
                         /\ SlotUnits >= 2 * ReadUnits
                         /\ MinLeft \in Nat \ {0}
                         /\ MaxUsed \in Nat /\ MaxUsed >= ReadUnits
\* Lists of files.
ASSUME InputsAssumption ==
    \A list \in Inputs :
        list \in Seq([units : Nat, skipped : SUBSET Nat, opens : BOOLEAN, past : BOOLEAN])
ASSUME FlagsAssumption == JobMayEnd \in BOOLEAN

lockmod == Slots - 1
BufferUnits == Slots * SlotUnits
Unset == [file |-> 0, unit |-> 0]

VARIABLES
    files,          \* the files of this run
    pc,             \* where the consumer is
    file,           \* the file that is open, and so the files opened
    position,       \* units read of the open file
    numread,        \* calls of diskToMemory, up to 3
    dataremaining, keepreading,
    muxindex,       \* where in the ring the next unit to multiplex is
    muxend,         \* end of what vdifmux is shown
    n2,             \* last slot of what vdifmux is shown
    lockstart, lockend,     \* the slots the consumer has locked; -1 for a new
                            \* file, -2 after the end of one
    lastslot, endindex,     \* slot of the end of the file, and its end there
    slotMutexOwner, \* who holds each mutex: 0 for nobody
    readbuffer,     \* what is in the ring
    readbufferwriteslot,    \* slot of the next read
    reader,         \* of each file's reader: where it is, the slot it is at, and
                    \* what its last read got
    taken,          \* units of the open file that have been multiplexed
    mishaps         \* what has happened that the code has no protection against;
                    \* nothing depends on it but what the properties claim

locks == <<lockstart, lockend, slotMutexOwner>>
ring == <<lastslot, endindex, readbuffer, readbufferwriteslot, reader, position>>
vars == <<files, mishaps, pc, file, numread, dataremaining, keepreading, muxindex, muxend, n2,
          taken, locks, ring>>

Mutexes == 0 .. Slots - 1
NumFiles == Len(files)
Units == IF file \in 1 .. NumFiles THEN files[file].units ELSE 0

Init ==
    /\ files \in Inputs
    /\ mishaps = {}
    /\ pc = "loop"
    /\ file = 0 /\ position = 0 /\ numread = 0 /\ taken = 0
    /\ dataremaining = FALSE /\ keepreading = TRUE
    /\ muxindex = 0 /\ muxend = 0 /\ n2 = 0
    /\ lockstart = -2 /\ lockend = -2 /\ lastslot = -2 /\ endindex = 0
    /\ slotMutexOwner = [m \in Mutexes |-> 0]
    /\ readbuffer = [x \in 0 .. BufferUnits - 1 |-> Unset]
    /\ readbufferwriteslot = 1
    /\ reader = [f \in 1 .. NumFiles |-> [at |-> "none", slot |-> 0, got |-> 0]]

\* Of a step that is a mishap when a condition holds
Mishap(kind, condition) == mishaps' = mishaps \cup {k \in {kind} : condition}

-----------------------------------------------------------------------------
(* The mutexes.  A lock waits until nobody holds the mutex.  They are plain    *)
(* mutexes, so that an unlock frees one whoever holds it.                      *)

MutexOf(slot) == slot % lockmod
CanLock(slot) == slotMutexOwner[MutexOf(slot)] = 0

\* lockSlot by a process, in owners
lockSlot(owners, slot, process) == [owners EXCEPT ![MutexOf(slot)] = process]

\* unlockSlot of each of a range of slots
unlockSlots(owners, from, to) ==
    [m \in Mutexes |-> IF \E slot \in from .. to : m = MutexOf(slot) THEN 0 ELSE owners[m]]

\* unlockAllSlots by the consumer: nothing in it waits, so it is one step
unlockAllSlots(owners) == [m \in Mutexes |-> IF owners[m] = 1 THEN 0 ELSE owners[m]]

-----------------------------------------------------------------------------
(* The reader of a file.                                                       *)

\* The slot after a slot: slot 0 is skipped
NextSlot(slot) == IF slot + 1 >= Slots THEN 1 ELSE slot + 1

\* A reader that is told to stop before it has begun reads nothing
BeginReading(f) ==
    /\ reader[f].at = "begin"
    /\ reader' = [reader EXCEPT ![f] = IF keepreading THEN [@ EXCEPT !.at = "read"]
                                       ELSE [@ EXCEPT !.at = "sweep", !.slot = 0]]
    /\ UNCHANGED <<files, mishaps, pc, file, numread, dataremaining, keepreading, muxindex, muxend,
                   n2, taken, locks, lastslot, endindex, readbuffer, readbufferwriteslot,
                   position>>

\* A read into the slot that the reader holds, of what is left of the file that
\* is open; with less than a slot it is the end of the file
ReadSlot(f) ==
    /\ reader[f].at = "read"
    /\ LET left == IF position < Units THEN Units - position ELSE 0
           got == IF left < SlotUnits THEN left ELSE SlotUnits
           base == readbufferwriteslot * SlotUnits
       IN  /\ readbuffer' = [x \in DOMAIN readbuffer |->
                               IF x \in base .. base + got - 1
                               THEN [file |-> file, unit |-> position + x - base]
                               ELSE readbuffer[x]]
           /\ position' = position + got
           /\ IF got < SlotUnits
              THEN /\ lastslot' = readbufferwriteslot
                   /\ reader' = [reader EXCEPT ![f] = [at |-> "short", got |-> got,
                                                       slot |-> readbufferwriteslot]]
                   /\ UNCHANGED readbufferwriteslot
              ELSE /\ readbufferwriteslot' = NextSlot(readbufferwriteslot)
                   /\ reader' = [reader EXCEPT ![f] = [at |-> "lock", got |-> got,
                                                       slot |-> readbufferwriteslot]]
                   /\ UNCHANGED lastslot
    /\ UNCHANGED <<files, mishaps, pc, file, numread, dataremaining, keepreading, muxindex, muxend,
                   n2, taken, locks, endindex>>

\* The end of the data is set after lastslot, and the consumer may look between
SetEnd(f) ==
    /\ reader[f].at = "short"
    /\ endindex' = lastslot * SlotUnits + reader[f].got
    /\ readbufferwriteslot' = NextSlot(readbufferwriteslot)
    /\ reader' = [reader EXCEPT ![f] = [@ EXCEPT !.at = "last", !.slot = readbufferwriteslot]]
    /\ UNCHANGED <<files, mishaps, pc, file, numread, dataremaining, keepreading, muxindex, muxend,
                   n2, taken, locks, lastslot, readbuffer, position>>

\* Mutant: the mutex of the next slot is not waited for.
AdvanceSlotAtOnce(f) ==
    /\ reader[f].at \in {"lock", "last"}
    /\ LET slot == reader[f].slot
       IN  /\ slotMutexOwner' = unlockSlots(lockSlot(slotMutexOwner, NextSlot(slot), 2), slot, slot)
           /\ Mishap("lapped", NextSlot(slot) = 1 /\ lockstart = -1)
    /\ reader' = [reader EXCEPT ![f] =
                    IF @.at = "lock" /\ keepreading THEN [@ EXCEPT !.at = "read"]
                    ELSE [@ EXCEPT !.at = "sweep", !.slot = 0]]
    /\ UNCHANGED <<files, pc, file, numread, dataremaining, keepreading, muxindex, muxend,
                   n2, taken, lockstart, lockend, lastslot, endindex, readbuffer,
                   readbufferwriteslot, position>>

\* The reader waits for the mutex of the next slot and then releases that of the
\* slot it has filled.  It goes on unless this was the last one or the consumer,
\* or the end of the job, has told it to stop.  Nothing keeps it from coming round
\* to slot 1 before the consumer has locked that for the first time.
AdvanceSlot(f) ==
    /\ reader[f].at \in {"lock", "last"}
    /\ LET slot == reader[f].slot
       IN  /\ CanLock(NextSlot(slot))
           /\ slotMutexOwner' = unlockSlots(lockSlot(slotMutexOwner, NextSlot(slot), 2), slot, slot)
           /\ Mishap("lapped", NextSlot(slot) = 1 /\ lockstart = -1)
    /\ reader' = [reader EXCEPT ![f] =
                    IF @.at = "lock" /\ keepreading THEN [@ EXCEPT !.at = "read"]
                    ELSE [@ EXCEPT !.at = "sweep", !.slot = 0]]
    /\ UNCHANGED <<files, pc, file, numread, dataremaining, keepreading, muxindex, muxend,
                   n2, taken, lockstart, lockend, lastslot, endindex, readbuffer,
                   readbufferwriteslot, position>>

\* unlockAllSlots(2), one mutex at a time: any that a reader holds is released
Sweep(f) ==
    /\ reader[f].at = "sweep"
    /\ LET m == reader[f].slot
       IN  /\ slotMutexOwner' = [slotMutexOwner EXCEPT ![m] = IF @ = 2 THEN 0 ELSE @]
           /\ reader' = [reader EXCEPT ![f] = IF m = Slots - 1 THEN [@ EXCEPT !.at = "end"]
                                              ELSE [@ EXCEPT !.slot = m + 1]]
    /\ UNCHANGED <<files, mishaps, pc, file, numread, dataremaining, keepreading, muxindex, muxend,
                   n2, taken, lockstart, lockend, lastslot, endindex, readbuffer,
                   readbufferwriteslot, position>>

Reader(f) == BeginReading(f) \/ ReadSlot(f) \/ SetEnd(f) \/ AdvanceSlot(f) \/ Sweep(f)

-----------------------------------------------------------------------------
(* Files.                                                                      *)

\* loopfileread calls diskToMemory for the first two segments whatever became of
\* the first, for the third unless reading was stopped, and then while there is
\* data
MustRead == \/ numread = 1
            \/ numread = 2 /\ keepreading
            \/ numread \in {0, 3} /\ dataremaining /\ keepreading

FileOver == pc = "loop" /\ ~MustRead /\ keepreading

\* The reader of an earlier file is still running: it is not joined
EarlierReads == \E f \in 1 .. NumFiles : reader[f].at \notin {"none", "end"}

\* closefile and openfile: no file is left
OutOfFiles ==
    /\ FileOver
    /\ file >= NumFiles
    /\ file' = file + 1
    /\ dataremaining' = FALSE /\ keepreading' = FALSE
    /\ UNCHANGED <<files, mishaps, pc, numread, muxindex, muxend, n2, taken, locks, ring>>

\* closefile, and openfile of a file that does not open or is no VDIF file
OpenFails ==
    /\ FileOver
    /\ file < NumFiles /\ ~files[file + 1].opens
    /\ file' = file + 1
    /\ Mishap("overlap", EarlierReads)
    /\ dataremaining' = FALSE
    /\ position' = files[file + 1].units
    /\ UNCHANGED <<files, pc, numread, keepreading, muxindex, muxend, n2, taken, locks,
                   lastslot, endindex, readbuffer, readbufferwriteslot, reader>>

\* closefile and openfile, with initialiseFile up to the lock of
\* startReaderThread.  A file that ends before the wanted time has its reader too.
openfile ==
    /\ FileOver
    /\ file < NumFiles /\ files[file + 1].opens
    /\ file' = file + 1
    /\ Mishap("overlap", EarlierReads)
    /\ dataremaining' = ~files[file + 1].past
    /\ position' = IF files[file + 1].past THEN files[file + 1].units ELSE 0
    /\ lockstart' = -1 /\ lockend' = -1 /\ lastslot' = -1
    /\ readbufferwriteslot' = 1
    /\ taken' = 0
    /\ pc' = "start"
    /\ UNCHANGED <<files, numread, keepreading, muxindex, muxend, n2, slotMutexOwner,
                   endindex, readbuffer, reader>>

\* The consumer locks slot 1 for the reader it then starts
startReaderThread ==
    /\ pc = "start"
    /\ CanLock(1)
    /\ slotMutexOwner' = lockSlot(slotMutexOwner, 1, 2)
    /\ reader' = [reader EXCEPT ![file] = [@ EXCEPT !.at = "begin", !.slot = 1]]
    /\ pc' = "loop"
    /\ UNCHANGED <<files, mishaps, file, numread, dataremaining, keepreading, muxindex, muxend, n2,
                   taken, lockstart, lockend, lastslot, endindex, readbuffer,
                   readbufferwriteslot, position>>

\* The end of loopfileread
ReadsDone ==
    /\ pc = "loop"
    /\ ~MustRead /\ ~keepreading
    /\ pc' = "done"
    /\ UNCHANGED <<files, mishaps, file, numread, dataremaining, keepreading, muxindex, muxend, n2,
                   taken, locks, ring>>

-----------------------------------------------------------------------------
(* dataRead.                                                                   *)

\* loopfileread decides to read.  It waits for the segment (waitForBuffer, which is
\* in module DataStream), and may be told to stop meanwhile.
BeginRead ==
    /\ pc = "loop" /\ MustRead
    /\ pc' = "call"
    /\ UNCHANGED <<files, mishaps, file, numread, dataremaining, keepreading, muxindex, muxend, n2,
                   taken, locks, ring>>

\* A call after the end of a file: lockend is -2, and the first mutex it locks is
\* the one before the array.  What follows is not defined.
StrayRead ==
    /\ pc = "call"
    /\ lockstart = -2
    /\ Mishap("stray", TRUE)
    /\ pc' = "lost"
    /\ UNCHANGED <<files, file, numread, dataremaining, keepreading, muxindex, muxend, n2,
                   taken, locks, ring>>

\* The first call for a file waits for slot 1
FirstRead ==
    /\ pc = "call"
    /\ lockstart = -1
    /\ CanLock(1)
    /\ muxindex' = SlotUnits
    /\ lockstart' = 1 /\ lockend' = 1
    /\ slotMutexOwner' = lockSlot(slotMutexOwner, 1, 1)
    /\ pc' = "window"
    /\ UNCHANGED <<files, mishaps, file, numread, dataremaining, keepreading, muxend, n2, taken, ring>>

\* A later call already holds the slot it continues in
NextRead ==
    /\ pc = "call"
    /\ lockstart >= 0
    /\ pc' = "window"
    /\ UNCHANGED <<files, mishaps, file, numread, dataremaining, keepreading, muxindex, muxend, n2,
                   taken, locks, ring>>

\* The last slot to look at: that of the end of the file if fewer than
\* ReadUnits remain, or that of the second of twice as many
LastSlotNeeded ==
    IF lastslot >= 0 /\ muxindex + ReadUnits > endindex /\ muxindex < endindex
    THEN (endindex - 1) \div SlotUnits
    ELSE (muxindex + 2 * ReadUnits - 1) \div SlotUnits

ChooseSlots ==
    /\ pc = "window"
    /\ n2' = LastSlotNeeded
    /\ pc' = "grab"
    /\ UNCHANGED <<files, mishaps, file, numread, dataremaining, keepreading, muxindex, muxend,
                   taken, locks, ring>>

\* The consumer waits for each slot it needs and does not hold
GrabSlot ==
    /\ pc = "grab"
    /\ lockend < n2
    /\ CanLock(lockend + 1)
    /\ lockend' = lockend + 1
    /\ slotMutexOwner' = lockSlot(slotMutexOwner, lockend + 1, 1)
    /\ UNCHANGED <<files, mishaps, pc, file, numread, dataremaining, keepreading, muxindex, muxend,
                   n2, taken, lockstart, ring>>

\* Mutant: the end of the file is not looked for.
EndOfSlotsWhole == (n2 + 1) * SlotUnits

EndOfSlots == IF lastslot = n2 THEN endindex ELSE (n2 + 1) * SlotUnits

\* All slots are locked: vdifmux is shown what is in them
ShowSlots ==
    /\ pc = "grab"
    /\ lockend >= n2
    /\ EndOfSlots > muxindex
    /\ muxend' = EndOfSlots
    /\ pc' = "mux"
    /\ UNCHANGED <<files, mishaps, file, numread, dataremaining, keepreading, muxindex, n2, taken,
                   locks, ring>>

\* Nothing to show: "this should never be!".  The slots stay locked.
NothingToShow ==
    /\ pc = "grab"
    /\ lockend >= n2
    /\ EndOfSlots <= muxindex
    /\ muxend' = EndOfSlots
    /\ dataremaining' = FALSE
    /\ Mishap("kept", TRUE)
    /\ pc' = "post"
    /\ UNCHANGED <<files, file, numread, keepreading, muxindex, n2, taken, locks, ring>>

-----------------------------------------------------------------------------
(* vdifmux.  It goes through the frames it is shown, puts those that are of    *)
(* the segment into their places and passes over everything else: fill data,   *)
(* frames of other threads, and frames from before the segment.                *)

\* Whether there is a frame at x: not fill data, and not memory never read to
IsFrame(x) ==
    /\ x \in DOMAIN readbuffer
    /\ readbuffer[x] # Unset
    /\ readbuffer[x].unit \notin files[readbuffer[x].file].skipped

\* A frame of the file that has not been used yet; all others are from before the
\* segment
IsData(x) == IsFrame(x) /\ readbuffer[x].file = file /\ readbuffer[x].unit >= taken

DataIn(from, to) == {x \in from .. to : IsData(x)}

\* No frame is shown, and the number of the next one is not known: an error, or no
\* data.  The slots stay locked, after an error all but the last.
MuxFails ==
    /\ pc = "mux"
    /\ \A x \in muxindex .. muxend - 1 : ~IsFrame(x)
    /\ dataremaining' = FALSE
    /\ slotMutexOwner' \in {slotMutexOwner, unlockSlots(slotMutexOwner, lockend, lockend)}
    /\ Mishap("kept", TRUE)
    /\ pc' = "post"
    /\ UNCHANGED <<files, file, numread, keepreading, muxindex, muxend, n2, taken,
                   lockstart, lockend, ring>>

\* How much vdifmux may use of what it is shown.  It stops at a frame for which the
\* segment has no place: it is full, which it is the earlier the more frames are
\* missing in the file.  It uses everything if there is no such frame, and also if
\* it is out of step with the file (after a gap).  Where it stops among old frames
\* alone is a matter of their numbers, which are not modelled.
Uses ==
    {muxend - muxindex} \cup
    {used \in 1 .. muxend - muxindex - 1 :
        /\ Cardinality(DataIn(muxindex, muxindex + used - 1)) <= MaxUsed
        /\ \/ IsData(muxindex + used)
           \/ IsFrame(muxindex + used) /\ DataIn(muxindex, muxend - 1) = {}}

\* Mutant: the end may be in a slot that is not looked at.
EndOfScanAnySlot(used) == /\ lastslot >= 0
                          /\ \/ muxindex + used + MinLeft > endindex
                             \/ muxend - muxindex < ReadUnits \div 4

\* End of the data of the scan, when used units have been multiplexed
EndOfScan(used) == /\ lastslot = n2
                   /\ \/ muxindex + used + MinLeft > endindex
                      \/ muxend - muxindex < ReadUnits \div 4

\* What has been multiplexed of the file when used more units are; one more than the
\* file has stands for anything more
TakenWith(used) == IF taken + used > Units THEN Units + 1 ELSE taken + used

MuxToEnd(used) ==
    /\ EndOfScan(used)
    /\ muxindex' = muxindex + used /\ taken' = TakenWith(used)
    /\ dataremaining' = FALSE
    /\ slotMutexOwner' = unlockAllSlots(slotMutexOwner)
    /\ lockstart' = -2 /\ lockend' = -2
    /\ pc' = "post"
    /\ UNCHANGED <<files, mishaps, file, numread, keepreading, muxend, n2, ring>>

\* The end of the file is used, and what is behind it, but it is in another slot
\* than the one in which it is looked for
EndUnnoticed(used) == Mishap("unnoticed", taken + used >= Units)

\* More is used than the ring has: vdifmux was shown what is behind it in memory
MuxOutOfRing(used) ==
    /\ ~EndOfScan(used)
    /\ muxindex + used > BufferUnits
    /\ Mishap("outside", TRUE)
    /\ pc' = "lost"
    /\ UNCHANGED <<files, file, numread, dataremaining, keepreading, muxindex, muxend, n2,
                   taken, locks, ring>>

\* The ring has been used up exactly: on to slot 1, once it is locked
MuxAllOfRing(used) ==
    /\ ~EndOfScan(used)
    /\ muxindex + used = BufferUnits
    /\ muxindex' = SlotUnits /\ taken' = TakenWith(used)
    /\ EndUnnoticed(used)
    /\ pc' = "wrap"
    /\ UNCHANGED <<files, file, numread, dataremaining, keepreading, muxend, n2, locks, ring>>

RestartRing ==
    /\ pc = "wrap"
    /\ CanLock(1)
    /\ slotMutexOwner' = unlockSlots(lockSlot(slotMutexOwner, 1, 1), lockstart, Slots - 1)
    /\ lockstart' = 1 /\ lockend' = 1
    /\ pc' = "post"
    /\ UNCHANGED <<files, mishaps, file, numread, dataremaining, keepreading, muxindex, muxend, n2,
                   taken, ring>>

\* The first slot that stays locked: the one of the next unit, or the last one
\* that is locked
FirstKept(index) ==
    LET n3 == index \div SlotUnits
    IN  IF n3 <= lockstart THEN lockstart ELSE IF n3 < lockend THEN n3 ELSE lockend

\* The slots that are used up are unlocked, and what is left in the last slot is
\* moved to slot 0, which has the same mutex
MuxOn(used) ==
    /\ ~EndOfScan(used)
    /\ muxindex + used < BufferUnits
    /\ taken' = TakenWith(used)
    /\ EndUnnoticed(used)
    /\ LET kept == FirstKept(muxindex + used)
       IN  /\ slotMutexOwner' = unlockSlots(slotMutexOwner, lockstart, kept - 1)
           /\ IF kept = Slots - 1 /\ lastslot # Slots - 1
              THEN LET start == (muxindex + used) % SlotUnits
                       rest == BufferUnits - (muxindex + used)
                   IN  /\ lockstart' = 0 /\ lockend' = 0
                       /\ muxindex' = start
                       /\ readbuffer' = [x \in DOMAIN readbuffer |->
                                           IF x \in start .. start + rest - 1
                                           THEN readbuffer[x - start + muxindex + used]
                                           ELSE readbuffer[x]]
              ELSE /\ lockstart' = kept
                   /\ muxindex' = muxindex + used
                   /\ UNCHANGED <<lockend, readbuffer>>
    /\ pc' = "post"
    /\ UNCHANGED <<files, file, numread, dataremaining, keepreading, muxend, n2, lastslot,
                   endindex, readbufferwriteslot, reader, position>>

-----------------------------------------------------------------------------
(* The rest of diskToMemory.                                                   *)

CountRead == numread' = (IF numread < 3 THEN numread + 1 ELSE numread)

\* Neither the end of the job nor of its last scan
KeepGoing ==
    /\ pc = "post"
    /\ CountRead
    /\ pc' = "loop"
    /\ UNCHANGED <<files, mishaps, file, dataremaining, keepreading, muxindex, muxend, n2, taken,
                   locks, ring>>

\* Mutant: the slots stay locked.
EndOfJobLocked ==
    /\ pc = "post"
    /\ JobMayEnd
    /\ CountRead
    /\ keepreading' = FALSE /\ dataremaining' = FALSE
    /\ pc' = IF lockstart >= 0 THEN "join" ELSE "loop"
    /\ UNCHANGED <<files, mishaps, file, muxindex, muxend, n2, taken, locks, ring>>

\* The end of the job, or of its last scan: with slots still locked the consumer
\* unlocks them and waits for the reader
EndOfJob ==
    /\ pc = "post"
    /\ JobMayEnd
    /\ CountRead
    /\ keepreading' = FALSE /\ dataremaining' = FALSE
    /\ IF lockstart >= 0
       THEN slotMutexOwner' = unlockAllSlots(slotMutexOwner) /\ pc' = "join"
       ELSE pc' = "loop" /\ UNCHANGED slotMutexOwner
    /\ UNCHANGED <<files, mishaps, file, muxindex, muxend, n2, taken, lockstart, lockend, ring>>

\* pthread_join of the reader started last
JoinReader ==
    /\ pc = "join"
    /\ \E f \in 1 .. NumFiles : /\ reader[f].at = "end"
                               /\ \A g \in f + 1 .. NumFiles : reader[g].at = "none"
    /\ lockstart' = -2 /\ lockend' = -2
    /\ pc' = "loop"
    /\ UNCHANGED <<files, mishaps, file, numread, dataremaining, keepreading, muxindex, muxend, n2,
                   taken, slotMutexOwner, ring>>

\* DataStream::execute stops the reading when the manager says so; it starts once
\* two segments have been read
StopReading ==
    /\ JobMayEnd
    /\ numread >= 2 /\ keepreading
    /\ pc \notin {"done", "lost"}
    /\ keepreading' = FALSE
    /\ UNCHANGED <<files, mishaps, pc, file, numread, dataremaining, muxindex, muxend, n2, taken,
                   locks, ring>>

-----------------------------------------------------------------------------

Consumer ==
    \/ OutOfFiles \/ OpenFails \/ openfile \/ startReaderThread \/ ReadsDone
    \/ BeginRead \/ StrayRead \/ FirstRead \/ NextRead \/ ChooseSlots \/ GrabSlot
    \/ ShowSlots \/ NothingToShow \/ MuxFails
    \/ pc = "mux" /\ \E used \in Uses : 
          MuxToEnd(used) \/ MuxOutOfRing(used) \/ MuxAllOfRing(used) \/ MuxOn(used)
    \/ RestartRing \/ KeepGoing \/ EndOfJob \/ JoinReader

Next == Consumer \/ StopReading \/ \E f \in 1 .. NumFiles : Reader(f)

Spec == Init /\ [][Next]_vars

\* Both threads are scheduled: a step that stays possible is taken.
FairSpec == /\ Spec
            /\ WF_vars(Consumer)
            /\ WF_vars(\E f \in 1 .. NumFiles : Reader(f))

-----------------------------------------------------------------------------
(* Properties.                                                                 *)

TypeOK ==
    /\ files \in Inputs
    /\ pc \in {"loop", "start", "call", "window", "grab", "mux", "wrap", "post", "join", "done", "lost"}
    /\ file \in 0 .. NumFiles + 1 /\ position \in Nat /\ numread \in 0 .. 3 /\ taken \in Nat
    /\ dataremaining \in BOOLEAN /\ keepreading \in BOOLEAN
    /\ muxindex \in 0 .. BufferUnits - 1 /\ muxend \in Nat /\ n2 \in 0 .. Slots
    /\ lockstart \in -2 .. Slots - 1 /\ lockend \in -2 .. Slots
    /\ lastslot \in -2 .. Slots - 1 /\ endindex \in 0 .. BufferUnits - 1
    /\ slotMutexOwner \in [Mutexes -> {0, 1, 2}]
    /\ DOMAIN readbuffer = 0 .. BufferUnits - 1
    /\ readbufferwriteslot \in 1 .. Slots - 1
    /\ reader \in [1 .. NumFiles -> [at : {"none", "begin", "read", "short", "lock", "last", "sweep", "end"},
                                     slot : Mutexes, got : 0 .. SlotUnits]]

\* Nothing has happened yet that the code has no protection against.  A reader came
\* round to slot 1 before the consumer had looked at it ("lapped"); one was still
\* running when the next file was opened, which does not join it ("overlap"); a call
\* of dataRead used up the file without noticing its end ("unnoticed"), used more
\* than the ring has ("outside"), gave up with slots locked ("kept"), or was made
\* with no file ("stray").  All of these happen: the properties from StartsLocked on
\* are what the code says of itself and each of them breaks.
Unharmed == mishaps = {}

\* A reader reads into a slot whose mutex a reader holds.
WritesLocked ==
    \A f \in 1 .. NumFiles :
        reader[f].at = "read" => slotMutexOwner[MutexOf(readbufferwriteslot)] = 2

\* While vdifmux looks at the ring (dataRead), no reader reads into what it is
\* shown, whichever of the mutexes they hold.
ShownIsStable ==
    pc = "mux" =>
        \A f \in 1 .. NumFiles : reader[f].at = "read" =>
            \/ (readbufferwriteslot + 1) * SlotUnits <= muxindex
            \/ readbufferwriteslot * SlotUnits >= muxend

\* The slots that dataRead believes to have locked, lockstart to lockend, are
\* those whose mutexes the consumer holds.
LocksKnown ==
    lockstart >= 0 /\ dataremaining =>
        {m \in Mutexes : slotMutexOwner[m] = 1} = {MutexOf(slot) : slot \in lockstart .. lockend}

\* How the two threads share the ring: a reader reads into what is locked for it,
\* the consumer has locked what it believes to have locked, and vdifmux looks at
\* nothing that is being read.
SlotsInv == Unharmed => TypeOK /\ WritesLocked /\ LocksKnown /\ ShownIsStable

\* What dataRead shows to vdifmux is the file's data from where the last call stopped,
\* ReadUnits of it or what there is, and all of the file that is in the slots shown:
\* nothing is skipped, seen twice, left from an earlier file or torn at the end of
\* the ring; unless the data stream has been told to stop, when nothing more is sent.
ShownInOrder ==
    Unharmed /\ pc = "mux" /\ keepreading =>
        \A x \in muxindex .. muxend - 1 :
            x < muxindex + ReadUnits \/ taken + x - muxindex < Units =>
                x < BufferUnits /\ readbuffer[x] = [file |-> file, unit |-> taken + x - muxindex]

\* When a file is closed because its data ended, all of it has been multiplexed,
\* but for what is not worth another call: less than MinLeft, or what the last
\* call left of less than a quarter of ReadUnits.
NothingLeft ==
    Unharmed /\ pc = "post" /\ lockstart = -2 =>
        /\ taken <= Units
        /\ taken + MinLeft > Units \/ taken + (ReadUnits \div 4) > Units

\* The consumer gets to the end of the files, or of the job: it does not wait
\* forever for a slot or for its reader, even if a reader came round to slot 1 too
\* early; unless one of the other things has happened that Unharmed is about.  Of
\* those, a call of dataRead that gave up with slots locked may well keep it from
\* ending (its comment: "this exit strategy likely will hang mpifxcorr").
ConsumerEnds == <>(pc = "done" \/ mishaps \ {"lapped"} # {})

\* readthreadfunction: "Lock for readbufferweriteslot=1 shall be set at this point
\* by startReaderThread()".
StartsLocked ==
    \A f \in 1 .. NumFiles : reader[f].at = "begin" => slotMutexOwner[MutexOf(1)] = 2

\* dataRead: "first decoding of scan", "start at beginning of slot 1 (second slot)":
\* the scan begins there.
StartsAtBeginning ==
    pc = "mux" /\ keepreading /\ taken = 0 => readbuffer[muxindex] = [file |-> file, unit |-> 0]

\* dataRead: "muxend contains the last valid buffer read index (minus 1)".
ShownIsValid ==
    pc = "mux" /\ keepreading /\ muxend <= BufferUnits =>
        readbuffer[muxend - 1] = [file |-> file, unit |-> taken + muxend - 1 - muxindex]

\* dataRead: "it should be impossible for n2 >= readbufferslots because a previous
\* memmove and slot shuffling should have prevented this".
SlotInRange == pc = "grab" => n2 < Slots

\* dataRead: the check of lockstart at its beginning never fails.
NeverStray == "stray" \notin mishaps

\* The consumer gets to the end, whatever vdifmux finds.
AlwaysEnds == <>(pc \in {"done", "lost"})

=============================================================================
