--------------------------- MODULE VdifReaderProofs ---------------------------
(* Proofs about the VDIF data stream, for any number and size of slots, any    *)
(* files and whatever vdifmux uses of them: as long as nothing has happened    *)
(* that the code has no protection against, the two threads share the ring of  *)
(* slots without touching each other's, vdifmux is shown the data of the file  *)
(* in order and nothing else, and no data is left at the end of a file.        *)
(*                                                                             *)
(* The argument numbers the slots of a file from 1 on, without end.  The       *)
(* reader holds one slot at a time, the consumer one or two behind it, and a   *)
(* mutex is that of every (Slots - 1)st slot: so that a mutex one of them gets *)
(* says that the other is not a round ahead.                                   *)
EXTENDS VdifReader, Induction

-------------------------------------------------------------------------------
(* The invariant.                                                              *)

\* The units of the ring, or of a file, that are in front of a slot
Place(slot) == slot * SlotUnits

\* The open file is one that is read
Wanted == file \in 1 .. NumFiles /\ files[file].opens /\ ~files[file].past

\* A reader that holds a slot, and the slot it holds
Active(f) == reader[f].at \in {"begin", "read", "short", "lock", "last"}
Held(f) == IF reader[f].at \in {"begin", "read"} THEN readbufferwriteslot ELSE reader[f].slot

\* The consumer has the slots that it believes to have
HasSlots == lockstart >= 0 /\ pc # "join"

\* Which slots each thread has, and where the reader is between two of them.
Readers ==
    \A f \in 1 .. NumFiles :
        /\ reader[f].at \notin {"none", "end"} => f = file \/ (file = NumFiles + 1 /\ f = NumFiles)
        /\ Active(f) => Held(f) \in 1 .. lockmod /\ slotMutexOwner[MutexOf(Held(f))] = 2
        /\ reader[f].at \in {"lock", "last"} => readbufferwriteslot = NextSlot(reader[f].slot)
        /\ reader[f].at \in {"short", "last"} => lastslot = reader[f].slot
        /\ reader[f].at = "short" => readbufferwriteslot = reader[f].slot /\ reader[f].got < SlotUnits

Consumers ==
    \A m \in Mutexes :
        slotMutexOwner[m] = 1 <=> HasSlots /\ \E slot \in lockstart .. lockend : m = MutexOf(slot)

\* Where the consumer is when a file is open or not.
Phases ==
    /\ lockstart < 0 => lockend = lockstart
    /\ lockstart >= 0 => lockend >= lockstart
    /\ ~Wanted => /\ pc \in {"loop", "start", "done", "lost"}
                  /\ numread \in {0, 3} /\ ~dataremaining
                  /\ file <= NumFiles => lockstart < 0
    /\ pc = "lost" => lockstart = -2
    /\ pc \in {"window", "grab", "mux", "wrap", "join"} => lockstart >= 0
    /\ pc = "post" => lockstart # -1
    /\ Wanted /\ lockstart = -1 => dataremaining
    /\ pc = "join" \/ file > NumFiles => ~keepreading
    /\ pc = "join" => ~dataremaining
    /\ pc = "start" =>
          /\ file \in 1 .. NumFiles /\ lockstart = -1 /\ taken = 0
          /\ lastslot = -1 /\ readbufferwriteslot = 1
          /\ Wanted => position = 0
          /\ \A f \in 1 .. NumFiles : reader[f].at \in {"none", "end"}

-------------------------------------------------------------------------------

\* A file is read, and the consumer has not come to its end
Reading == Wanted /\ lockstart >= -1 /\ pc \notin {"start", "join"}

\* A round of the ring, in slots: the slots of a file are numbered from 1 on, and
\* slot s of the ring is, in a round that begins at n, the slot n + s of the file
Rounds == {n \in Nat : n % lockmod = 0}

\* The reader has come to the end of the file, or was told to stop.
AtEnd == lastslot >= 0 /\ reader[file].at \in {"sweep", "end"}
Stopped == lastslot < 0 /\ reader[file].at \in {"sweep", "end"}

\* Where the consumer is, in a round that begins at c
ConsumerAt(c) ==
    /\ lockstart = -1 => c = 0 /\ taken = 0
    /\ lockstart >= 0 =>
          /\ lockend <= lockstart + 1
          /\ lockend >= Slots => lockstart = lockmod
          /\ lockstart = lockmod => lastslot = lockmod
          /\ pc # "wrap" => /\ taken + SlotUnits = muxindex + Place(c)
                            /\ Place(lockstart) <= muxindex
                            /\ muxindex <= Place(lockstart + 1)
    /\ pc = "wrap" => /\ taken + SlotUnits = Place(Slots + c) /\ muxindex = SlotUnits
                      /\ lockend = lockmod /\ lockstart = lockmod - 1

\* The first slot of the consumer
FirstOf(c) == IF lockstart = -1 THEN 1 ELSE c + lockstart

\* Where the reader is, in a round that begins at d
ReaderAt(d) ==
    LET r == reader[file]
    IN  /\ r.at # "none"
        /\ position <= Units
        /\ r.at \in {"begin", "read"} => position + SlotUnits = Place(readbufferwriteslot + d)
        /\ r.at = "lock" => position = Place(r.slot + d)
        /\ r.at \in {"begin", "read", "lock"} => lastslot = -1
        /\ r.at = "short" => Units + SlotUnits = Place(r.slot + d) + r.got
        /\ r.at = "last" \/ AtEnd =>
              /\ Units + SlotUnits = endindex + Place(d)
              /\ Place(lastslot) <= endindex /\ endindex < Place(lastslot + 1)
        /\ lastslot >= 0 => lastslot >= 1 /\ position = Units
        /\ Stopped => ~keepreading

\* The consumer is behind the reader, by less than a round.  When the reader has
\* ended the consumer may be one slot ahead.
Behind(c, d) ==
    /\ Active(file) => /\ lockstart >= 0 => c + lockend < Held(file) + d
                       /\ Held(file) + d < FirstOf(c) + lockmod
    /\ AtEnd => /\ c <= d /\ lastslot + d < FirstOf(c) + lockmod
                /\ lockstart >= 0 =>
                      /\ taken < Units \/ (taken = Units /\ endindex = Place(lastslot))
                      /\ \/ c + lockend <= lastslot + d
                         \/ c = d /\ lockend = lastslot + 1 /\ lockstart = lastslot

\* What the consumer is to look at
WindowAt(c, d) ==
    /\ pc \in {"grab", "mux"} =>
          /\ muxindex < Place(n2 + 1) /\ n2 <= lockstart + 1
          /\ Active(file) => n2 + c <= Held(file) + d
          /\ AtEnd => \/ n2 + c <= lastslot + d
                      \/ c = d /\ n2 = lastslot + 1 /\ muxindex + ReadUnits <= endindex
    /\ pc = "mux" => lockend >= n2 /\ muxend = EndOfSlots /\ muxindex < muxend

\* A consumer that has slots has data left, unless it was told to stop.
GoesOn == lockstart >= 0 /\ keepreading => dataremaining

\* What is in the ring
Round == Place(lockmod)
InRing == \A u \in Nat : u < position /\ position <= u + Round =>
             readbuffer[SlotUnits + (u % Round)] = [file |-> file, unit |-> u]
InSlotZero == lockstart = 0 /\ keepreading =>
                 \A x \in muxindex .. SlotUnits - 1 :
                     readbuffer[x] = [file |-> file, unit |-> taken + x - muxindex]

FileInv == /\ \E c, d \in Rounds :
                 ConsumerAt(c) /\ ReaderAt(d) /\ Behind(c, d) /\ WindowAt(c, d)
           /\ GoesOn /\ InRing /\ InSlotZero

\* What NothingLeft is about
AllTaken == pc = "post" /\ lockstart = -2 =>
               /\ taken <= Units
               /\ taken + MinLeft > Units \/ taken + (ReadUnits \div 4) > Units

SlotInv == /\ TypeOK /\ Readers /\ Consumers /\ Phases
           /\ Reading => FileInv
           /\ AllTaken

-------------------------------------------------------------------------------
(* Slots, places and mutexes.                                                  *)

\* The sizes of the ring.
LEMMA Sizes ==
    /\ Slots \in Nat /\ lockmod \in Nat /\ lockmod >= 4 /\ Slots = lockmod + 1
    /\ SlotUnits \in Nat /\ ReadUnits \in Nat /\ ReadUnits >= 1 /\ SlotUnits >= 2 * ReadUnits
    /\ SlotUnits >= 2 /\ MinLeft \in Nat /\ MinLeft >= 1
    /\ lockmod \in Nat \ {0} /\ SlotUnits \in Nat \ {0}
  BY SlotsAssumption, SizeAssumption DEF lockmod

\* Where slots begin.
LEMMA Places ==
    /\ \A a \in Int : Place(a) \in Int /\ Place(a + 1) = Place(a) + SlotUnits
    /\ \A a, b \in Int : Place(a + b) = Place(a) + Place(b)
    /\ \A a, b \in Int : a < b => Place(a) + SlotUnits <= Place(b)
    /\ \A a, b \in Int : a <= b => Place(a) <= Place(b)
    /\ Place(0) = 0 /\ Place(1) = SlotUnits
    /\ \A a \in Nat : Place(a) \in Nat
    /\ BufferUnits = Place(Slots) /\ Place(Slots) = Place(lockmod) + SlotUnits
<1> USE Sizes
<1>1. \A a \in Int : Place(a) \in Int /\ Place(a + 1) = Place(a) + SlotUnits
  BY DEF Place
<1>2. \A a, b \in Int : Place(a + b) = Place(a) + Place(b)
  BY DEF Place
<1>3. \A k \in Int : k >= 1 => Place(k) >= SlotUnits
  <2> TAKE k \in Int
  <2> HAVE k >= 1
  <2>1. SlotUnits * k >= SlotUnits
    BY Multiple
  <2> QED BY <2>1 DEF Place
<1>4. \A a, b \in Int : a < b => Place(a) + SlotUnits <= Place(b)
  <2> TAKE a, b \in Int
  <2> HAVE a < b
  <2> DEFINE k == b - a
  <2>1. k \in Int /\ k >= 1 /\ b = a + k
    OBVIOUS
  <2> HIDE DEF k
  <2>2. Place(b) = Place(a) + Place(k) /\ Place(k) >= SlotUnits
    BY <1>2, <1>3, <2>1
  <2>3. Place(a) \in Int /\ Place(b) \in Int /\ Place(k) \in Int
    BY <1>1, <2>1
  <2> QED BY <2>2, <2>3
<1>5. \A a, b \in Int : a <= b => Place(a) <= Place(b)
  <2> TAKE a, b \in Int
  <2> HAVE a <= b
  <2>1. CASE a = b
    BY <1>1, <2>1
  <2>2. CASE a < b
    BY <1>1, <1>4, <2>2
  <2> QED BY <2>1, <2>2
<1>6. Place(0) = 0 /\ Place(1) = SlotUnits
  BY DEF Place
<1>7. \A a \in Nat : Place(a) \in Nat
  <2> TAKE a \in Nat
  <2>1. Place(0) <= Place(a) /\ Place(a) \in Int
    BY <1>1, <1>5
  <2> QED BY <1>6, <2>1
<1>8. BufferUnits = Place(Slots) /\ Place(Slots) = Place(lockmod) + SlotUnits
  BY <1>1 DEF BufferUnits, Place
<1> QED BY <1>1, <1>2, <1>4, <1>5, <1>6, <1>7, <1>8

LEMMA PlaceIs ==
    ASSUME NEW a \in Nat
    PROVE  /\ Place(a) \in Nat /\ Place(a + 1) \in Nat /\ Place(a) \in Int
           /\ Place(a + 1) = Place(a) + SlotUnits
<1>1. a \in Int /\ a + 1 \in Nat
  OBVIOUS
<1> QED BY <1>1, Places

LEMMA PlaceSum ==
    ASSUME NEW a \in Nat, NEW b \in Nat
    PROVE  /\ Place(a + b) = Place(a) + Place(b) /\ Place(a + b) \in Nat
           /\ Place(a) \in Nat /\ Place(b) \in Nat
<1>1. a \in Int /\ b \in Int /\ a + b \in Nat
  OBVIOUS
<1> QED BY <1>1, Places

LEMMA PlaceUp ==
    ASSUME NEW a \in Int, NEW b \in Int, a <= b
    PROVE  Place(a) <= Place(b) /\ (a < b => Place(a) + SlotUnits <= Place(b))
  BY Places

\* Places in the order of slots, the other way round.
LEMMA PlaceOrder ==
    ASSUME NEW a \in Int, NEW b \in Int, Place(a) < Place(b) + SlotUnits
    PROVE  a <= b
<1>1. Place(a) \in Int /\ Place(b) \in Int
  BY Places
<1>2. b < a => Place(b) + SlotUnits <= Place(a)
  BY Places
<1> QED BY <1>1, <1>2, Sizes

\* The slot of a unit.
LEMMA SlotOfUnit ==
    ASSUME NEW x \in Nat
    PROVE  /\ x \div SlotUnits \in Nat
           /\ Place(x \div SlotUnits) <= x /\ x < Place((x \div SlotUnits) + 1)
<1> DEFINE q == x \div SlotUnits
<1>1. q \in Nat /\ SlotUnits * q <= x /\ x < SlotUnits * q + SlotUnits
  BY Sizes, QuotientBounds
<1> HIDE DEF q
<1>2. Place(q) = SlotUnits * q /\ Place(q + 1) = Place(q) + SlotUnits
  BY <1>1, Sizes DEF Place
<1>3. Place(q) <= x /\ x < Place(q + 1)
  BY <1>1, <1>2
<1> QED BY <1>1, <1>3 DEF q

\* Rounds of the ring.
LEMMA RoundsAre ==
    /\ 0 \in Rounds /\ Rounds \subseteq Nat
    /\ \A n \in Rounds : n + lockmod \in Rounds
    /\ \A n, m \in Rounds : n < m => n + lockmod <= m
    /\ \A n \in Rounds, s \in Nat : (n + s) % lockmod = s % lockmod
<1> USE Sizes
<1>1. \A n \in Rounds : \E k \in Nat : n = lockmod * k
  <2> TAKE n \in Rounds
  <2>1. n \in Nat /\ n % lockmod = 0
    BY DEF Rounds
  <2>2. n \div lockmod \in Nat /\ n = lockmod * (n \div lockmod) + (n % lockmod)
    BY <2>1, Division
  <2>3. n = lockmod * (n \div lockmod)
    BY <2>1, <2>2
  <2> QED BY <2>2, <2>3
<1>2. \A n \in Rounds, s \in Nat : (n + s) % lockmod = s % lockmod
  <2> TAKE n \in Rounds, s \in Nat
  <2>1. PICK k \in Nat : n = lockmod * k
    BY <1>1
  <2>2. lockmod * k + s \in Nat
    OBVIOUS
  <2>3. lockmod \in Nat \ {0} /\ k \in Int
    OBVIOUS
  <2>4. (lockmod * k + s) % lockmod = s % lockmod
    BY <2>2, <2>3, QuotientPlus
  <2> QED BY <2>1, <2>4
<1>3. Rounds \subseteq Nat
  BY DEF Rounds
<1>4. lockmod % lockmod = 0 /\ 0 % lockmod = 0
  <2>1. lockmod * 1 + 0 = lockmod /\ lockmod * 1 + 0 \in Nat
    OBVIOUS
  <2>2. 0 % lockmod = 0
    BY SmallQuotient
  <2>3. lockmod \in Nat \ {0} /\ 0 \in Nat /\ 1 \in Int
    OBVIOUS
  <2>4. (lockmod * 1 + 0) % lockmod = 0 % lockmod
    BY <2>1, <2>3, QuotientPlus
  <2> QED BY <2>1, <2>2, <2>4
<1>5. \A n \in Rounds : n + lockmod \in Rounds
  <2> TAKE n \in Rounds
  <2>1. n \in Nat /\ lockmod \in Nat
    BY <1>3
  <2>2. (n + lockmod) % lockmod = lockmod % lockmod
    BY <1>2, <2>1
  <2>3. (n + lockmod) % lockmod = 0
    BY <1>4, <2>2
  <2>4. n + lockmod \in Nat
    BY <2>1
  <2> QED BY <2>3, <2>4 DEF Rounds
<1>6. \A n, m \in Rounds : n < m => n + lockmod <= m
  <2> TAKE n, m \in Rounds
  <2> HAVE n < m
  <2>1. PICK k \in Nat : n = lockmod * k
    BY <1>1
  <2>2. PICK j \in Nat : m = lockmod * j
    BY <1>1
  <2>3. lockmod * (j - k) = m - n
    BY <2>1, <2>2
  <2>4. j - k >= 1
    <3> SUFFICES ASSUME j - k <= 0 PROVE FALSE
      OBVIOUS
    <3>1. lockmod * (k - j) >= 0
      OBVIOUS
    <3>2. lockmod * (j - k) = -(lockmod * (k - j))
      OBVIOUS
    <3> QED BY <1>3, <2>3, <3>1, <3>2
  <2>5. lockmod * (j - k) >= lockmod
    BY <2>4, Multiple
  <2> QED BY <1>3, <2>3, <2>5
<1> QED BY <1>2, <1>3, <1>4, <1>5, <1>6 DEF Rounds

\* The mutexes.
LEMMA MutexIs ==
    ASSUME NEW s \in Nat
    PROVE  MutexOf(s) \in Mutexes
<1>1. s % lockmod \in 0 .. lockmod - 1
  BY Sizes, Division
<1> QED BY <1>1, Sizes DEF MutexOf, Mutexes

\* One slot of a file has one mutex.
LEMMA SameMutex ==
    ASSUME NEW n \in Rounds, NEW m \in Rounds, NEW s \in Nat, NEW t \in Nat, n + s = m + t
    PROVE  MutexOf(s) = MutexOf(t)
  BY RoundsAre DEF MutexOf

\* Slots less than a round apart have different ones.
LEMMA OwnMutex ==
    ASSUME NEW s \in Nat, NEW t \in Nat, s < t + lockmod, t < s + lockmod,
           MutexOf(s) = MutexOf(t)
    PROVE  s = t
<1>1. CASE s <= t
  <2>1. s \in s .. s + lockmod - 1 /\ t \in s .. s + lockmod - 1
    BY <1>1, Sizes
  <2>2. s % lockmod = t % lockmod
    BY DEF MutexOf
  <2>3. lockmod \in Nat \ {0}
    BY Sizes
  <2>4. \A x, y \in s .. s + lockmod - 1 : x % lockmod = y % lockmod => x = y
    BY <2>3, SamePlace
  <2> QED BY <2>1, <2>2, <2>4
<1>2. CASE t <= s
  <2>1. s \in t .. t + lockmod - 1 /\ t \in t .. t + lockmod - 1
    BY <1>2, Sizes
  <2>2. s % lockmod = t % lockmod
    BY DEF MutexOf
  <2>3. lockmod \in Nat \ {0}
    BY Sizes
  <2>4. \A x, y \in t .. t + lockmod - 1 : x % lockmod = y % lockmod => x = y
    BY <2>3, SamePlace
  <2> QED BY <2>1, <2>2, <2>4
<1> QED BY <1>1, <1>2

\* The slot after a slot, of the ring and of the file.
LEMMA NextSlotIs ==
    ASSUME NEW s \in 1 .. lockmod
    PROVE  /\ NextSlot(s) \in 1 .. lockmod
           /\ \/ s < lockmod /\ NextSlot(s) = s + 1
              \/ s = lockmod /\ NextSlot(s) = 1
  BY Sizes DEF NextSlot

\* A place of the ring.
LEMMA InBuffer ==
    ASSUME NEW s \in 0 .. lockmod, NEW k \in Nat, k < SlotUnits
    PROVE  Place(s) + k \in 0 .. BufferUnits - 1
<1>1. s \in Int /\ Slots \in Int /\ s \in Nat /\ Slots \in Nat /\ s < Slots
  BY Sizes
<1>2. Place(s) + SlotUnits <= Place(Slots)
  BY <1>1, Places
<1>3. Place(s) \in Nat /\ Place(Slots) \in Nat /\ BufferUnits = Place(Slots)
  BY <1>1, Places
<1> QED BY <1>2, <1>3, Sizes

-------------------------------------------------------------------------------
(* Types.                                                                      *)

\* The files.
LEMMA FilesAre ==
    ASSUME TypeOK
    PROVE  /\ NumFiles \in Nat /\ file \in Nat /\ Units \in Nat
           /\ \A f \in 1 .. NumFiles :
                 /\ files[f].units \in Nat /\ files[f].skipped \subseteq Nat
                 /\ files[f].opens \in BOOLEAN /\ files[f].past \in BOOLEAN
<1> DEFINE File == [units : Nat, skipped : SUBSET Nat, opens : BOOLEAN, past : BOOLEAN]
<1>1. files \in Inputs /\ file \in 0 .. NumFiles + 1
  BY DEF TypeOK
<1>2. files \in Seq(File)
  BY <1>1, InputsAssumption
<1> HIDE DEF File
<1>3. NumFiles \in Nat /\ \A f \in 1 .. NumFiles : files[f] \in File
  BY <1>2 DEF NumFiles
<1>4. file \in Nat
  BY <1>1, <1>3
<1>5. \A f \in 1 .. NumFiles :
         /\ files[f].units \in Nat /\ files[f].skipped \subseteq Nat
         /\ files[f].opens \in BOOLEAN /\ files[f].past \in BOOLEAN
  BY <1>3 DEF File
<1>6. Units \in Nat
  BY <1>5 DEF Units
<1> QED BY <1>3, <1>4, <1>5, <1>6

\* The numbers among the variables.
LEMMA NumbersAre ==
    ASSUME TypeOK
    PROVE  /\ position \in Nat /\ taken \in Nat /\ muxindex \in Nat /\ muxend \in Nat
           /\ n2 \in Nat /\ lockstart \in Int /\ lockend \in Int /\ lastslot \in Int
           /\ lockstart >= -2 /\ lockend >= -2 /\ lastslot >= -2 /\ n2 <= Slots
           /\ lockstart <= lockmod /\ lockend <= Slots /\ lastslot <= lockmod
           /\ endindex \in Nat /\ muxindex < BufferUnits /\ endindex < BufferUnits
           /\ readbufferwriteslot \in Nat /\ readbufferwriteslot \in 1 .. lockmod
           /\ BufferUnits \in Nat
<1>1. BufferUnits \in Nat
  BY Sizes, Places
<1> QED BY <1>1, Sizes DEF TypeOK

\* Locking and unlocking keep the table of the mutexes.
LEMMA LockedType ==
    ASSUME NEW owners \in [Mutexes -> {0, 1, 2}], NEW slot \in Nat, NEW process \in {0, 1, 2}
    PROVE  /\ lockSlot(owners, slot, process) \in [Mutexes -> {0, 1, 2}]
           /\ lockSlot(owners, slot, process)[MutexOf(slot)] = process
           /\ \A m \in Mutexes : m # MutexOf(slot) =>
                 lockSlot(owners, slot, process)[m] = owners[m]
  BY MutexIs DEF lockSlot

LEMMA UnlockedType ==
    ASSUME NEW owners \in [Mutexes -> {0, 1, 2}], NEW from \in Int, NEW to \in Int
    PROVE  /\ unlockSlots(owners, from, to) \in [Mutexes -> {0, 1, 2}]
           /\ \A m \in Mutexes :
                 /\ (\E slot \in from .. to : m = MutexOf(slot))
                       => unlockSlots(owners, from, to)[m] = 0
                 /\ ~(\E slot \in from .. to : m = MutexOf(slot))
                       => unlockSlots(owners, from, to)[m] = owners[m]
  BY DEF unlockSlots

LEMMA AllUnlockedType ==
    ASSUME NEW owners \in [Mutexes -> {0, 1, 2}]
    PROVE  /\ unlockAllSlots(owners) \in [Mutexes -> {0, 1, 2}]
           /\ \A m \in Mutexes : unlockAllSlots(owners)[m] = IF owners[m] = 1 THEN 0 ELSE owners[m]
  BY DEF unlockAllSlots

ReaderStates == {"none", "begin", "read", "short", "lock", "last", "sweep", "end"}
ReaderRecords == [at : ReaderStates, slot : Mutexes, got : 0 .. SlotUnits]

\* Each record of a reader.
LEMMA ReaderIs ==
    ASSUME TypeOK, NEW f \in 1 .. NumFiles
    PROVE  /\ reader \in [1 .. NumFiles -> ReaderRecords] /\ reader[f] \in ReaderRecords
           /\ reader[f].at \in ReaderStates /\ reader[f].slot \in 0 .. lockmod
           /\ reader[f].got \in Nat /\ reader[f].got <= SlotUnits
           /\ reader[f].slot \in Nat
<1>1. reader \in [1 .. NumFiles -> ReaderRecords]
  BY DEF TypeOK, ReaderRecords, ReaderStates
<1>2. reader[f] \in ReaderRecords
  BY <1>1
<1> QED BY <1>1, <1>2, Sizes DEF ReaderRecords, Mutexes

\* A step of a reader changes its record only.
LEMMA ReaderChanges ==
    ASSUME TypeOK, NEW f \in 1 .. NumFiles, NEW r \in ReaderRecords,
           reader' = [reader EXCEPT ![f] = r]
    PROVE  /\ reader' \in [1 .. NumFiles -> ReaderRecords] /\ reader'[f] = r
           /\ \A g \in 1 .. NumFiles : g # f => reader'[g] = reader[g]
<1>1. reader \in [1 .. NumFiles -> ReaderRecords]
  BY DEF TypeOK, ReaderRecords, ReaderStates
<1> QED BY <1>1
-------------------------------------------------------------------------------
(* What the steps of a reader do.                                              *)

\* What no step of a reader changes
ReaderLeaves == UNCHANGED <<files, pc, file, numread, dataremaining, keepreading, muxindex,
                            muxend, n2, taken, lockstart, lockend>>

OthersStay(f) == /\ reader' \in [1 .. NumFiles -> ReaderRecords]
                 /\ \A g \in 1 .. NumFiles : g # f => reader'[g] = reader[g]

LEMMA BeginReadingDoes ==
    ASSUME TypeOK, NEW f \in 1 .. NumFiles, BeginReading(f)
    PROVE  /\ ReaderLeaves /\ OthersStay(f)
           /\ UNCHANGED <<slotMutexOwner, lastslot, endindex, readbuffer, readbufferwriteslot,
                          position>>
           /\ reader[f].at = "begin"
           /\ keepreading => reader'[f].at = "read"
           /\ ~keepreading => reader'[f].at = "sweep"
<1> DEFINE r == IF keepreading THEN [reader[f] EXCEPT !.at = "read"]
                ELSE [reader[f] EXCEPT !.at = "sweep", !.slot = 0]
<1>1. reader[f] \in ReaderRecords
  BY ReaderIs
<1>2. r \in ReaderRecords /\ (keepreading => r.at = "read") /\ (~keepreading => r.at = "sweep")
  <2>1. 0 \in Mutexes
    BY Sizes DEF Mutexes
  <2>2. CASE keepreading
    <3>1. r = [reader[f] EXCEPT !.at = "read"]
      BY <2>2
    <3> QED BY <1>1, <2>2, <3>1 DEF ReaderRecords, ReaderStates
  <2>3. CASE ~keepreading
    <3>1. r = [reader[f] EXCEPT !.at = "sweep", !.slot = 0]
      BY <2>3
    <3> QED BY <1>1, <2>1, <2>3, <3>1 DEF ReaderRecords, ReaderStates
  <2> QED BY <2>2, <2>3
<1>3. reader' = [reader EXCEPT ![f] = r] /\ reader[f].at = "begin"
  BY DEF BeginReading
<1> HIDE DEF r
<1>4. OthersStay(f) /\ reader'[f] = r
  BY <1>2, <1>3, ReaderChanges DEF OthersStay
<1>5. /\ ReaderLeaves
      /\ UNCHANGED <<slotMutexOwner, lastslot, endindex, readbuffer, readbufferwriteslot, position>>
  BY DEF BeginReading, ReaderLeaves, locks
<1> QED BY <1>2, <1>3, <1>4, <1>5

\* What a read gets
Left == IF position < Units THEN Units - position ELSE 0
Got == IF Left < SlotUnits THEN Left ELSE SlotUnits

LEMMA ReadSlotDoes ==
    ASSUME TypeOK, NEW f \in 1 .. NumFiles, ReadSlot(f)
    PROVE  /\ ReaderLeaves /\ OthersStay(f) /\ UNCHANGED <<slotMutexOwner, endindex>>
           /\ reader[f].at = "read"
           /\ readbuffer' = [x \in DOMAIN readbuffer |->
                               IF x \in Place(readbufferwriteslot)
                                           .. Place(readbufferwriteslot) + Got - 1
                               THEN [file |-> file, unit |-> position + x - Place(readbufferwriteslot)]
                               ELSE readbuffer[x]]
           /\ position' = position + Got
           /\ reader'[f].slot = readbufferwriteslot /\ reader'[f].got = Got
           /\ Got < SlotUnits => /\ reader'[f].at = "short" /\ lastslot' = readbufferwriteslot
                                 /\ readbufferwriteslot' = readbufferwriteslot
           /\ ~(Got < SlotUnits) => /\ reader'[f].at = "lock" /\ lastslot' = lastslot
                                    /\ readbufferwriteslot' = NextSlot(readbufferwriteslot)
<1> DEFINE r == IF Got < SlotUnits
                THEN [at |-> "short", got |-> Got, slot |-> readbufferwriteslot]
                ELSE [at |-> "lock", got |-> Got, slot |-> readbufferwriteslot]
<1>1. Got \in 0 .. SlotUnits
  BY FilesAre, NumbersAre, Sizes DEF Got, Left
<1>2. readbufferwriteslot \in Mutexes
  BY NumbersAre, Sizes DEF Mutexes
<1>3. r \in ReaderRecords
  BY <1>1, <1>2 DEF ReaderRecords, ReaderStates
<1>4. r.slot = readbufferwriteslot /\ r.got = Got /\ (Got < SlotUnits => r.at = "short")
         /\ (~(Got < SlotUnits) => r.at = "lock")
  OBVIOUS
<1>5. /\ reader' = [reader EXCEPT ![f] = r] /\ position' = position + Got
      /\ Got < SlotUnits => /\ lastslot' = readbufferwriteslot
                            /\ readbufferwriteslot' = readbufferwriteslot
      /\ ~(Got < SlotUnits) => /\ lastslot' = lastslot
                               /\ readbufferwriteslot' = NextSlot(readbufferwriteslot)
      /\ reader[f].at = "read"
  BY DEF ReadSlot, Got, Left
<1>6. readbuffer' = [x \in DOMAIN readbuffer |->
                       IF x \in Place(readbufferwriteslot)
                                   .. Place(readbufferwriteslot) + Got - 1
                       THEN [file |-> file, unit |-> position + x - Place(readbufferwriteslot)]
                       ELSE readbuffer[x]]
  BY DEF ReadSlot, Got, Left, Place
<1>7. ReaderLeaves /\ UNCHANGED <<slotMutexOwner, endindex>>
  BY DEF ReadSlot, ReaderLeaves, locks
<1> HIDE DEF r
<1>8. OthersStay(f) /\ reader'[f] = r
  BY <1>3, <1>5, ReaderChanges DEF OthersStay
<1> QED BY <1>4, <1>5, <1>6, <1>7, <1>8

LEMMA SetEndDoes ==
    ASSUME TypeOK, Readers, NEW f \in 1 .. NumFiles, SetEnd(f)
    PROVE  /\ ReaderLeaves /\ OthersStay(f)
           /\ UNCHANGED <<slotMutexOwner, lastslot, readbuffer, position>>
           /\ reader[f].at = "short" /\ reader'[f].at = "last"
           /\ reader'[f].slot = reader[f].slot /\ reader'[f].got = reader[f].got
           /\ endindex' = Place(lastslot) + reader[f].got
           /\ readbufferwriteslot' = NextSlot(readbufferwriteslot)
<1> DEFINE r == [reader[f] EXCEPT !.at = "last"]
<1>1. reader[f] \in ReaderRecords
  BY ReaderIs
<1>2. r \in ReaderRecords /\ r.at = "last" /\ r.slot = reader[f].slot /\ r.got = reader[f].got
  BY <1>1 DEF ReaderRecords, ReaderStates
<1>3. reader' = [reader EXCEPT ![f] = r]
  <2>1. reader[f].at = "short" /\ readbufferwriteslot = reader[f].slot
    BY DEF SetEnd, Readers
  <2>2. [reader[f] EXCEPT !.at = "last", !.slot = readbufferwriteslot] = r
    BY <1>1, <2>1 DEF ReaderRecords
  <2> QED BY <2>2 DEF SetEnd
<1> HIDE DEF r
<1>4. OthersStay(f) /\ reader'[f] = r
  BY <1>2, <1>3, ReaderChanges DEF OthersStay
<1>5. ReaderLeaves /\ UNCHANGED <<slotMutexOwner, lastslot, readbuffer, position>>
  BY DEF SetEnd, ReaderLeaves, locks
<1>6. /\ reader[f].at = "short" /\ endindex' = Place(lastslot) + reader[f].got
      /\ readbufferwriteslot' = NextSlot(readbufferwriteslot)
  BY DEF SetEnd, Place
<1> QED BY <1>2, <1>4, <1>5, <1>6

LEMMA AdvanceSlotDoes ==
    ASSUME TypeOK, Readers, mishaps' = {}, NEW f \in 1 .. NumFiles, AdvanceSlot(f)
    PROVE  /\ ReaderLeaves /\ OthersStay(f)
           /\ UNCHANGED <<lastslot, endindex, readbuffer, readbufferwriteslot, position>>
           /\ reader[f].at \in {"lock", "last"} /\ CanLock(readbufferwriteslot)
           /\ lockstart # -1 \/ readbufferwriteslot # 1
           /\ slotMutexOwner' = unlockSlots(lockSlot(slotMutexOwner, readbufferwriteslot, 2),
                                            reader[f].slot, reader[f].slot)
           /\ reader[f].at = "lock" /\ keepreading => reader'[f].at = "read"
           /\ ~(reader[f].at = "lock" /\ keepreading) => reader'[f].at = "sweep"
<1> DEFINE r == IF reader[f].at = "lock" /\ keepreading THEN [reader[f] EXCEPT !.at = "read"]
                ELSE [reader[f] EXCEPT !.at = "sweep", !.slot = 0]
<1>1. reader[f] \in ReaderRecords
  BY ReaderIs
<1>2. r \in ReaderRecords /\ (reader[f].at = "lock" /\ keepreading => r.at = "read")
         /\ (~(reader[f].at = "lock" /\ keepreading) => r.at = "sweep")
  <2>1. 0 \in Mutexes
    BY Sizes DEF Mutexes
  <2>2. CASE reader[f].at = "lock" /\ keepreading
    <3>1. r = [reader[f] EXCEPT !.at = "read"]
      BY <2>2
    <3> QED BY <1>1, <2>2, <3>1 DEF ReaderRecords, ReaderStates
  <2>3. CASE ~(reader[f].at = "lock" /\ keepreading)
    <3>1. r = [reader[f] EXCEPT !.at = "sweep", !.slot = 0]
      BY <2>3
    <3> QED BY <1>1, <2>1, <2>3, <3>1 DEF ReaderRecords, ReaderStates
  <2> QED BY <2>2, <2>3
<1>3. reader' = [reader EXCEPT ![f] = r]
  BY DEF AdvanceSlot
<1> HIDE DEF r
<1>4. OthersStay(f) /\ reader'[f] = r
  BY <1>2, <1>3, ReaderChanges DEF OthersStay
<1>5. /\ ReaderLeaves
      /\ UNCHANGED <<lastslot, endindex, readbuffer, readbufferwriteslot, position>>
      /\ reader[f].at \in {"lock", "last"} /\ CanLock(readbufferwriteslot)
      /\ lockstart # -1 \/ readbufferwriteslot # 1
      /\ slotMutexOwner' = unlockSlots(lockSlot(slotMutexOwner, readbufferwriteslot, 2),
                                       reader[f].slot, reader[f].slot)
  <2>1. readbufferwriteslot = NextSlot(reader[f].slot)
    BY DEF AdvanceSlot, Readers
  <2>2. lockstart # -1 \/ NextSlot(reader[f].slot) # 1
    BY DEF AdvanceSlot, Mishap
  <2> QED BY <2>1, <2>2 DEF AdvanceSlot, ReaderLeaves
<1> QED BY <1>2, <1>4, <1>5

LEMMA SweepDoes ==
    ASSUME TypeOK, NEW f \in 1 .. NumFiles, Sweep(f)
    PROVE  /\ ReaderLeaves /\ OthersStay(f)
           /\ UNCHANGED <<lastslot, endindex, readbuffer, readbufferwriteslot, position>>
           /\ reader[f].at = "sweep" /\ reader'[f].at \in {"sweep", "end"}
           /\ slotMutexOwner' \in [Mutexes -> {0, 1, 2}]
           /\ \A m \in Mutexes : slotMutexOwner'[m] # slotMutexOwner[m] =>
                 slotMutexOwner[m] = 2 /\ slotMutexOwner'[m] = 0
<1> DEFINE r == IF reader[f].slot = Slots - 1 THEN [reader[f] EXCEPT !.at = "end"]
                ELSE [reader[f] EXCEPT !.slot = reader[f].slot + 1]
<1>1. reader[f] \in ReaderRecords /\ reader[f].slot \in 0 .. lockmod
  BY ReaderIs
<1>2. reader[f].at = "sweep" /\ reader' = [reader EXCEPT ![f] = r]
  BY DEF Sweep
<1>3. r \in ReaderRecords /\ r.at \in {"sweep", "end"}
  <2>1. CASE reader[f].slot = Slots - 1
    BY <1>1, <2>1 DEF ReaderRecords, ReaderStates
  <2>2. CASE reader[f].slot # Slots - 1
    <3>1. reader[f].slot + 1 \in Mutexes
      BY <1>1, <2>2, Sizes DEF Mutexes
    <3> QED BY <1>1, <1>2, <2>2, <3>1 DEF ReaderRecords, ReaderStates
  <2> QED BY <2>1, <2>2
<1> HIDE DEF r
<1>4. OthersStay(f) /\ reader'[f] = r
  BY <1>2, <1>3, ReaderChanges DEF OthersStay
<1>5. /\ ReaderLeaves
      /\ UNCHANGED <<lastslot, endindex, readbuffer, readbufferwriteslot, position>>
  BY DEF Sweep, ReaderLeaves
<1>6. /\ slotMutexOwner' \in [Mutexes -> {0, 1, 2}]
      /\ \A m \in Mutexes : slotMutexOwner'[m] # slotMutexOwner[m] =>
            slotMutexOwner[m] = 2 /\ slotMutexOwner'[m] = 0
  <2>1. slotMutexOwner \in [Mutexes -> {0, 1, 2}] /\ reader[f].slot \in Mutexes
    BY <1>1, Sizes DEF TypeOK, Mutexes
  <2>2. slotMutexOwner' = [slotMutexOwner EXCEPT ![reader[f].slot] = IF @ = 2 THEN 0 ELSE @]
    BY DEF Sweep
  <2> QED BY <2>1, <2>2
<1> QED BY <1>2, <1>3, <1>4, <1>5, <1>6
-------------------------------------------------------------------------------
(* A step of a reader keeps the types, the locks and the phases.               *)

\* There is one reader at a time.
LEMMA Alone ==
    ASSUME TypeOK, Readers, NEW f \in 1 .. NumFiles, reader[f].at \notin {"none", "end"}
    PROVE  /\ \A g \in 1 .. NumFiles : g # f => reader[g].at \in {"none", "end"}
           /\ f = file \/ (file = NumFiles + 1 /\ f = NumFiles)
           /\ Reading => f = file
<1>1. NumFiles \in Nat
  BY FilesAre
<1> QED BY <1>1 DEF Readers, Reading, Wanted

\* What is to be shown of the step of a reader.
LEMMA ReaderStepTypes ==
    ASSUME TypeOK, ReaderLeaves, NEW f \in 1 .. NumFiles, OthersStay(f),
           slotMutexOwner' \in [Mutexes -> {0, 1, 2}], position' \in Nat,
           lastslot' \in -2 .. Slots - 1, endindex' \in 0 .. BufferUnits - 1,
           DOMAIN readbuffer' = DOMAIN readbuffer, readbufferwriteslot' \in 1 .. Slots - 1
    PROVE  TypeOK'
<1> USE DEF ReaderLeaves
<1>1. NumFiles' = NumFiles
  BY DEF NumFiles
<1>2. reader' \in [1 .. NumFiles' -> ReaderRecords]
  BY <1>1 DEF OthersStay
<1> QED BY <1>1, <1>2 DEF TypeOK, ReaderRecords, ReaderStates

LEMMA ReaderStepLocks ==
    ASSUME TypeOK, Readers, Consumers, Phases, ReaderLeaves, NEW f \in 1 .. NumFiles, OthersStay(f),
           reader[f].at \notin {"none", "end"},
           Active(f)' => Held(f)' \in 1 .. lockmod /\ slotMutexOwner'[MutexOf(Held(f)')] = 2,
           reader'[f].at \in {"lock", "last"} => readbufferwriteslot' = NextSlot(reader'[f].slot),
           reader'[f].at \in {"short", "last"} => lastslot' = reader'[f].slot,
           reader'[f].at = "short" => /\ readbufferwriteslot' = reader'[f].slot
                                      /\ reader'[f].got < SlotUnits,
           \A m \in Mutexes : slotMutexOwner'[m] = 1 <=> slotMutexOwner[m] = 1
    PROVE  Readers' /\ Consumers' /\ Phases' /\ (AllTaken => AllTaken')
<1>1. NumFiles' = NumFiles /\ Units' = Units /\ (Wanted' <=> Wanted) /\ file' = file
  BY DEF NumFiles, Units, Wanted, ReaderLeaves
<1>2. /\ \A g \in 1 .. NumFiles : g # f => reader[g].at \in {"none", "end"}
      /\ f = file \/ (file = NumFiles + 1 /\ f = NumFiles)
  BY Alone
<1>3. \A g \in 1 .. NumFiles : g # f => reader'[g].at \in {"none", "end"}
  BY <1>2 DEF OthersStay
<1>4. Readers'
  <2> SUFFICES ASSUME NEW g \in 1 .. NumFiles
               PROVE  /\ reader'[g].at \notin {"none", "end"} =>
                            g = file' \/ (file' = NumFiles' + 1 /\ g = NumFiles')
                      /\ Active(g)' => /\ Held(g)' \in 1 .. lockmod
                                       /\ slotMutexOwner'[MutexOf(Held(g)')] = 2
                      /\ reader'[g].at \in {"lock", "last"} =>
                            readbufferwriteslot' = NextSlot(reader'[g].slot)
                      /\ reader'[g].at \in {"short", "last"} => lastslot' = reader'[g].slot
                      /\ reader'[g].at = "short" => /\ readbufferwriteslot' = reader'[g].slot
                                                    /\ reader'[g].got < SlotUnits
    BY <1>1 DEF Readers, MutexOf, NextSlot
  <2>1. CASE g = f
    BY <1>1, <1>2, <2>1
  <2>2. CASE g # f
    <3>1. reader'[g].at \in {"none", "end"}
      BY <1>3, <2>2
    <3> QED BY <3>1 DEF Active
  <2> QED BY <2>1, <2>2
<1>5. Consumers'
  BY DEF Consumers, HasSlots, ReaderLeaves, MutexOf
<1>6. Phases'
  <2>1. pc # "start"
    BY DEF Phases
  <2> QED BY <1>1, <2>1 DEF Phases, ReaderLeaves
<1>7. AllTaken => AllTaken'
  BY <1>1 DEF AllTaken, ReaderLeaves
<1> QED BY <1>4, <1>5, <1>6, <1>7

BasicInv == TypeOK /\ Readers /\ Consumers /\ Phases /\ AllTaken

LEMMA BeginReadingBasic ==
    ASSUME BasicInv, NEW f \in 1 .. NumFiles, BeginReading(f)
    PROVE  BasicInv'
<1>1. TypeOK /\ Readers /\ Consumers /\ Phases /\ AllTaken
  BY DEF BasicInv
<1>2. /\ ReaderLeaves /\ OthersStay(f)
      /\ UNCHANGED <<slotMutexOwner, lastslot, endindex, readbuffer, readbufferwriteslot, position>>
      /\ reader[f].at = "begin" /\ reader'[f].at \in {"read", "sweep"}
  BY <1>1, BeginReadingDoes
<1>3. TypeOK'
  <2>1. /\ slotMutexOwner' \in [Mutexes -> {0, 1, 2}] /\ position' \in Nat
        /\ lastslot' \in -2 .. Slots - 1 /\ endindex' \in 0 .. BufferUnits - 1
        /\ DOMAIN readbuffer' = DOMAIN readbuffer /\ readbufferwriteslot' \in 1 .. Slots - 1
    BY <1>1, <1>2 DEF TypeOK
  <2> QED BY <1>1, <1>2, <2>1, ReaderStepTypes
<1>4. Active(f)' => Held(f)' \in 1 .. lockmod /\ slotMutexOwner'[MutexOf(Held(f)')] = 2
  BY <1>1, <1>2 DEF Readers, Active, Held, MutexOf
<1>5. Readers' /\ Consumers' /\ Phases' /\ AllTaken'
  BY <1>1, <1>2, <1>4, ReaderStepLocks
<1> QED BY <1>3, <1>5 DEF BasicInv

LEMMA ReadSlotBasic ==
    ASSUME BasicInv, NEW f \in 1 .. NumFiles, ReadSlot(f)
    PROVE  BasicInv'
<1>1. TypeOK /\ Readers /\ Consumers /\ Phases /\ AllTaken
  BY DEF BasicInv
<1>2. /\ ReaderLeaves /\ OthersStay(f) /\ UNCHANGED <<slotMutexOwner, endindex>>
      /\ reader[f].at = "read" /\ DOMAIN readbuffer' = DOMAIN readbuffer
      /\ position' = position + Got
      /\ reader'[f].slot = readbufferwriteslot /\ reader'[f].got = Got
      /\ Got < SlotUnits => /\ reader'[f].at = "short" /\ lastslot' = readbufferwriteslot
                            /\ readbufferwriteslot' = readbufferwriteslot
      /\ ~(Got < SlotUnits) => /\ reader'[f].at = "lock" /\ lastslot' = lastslot
                               /\ readbufferwriteslot' = NextSlot(readbufferwriteslot)
  BY <1>1, ReadSlotDoes
<1>3. Got \in Nat
  BY <1>1, FilesAre, NumbersAre, Sizes DEF Got, Left
<1>4. readbufferwriteslot \in 1 .. lockmod /\ NextSlot(readbufferwriteslot) \in 1 .. lockmod
  BY <1>1, NumbersAre, NextSlotIs
<1>5. TypeOK'
  <2>1. slotMutexOwner' \in [Mutexes -> {0, 1, 2}] /\ endindex' \in 0 .. BufferUnits - 1
    BY <1>1, <1>2 DEF TypeOK
  <2>2. position' \in Nat
    BY <1>1, <1>2, <1>3, NumbersAre
  <2>3. lastslot' \in -2 .. Slots - 1 /\ readbufferwriteslot' \in 1 .. Slots - 1
    <3>1. lastslot \in -2 .. Slots - 1
      BY <1>1 DEF TypeOK
    <3> QED BY <1>2, <1>4, <3>1, Sizes
  <2> QED BY <1>1, <1>2, <2>1, <2>2, <2>3, ReaderStepTypes
<1>6. Active(f)' => Held(f)' \in 1 .. lockmod /\ slotMutexOwner'[MutexOf(Held(f)')] = 2
  <2>1. Held(f)' = readbufferwriteslot /\ Held(f) = readbufferwriteslot /\ Active(f)
    BY <1>2 DEF Active, Held
  <2> QED BY <1>1, <1>2, <2>1 DEF Readers
<1>7. Readers' /\ Consumers' /\ Phases' /\ AllTaken'
  BY <1>1, <1>2, <1>6, ReaderStepLocks
<1> QED BY <1>5, <1>7 DEF BasicInv

LEMMA SetEndBasic ==
    ASSUME BasicInv, NEW f \in 1 .. NumFiles, SetEnd(f)
    PROVE  BasicInv'
<1>1. TypeOK /\ Readers /\ Consumers /\ Phases /\ AllTaken
  BY DEF BasicInv
<1>2. /\ ReaderLeaves /\ OthersStay(f) /\ UNCHANGED <<slotMutexOwner, lastslot, readbuffer, position>>
      /\ reader[f].at = "short" /\ reader'[f].at = "last"
      /\ reader'[f].slot = reader[f].slot /\ reader'[f].got = reader[f].got
      /\ endindex' = Place(lastslot) + reader[f].got
      /\ readbufferwriteslot' = NextSlot(readbufferwriteslot)
  BY <1>1, SetEndDoes
<1>3. readbufferwriteslot \in 1 .. lockmod /\ NextSlot(readbufferwriteslot) \in 1 .. lockmod
  BY <1>1, NumbersAre, NextSlotIs
<1>4. readbufferwriteslot = reader[f].slot /\ lastslot = reader[f].slot /\ reader[f].got < SlotUnits
  BY <1>1, <1>2 DEF Readers
<1>5. TypeOK'
  <2>1. /\ slotMutexOwner' \in [Mutexes -> {0, 1, 2}] /\ position' \in Nat
        /\ lastslot' \in -2 .. Slots - 1 /\ DOMAIN readbuffer' = DOMAIN readbuffer
    BY <1>1, <1>2 DEF TypeOK
  <2>2. endindex' \in 0 .. BufferUnits - 1
    <3>1. lastslot \in 0 .. lockmod /\ reader[f].got \in Nat
      BY <1>1, <1>3, <1>4, ReaderIs
    <3> QED BY <1>2, <1>4, <3>1, InBuffer
  <2>3. readbufferwriteslot' \in 1 .. Slots - 1
    BY <1>2, <1>3, Sizes
  <2> QED BY <1>1, <1>2, <2>1, <2>2, <2>3, ReaderStepTypes
<1>6. Active(f)' => Held(f)' \in 1 .. lockmod /\ slotMutexOwner'[MutexOf(Held(f)')] = 2
  <2>1. Held(f)' = reader[f].slot /\ Held(f) = reader[f].slot /\ Active(f)
    BY <1>2 DEF Active, Held
  <2> QED BY <1>1, <1>2, <2>1 DEF Readers
<1>7. Readers' /\ Consumers' /\ Phases' /\ AllTaken'
  BY <1>1, <1>2, <1>4, <1>6, ReaderStepLocks
<1> QED BY <1>5, <1>7 DEF BasicInv

LEMMA AdvanceSlotBasic ==
    ASSUME mishaps' = {}, BasicInv, NEW f \in 1 .. NumFiles, AdvanceSlot(f)
    PROVE  BasicInv'
<1>1. TypeOK /\ Readers /\ Consumers /\ Phases /\ AllTaken
  BY DEF BasicInv
<1>2. /\ ReaderLeaves /\ OthersStay(f)
      /\ UNCHANGED <<lastslot, endindex, readbuffer, readbufferwriteslot, position>>
      /\ reader[f].at \in {"lock", "last"} /\ CanLock(readbufferwriteslot)
      /\ slotMutexOwner' = unlockSlots(lockSlot(slotMutexOwner, readbufferwriteslot, 2),
                                       reader[f].slot, reader[f].slot)
      /\ reader'[f].at \in {"read", "sweep"}
  BY <1>1, AdvanceSlotDoes
<1> DEFINE ws == readbufferwriteslot
           rs == reader[f].slot
           owners == lockSlot(slotMutexOwner, ws, 2)
<1>3. ws \in Nat /\ ws \in 1 .. lockmod
  BY <1>1, NumbersAre
<1>4. rs \in Nat /\ slotMutexOwner[MutexOf(rs)] = 2 /\ rs \in 1 .. lockmod
  BY <1>1, <1>2, ReaderIs DEF Readers, Active, Held
<1>5. slotMutexOwner \in [Mutexes -> {0, 1, 2}]
  BY <1>1 DEF TypeOK
<1>6. /\ owners \in [Mutexes -> {0, 1, 2}] /\ owners[MutexOf(ws)] = 2
      /\ \A m \in Mutexes : m # MutexOf(ws) => owners[m] = slotMutexOwner[m]
  BY <1>3, <1>5, LockedType
<1>7. slotMutexOwner[MutexOf(ws)] = 0
  BY <1>2 DEF CanLock
<1>8. MutexOf(ws) \in Mutexes /\ MutexOf(rs) \in Mutexes
  BY <1>3, <1>4, MutexIs
<1> HIDE DEF owners
<1>9. /\ slotMutexOwner' \in [Mutexes -> {0, 1, 2}]
      /\ \A m \in Mutexes : slotMutexOwner'[m] = IF m = MutexOf(rs) THEN 0 ELSE owners[m]
  <2>1. slotMutexOwner' = unlockSlots(owners, rs, rs)
    BY <1>2 DEF owners
  <2>2. \A m \in Mutexes : (\E slot \in rs .. rs : m = MutexOf(slot)) <=> m = MutexOf(rs)
    BY <1>4
  <2>3. /\ unlockSlots(owners, rs, rs) \in [Mutexes -> {0, 1, 2}]
        /\ \A m \in Mutexes : unlockSlots(owners, rs, rs)[m] =
              IF \E slot \in rs .. rs : m = MutexOf(slot) THEN 0 ELSE owners[m]
    BY <1>6 DEF unlockSlots
  <2> QED BY <2>1, <2>2, <2>3
<1>10. TypeOK'
  <2>1. /\ position' \in Nat /\ lastslot' \in -2 .. Slots - 1 /\ endindex' \in 0 .. BufferUnits - 1
        /\ DOMAIN readbuffer' = DOMAIN readbuffer /\ readbufferwriteslot' \in 1 .. Slots - 1
    BY <1>1, <1>2 DEF TypeOK
  <2> QED BY <1>1, <1>2, <1>9, <2>1, ReaderStepTypes
<1>11. Active(f)' => Held(f)' \in 1 .. lockmod /\ slotMutexOwner'[MutexOf(Held(f)')] = 2
  <2>1. Active(f)' => Held(f)' = ws
    BY <1>2 DEF Active, Held
  <2>2. slotMutexOwner'[MutexOf(ws)] = 2
    BY <1>4, <1>6, <1>7, <1>8, <1>9
  <2> QED BY <1>3, <2>1, <2>2
<1>12. \A m \in Mutexes : slotMutexOwner'[m] = 1 <=> slotMutexOwner[m] = 1
  BY <1>4, <1>6, <1>7, <1>8, <1>9
<1>13. Readers' /\ Consumers' /\ Phases' /\ AllTaken'
  BY <1>1, <1>2, <1>11, <1>12, ReaderStepLocks
<1> QED BY <1>10, <1>13 DEF BasicInv

LEMMA SweepBasic ==
    ASSUME BasicInv, NEW f \in 1 .. NumFiles, Sweep(f)
    PROVE  BasicInv'
<1>1. TypeOK /\ Readers /\ Consumers /\ Phases /\ AllTaken
  BY DEF BasicInv
<1>2. /\ ReaderLeaves /\ OthersStay(f)
      /\ UNCHANGED <<lastslot, endindex, readbuffer, readbufferwriteslot, position>>
      /\ reader[f].at = "sweep" /\ reader'[f].at \in {"sweep", "end"}
      /\ slotMutexOwner' \in [Mutexes -> {0, 1, 2}]
      /\ \A m \in Mutexes : slotMutexOwner'[m] # slotMutexOwner[m] =>
            slotMutexOwner[m] = 2 /\ slotMutexOwner'[m] = 0
  BY <1>1, SweepDoes
<1>3. TypeOK'
  <2>1. /\ position' \in Nat /\ lastslot' \in -2 .. Slots - 1 /\ endindex' \in 0 .. BufferUnits - 1
        /\ DOMAIN readbuffer' = DOMAIN readbuffer /\ readbufferwriteslot' \in 1 .. Slots - 1
    BY <1>1, <1>2 DEF TypeOK
  <2> QED BY <1>1, <1>2, <2>1, ReaderStepTypes
<1>4. ~Active(f)'
  BY <1>2 DEF Active
<1>5. Readers' /\ Consumers' /\ Phases' /\ AllTaken'
  BY <1>1, <1>2, <1>4, ReaderStepLocks
<1> QED BY <1>3, <1>5 DEF BasicInv
-------------------------------------------------------------------------------
(* A step of a reader, and the file that is read.                              *)

Where(c, d) == ConsumerAt(c) /\ ReaderAt(d) /\ Behind(c, d) /\ WindowAt(c, d)

\* What vdifmux is shown begins and ends in slots that the consumer has locked.
LEMMA WindowLocked ==
    ASSUME BasicInv, Reading, NEW c \in Rounds, NEW d \in Rounds, ConsumerAt(c), WindowAt(c, d),
           pc = "mux"
    PROVE  /\ lockstart \in Nat /\ lockstart <= n2 /\ n2 <= lockend
           /\ slotMutexOwner[MutexOf(n2)] = 1
<1>1. TypeOK /\ Consumers /\ Phases
  BY DEF BasicInv
<1>2. lockstart \in Nat /\ lockend \in Int /\ n2 \in Nat /\ muxindex \in Nat
  BY <1>1, NumbersAre DEF Phases
<1>3. /\ Place(lockstart) <= muxindex /\ muxindex < Place(n2 + 1) /\ n2 <= lockend
  BY <1>2 DEF ConsumerAt, WindowAt
<1>4. Place(lockstart) < Place(n2) + SlotUnits
  BY <1>2, <1>3, PlaceIs, Sizes
<1>5. lockstart <= n2
  BY <1>2, <1>4, PlaceOrder
<1>6. n2 \in lockstart .. lockend /\ MutexOf(n2) \in Mutexes
  BY <1>2, <1>3, <1>5, MutexIs
<1>7. HasSlots
  BY <1>2 DEF HasSlots
<1> QED BY <1>1, <1>2, <1>3, <1>5, <1>6, <1>7 DEF Consumers

\* No reader holds the last of them.
LEMMA WindowNotHeld ==
    ASSUME BasicInv, Reading, NEW c \in Rounds, NEW d \in Rounds, ConsumerAt(c), WindowAt(c, d),
           pc = "mux", Active(file)
    PROVE  Held(file) # n2
<1>1. slotMutexOwner[MutexOf(n2)] = 1
  BY WindowLocked
<1>2. file \in 1 .. NumFiles
  BY DEF Reading, Wanted
<1>3. slotMutexOwner[MutexOf(Held(file))] = 2
  BY <1>2 DEF BasicInv, Readers
<1> QED BY <1>1, <1>3

\* A step of a reader leaves the consumer where it is.
LEMMA ReaderStepConsumer ==
    ASSUME ReaderLeaves, NEW c \in Rounds, ConsumerAt(c), lockstart = lockmod => lastslot' = lockmod
    PROVE  ConsumerAt(c)'
  BY DEF ReaderLeaves, ConsumerAt, Place

\* The end of what vdifmux is shown stays where it is if a reader ends elsewhere.
LEMMA ReaderStepEnd ==
    ASSUME ReaderLeaves, muxend = EndOfSlots, lastslot = n2 => lastslot' = n2 /\ endindex' = endindex,
           lastslot' = n2 => lastslot = n2
    PROVE  muxend' = EndOfSlots'
  BY DEF ReaderLeaves, EndOfSlots

LEMMA ReadingStays ==
    ASSUME ReaderLeaves
    PROVE  /\ Reading' <=> Reading
           /\ Units' = Units /\ file' = file
  BY DEF ReaderLeaves, Reading, Wanted, Units, NumFiles

LEMMA BeginReadingFile ==
    ASSUME BasicInv, Reading, FileInv, BeginReading(file)
    PROVE  FileInv'
<1>1. TypeOK /\ file \in 1 .. NumFiles
  BY DEF BasicInv, Reading, Wanted
<1>2. /\ ReaderLeaves
      /\ UNCHANGED <<slotMutexOwner, lastslot, endindex, readbuffer, readbufferwriteslot, position>>
      /\ reader[file].at = "begin"
      /\ keepreading => reader'[file].at = "read"
      /\ ~keepreading => reader'[file].at = "sweep"
  BY <1>1, BeginReadingDoes
<1>3. file' = file /\ Units' = Units
  BY <1>2, ReadingStays
<1>4. PICK c \in Rounds, d \in Rounds : Where(c, d)
  BY DEF FileInv, Where
<1>5. ConsumerAt(c) /\ ReaderAt(d) /\ Behind(c, d) /\ WindowAt(c, d)
  BY <1>4 DEF Where
<1>6. lastslot = -1
  BY <1>2, <1>5 DEF ReaderAt
<1>7. ConsumerAt(c)'
  BY <1>2, <1>5, Sizes, ReaderStepConsumer DEF ConsumerAt
<1>8. ReaderAt(d)'
  BY <1>2, <1>3, <1>5, <1>6 DEF ReaderAt, AtEnd, Stopped, ReaderLeaves, Place
<1>9. Active(file) /\ Held(file) = readbufferwriteslot /\ ~AtEnd /\ ~AtEnd'
  BY <1>2, <1>3, <1>6 DEF Active, Held, AtEnd
<1>10. Active(file)' => Held(file)' = readbufferwriteslot
  BY <1>2, <1>3 DEF Active, Held
<1>11. Behind(c, d)'
  BY <1>2, <1>5, <1>9, <1>10 DEF Behind, FirstOf, ReaderLeaves
<1>12. WindowAt(c, d)'
  BY <1>2, <1>5, <1>9, <1>10 DEF WindowAt, ReaderLeaves, EndOfSlots, Place
<1>13. GoesOn' /\ InRing' /\ InSlotZero'
  <2>1. ~(lockstart >= 0 /\ ~dataremaining /\ keepreading)
    BY <1>9 DEF FileInv, GoesOn
  <2>2. GoesOn'
    BY <1>2, <2>1 DEF GoesOn, ReaderLeaves
  <2>3. InRing' /\ InSlotZero'
    BY <1>2, <1>3 DEF FileInv, InRing, InSlotZero, ReaderLeaves, Round, Place
  <2> QED BY <2>2, <2>3
<1> QED BY <1>7, <1>8, <1>11, <1>12, <1>13 DEF FileInv

LEMMA SetEndFile ==
    ASSUME BasicInv, Reading, FileInv, SetEnd(file)
    PROVE  FileInv'
<1>1. TypeOK /\ Readers /\ file \in 1 .. NumFiles
  BY DEF BasicInv, Reading, Wanted
<1>2. /\ ReaderLeaves /\ UNCHANGED <<slotMutexOwner, lastslot, readbuffer, position>>
      /\ reader[file].at = "short" /\ reader'[file].at = "last"
      /\ reader'[file].slot = reader[file].slot /\ reader'[file].got = reader[file].got
      /\ endindex' = Place(lastslot) + reader[file].got
  BY <1>1, SetEndDoes
<1>3. file' = file /\ Units' = Units
  BY <1>2, ReadingStays
<1>4. PICK c \in Rounds, d \in Rounds : Where(c, d)
  BY DEF FileInv, Where
<1>5. ConsumerAt(c) /\ ReaderAt(d) /\ Behind(c, d) /\ WindowAt(c, d)
  BY <1>4 DEF Where
<1>6. /\ lastslot = reader[file].slot /\ reader[file].got < SlotUnits
      /\ lastslot \in Nat /\ reader[file].got \in Nat
  BY <1>1, <1>2, ReaderIs DEF Readers
<1>7. ConsumerAt(c)'
  BY <1>2, <1>5, Sizes, ReaderStepConsumer DEF ConsumerAt
<1>8. ReaderAt(d)'
  <2>1. Units + SlotUnits = Place(lastslot + d) + reader[file].got
    BY <1>2, <1>5, <1>6 DEF ReaderAt
  <2>2. d \in Nat /\ Place(lastslot + d) = Place(lastslot) + Place(d)
           /\ Place(lastslot + 1) = Place(lastslot) + SlotUnits
           /\ Place(lastslot) \in Nat /\ Place(d) \in Nat
    <3>1. d \in Nat /\ lastslot \in Nat
      BY <1>6, RoundsAre
    <3> QED BY <3>1, PlaceIs, PlaceSum
  <2>3. /\ Units + SlotUnits = endindex' + Place(d)
        /\ Place(lastslot) <= endindex' /\ endindex' < Place(lastslot + 1)
    BY <1>2, <1>6, <2>1, <2>2, Sizes
  <2>4. position <= Units /\ (lastslot >= 0 => lastslot >= 1 /\ position = Units)
    BY <1>5 DEF ReaderAt
  <2>5. ~Stopped'
    BY <1>2, <1>3 DEF Stopped
  <2> QED BY <1>2, <1>3, <2>3, <2>4, <2>5 DEF ReaderAt, Place
<1>9. /\ Active(file) /\ Active(file)' /\ Held(file) = reader[file].slot
      /\ Held(file)' = reader[file].slot /\ ~AtEnd /\ ~AtEnd'
  BY <1>2, <1>3 DEF Active, Held, AtEnd
<1>10. Behind(c, d)'
  BY <1>2, <1>5, <1>9 DEF Behind, FirstOf, ReaderLeaves
<1>11. WindowAt(c, d)'
  <2>1. pc = "mux" => muxend' = EndOfSlots'
    <3>1. pc = "mux" => lastslot # n2
      BY <1>5, <1>6, <1>9, WindowNotHeld
    <3> QED BY <1>2, <1>5, <3>1, ReaderStepEnd DEF WindowAt
  <2> QED BY <1>2, <1>5, <1>9, <2>1 DEF WindowAt, ReaderLeaves, Place
<1>12. GoesOn' /\ InRing' /\ InSlotZero'
  <2>1. ~(lockstart >= 0 /\ ~dataremaining /\ keepreading)
    BY <1>9 DEF FileInv, GoesOn
  <2>2. GoesOn'
    BY <1>2, <2>1 DEF GoesOn, ReaderLeaves
  <2>3. InRing' /\ InSlotZero'
    BY <1>2, <1>3 DEF FileInv, InRing, InSlotZero, ReaderLeaves, Round, Place
  <2> QED BY <2>2, <2>3
<1> QED BY <1>7, <1>8, <1>10, <1>11, <1>12 DEF FileInv

LEMMA SweepFile ==
    ASSUME BasicInv, Reading, FileInv, Sweep(file)
    PROVE  FileInv'
<1>1. TypeOK /\ Readers /\ file \in 1 .. NumFiles
  BY DEF BasicInv, Reading, Wanted
<1>2. /\ ReaderLeaves
      /\ UNCHANGED <<lastslot, endindex, readbuffer, readbufferwriteslot, position>>
      /\ reader[file].at = "sweep" /\ reader'[file].at \in {"sweep", "end"}
  BY <1>1, SweepDoes
<1>3. file' = file /\ Units' = Units
  BY <1>2, ReadingStays
<1>4. PICK c \in Rounds, d \in Rounds : Where(c, d)
  BY DEF FileInv, Where
<1>5. ConsumerAt(c) /\ ReaderAt(d) /\ Behind(c, d) /\ WindowAt(c, d)
  BY <1>4 DEF Where
<1>6. (AtEnd <=> AtEnd') /\ (Stopped <=> Stopped') /\ ~Active(file) /\ ~Active(file)'
  BY <1>2, <1>3 DEF AtEnd, Stopped, Active
<1>7. ConsumerAt(c)'
  BY <1>2, <1>5, Sizes, ReaderStepConsumer DEF ConsumerAt
<1>8. ReaderAt(d)'
  BY <1>2, <1>3, <1>5, <1>6 DEF ReaderAt, ReaderLeaves, Place
<1>9. Behind(c, d)'
  BY <1>2, <1>3, <1>5, <1>6 DEF Behind, FirstOf, ReaderLeaves, Place
<1>10. WindowAt(c, d)'
  BY <1>2, <1>5, <1>6 DEF WindowAt, ReaderLeaves, EndOfSlots, Place
<1>11. GoesOn' /\ InRing' /\ InSlotZero'
  BY <1>2, <1>3, <1>6 DEF FileInv, GoesOn, InRing, InSlotZero, ReaderLeaves, Round, Place
<1> QED BY <1>7, <1>8, <1>9, <1>10, <1>11 DEF FileInv
\* Where in the ring the reader puts a unit of a file.
LEMMA RoundIs ==
    /\ Round \in Nat \ {0} /\ Round \in Nat /\ Round >= SlotUnits
    /\ BufferUnits = Round + SlotUnits
<1>1. lockmod \in Nat /\ 1 \in Int /\ lockmod \in Int /\ 1 <= lockmod
  BY Sizes
<1>2. Place(lockmod) \in Nat
  BY <1>1, PlaceIs
<1>3. Place(1) <= Place(lockmod) /\ Place(1) = SlotUnits
  BY <1>1, PlaceUp, Places
<1>4. BufferUnits = Place(lockmod) + SlotUnits
  BY Places
<1> QED BY <1>2, <1>3, <1>4, Sizes DEF Round

LEMMA RoundPlace ==
    ASSUME NEW n \in Rounds, NEW x \in Nat
    PROVE  (Place(n) + x) % Round = x % Round
<1>1. n \in Nat /\ n % lockmod = 0 /\ lockmod \in Nat \ {0}
  BY Sizes DEF Rounds
<1>2. n \div lockmod \in Nat /\ n = lockmod * (n \div lockmod) + (n % lockmod)
  BY <1>1, Division
<1>3. PICK k \in Nat : n = lockmod * k
  BY <1>1, <1>2
<1>4. Place(n) = Round * k
  <2>1. (lockmod * k) * SlotUnits = (lockmod * SlotUnits) * k
    BY Sizes
  <2> QED BY <1>3, <2>1 DEF Place, Round
<1>5. Round * k + x \in Nat /\ k \in Int /\ Round \in Nat \ {0}
  BY RoundIs
<1>6. (Round * k + x) % Round = x % Round
  BY <1>5, QuotientPlus
<1> QED BY <1>4, <1>6

LEMMA RingPlace ==
    ASSUME NEW d \in Rounds, NEW s \in 1 .. lockmod, NEW j \in Nat, j < SlotUnits,
           NEW u \in Nat, u + SlotUnits = Place(s + d) + j
    PROVE  /\ SlotUnits + (u % Round) = Place(s) + j
           /\ Place(s) + j \in 0 .. BufferUnits - 1
<1>1. s \in Nat /\ d \in Nat /\ s \in Int /\ lockmod \in Int /\ s <= lockmod /\ 1 \in Int /\ 1 <= s
  BY RoundsAre, Sizes
<1>2. Place(s + d) = Place(s) + Place(d) /\ Place(s) \in Nat /\ Place(d) \in Nat
  BY <1>1, PlaceSum
<1>3. SlotUnits <= Place(s) /\ Place(s) <= Round
  BY <1>1, PlaceUp, Places DEF Round
<1> DEFINE x == Place(s) - SlotUnits + j
<1>4. x \in Nat /\ x < Round /\ u = Place(d) + x /\ Round \in Nat \ {0}
  BY <1>2, <1>3, Sizes, RoundIs
<1> HIDE DEF x
<1>5. u % Round = x % Round
  BY <1>4, RoundPlace
<1>6. x % Round = x
  BY <1>4, SmallQuotient
<1>7. SlotUnits + x = Place(s) + j
  BY <1>2, Sizes DEF x
<1>8. Place(s) + j \in 0 .. BufferUnits - 1
  <2>1. s \in 0 .. lockmod
    BY <1>1
  <2> QED BY <2>1, InBuffer
<1> QED BY <1>5, <1>6, <1>7, <1>8

LEMMA ReadSlotRing ==
    ASSUME BasicInv, Reading, FileInv, ReadSlot(file), NEW d \in Rounds, ReaderAt(d)
    PROVE  InRing' /\ InSlotZero'
<1> DEFINE ws == readbufferwriteslot
<1>1. TypeOK /\ file \in 1 .. NumFiles /\ Readers
  BY DEF BasicInv, Reading, Wanted
<1>2. /\ ReaderLeaves /\ reader[file].at = "read" /\ position' = position + Got
      /\ readbuffer' = [x \in DOMAIN readbuffer |->
                          IF x \in Place(ws) .. Place(ws) + Got - 1
                          THEN [file |-> file, unit |-> position + x - Place(ws)]
                          ELSE readbuffer[x]]
  BY <1>1, ReadSlotDoes
<1>3. ws \in 1 .. lockmod /\ ws \in Nat /\ position \in Nat /\ d \in Nat
  BY <1>1, NumbersAre, RoundsAre
<1>4. Got \in Nat /\ Got <= SlotUnits
  BY <1>1, FilesAre, NumbersAre, Sizes DEF Got, Left
<1>5. position + SlotUnits = Place(ws + d) /\ Place(ws + d) \in Nat /\ Place(ws) \in Nat
  BY <1>2, <1>3, PlaceSum DEF ReaderAt
<1>6. DOMAIN readbuffer = 0 .. BufferUnits - 1
  BY <1>1 DEF TypeOK
<1>7. file' = file
  BY <1>2 DEF ReaderLeaves
<1>8. Round \in Nat \ {0} /\ Round \in Nat /\ BufferUnits = Round + SlotUnits
  BY RoundIs
<1>9. \A j \in Nat : j < Got =>
         SlotUnits + ((position + j) % Round) = Place(ws) + j /\ Place(ws) + j \in 0 .. BufferUnits - 1
  <2> TAKE j \in Nat
  <2> HAVE j < Got
  <2>1. position + j \in Nat /\ (position + j) + SlotUnits = Place(ws + d) + j /\ j < SlotUnits
    BY <1>3, <1>4, <1>5, Sizes
  <2> QED BY <1>3, <2>1, RingPlace
<1> HIDE DEF ws
<1>10. InRing'
  <2> SUFFICES ASSUME NEW u \in Nat, u < position', position' <= u + Round
               PROVE  readbuffer'[SlotUnits + (u % Round)] = [file |-> file, unit |-> u]
    BY <1>7 DEF InRing, Round, Place
  <2>1. CASE u >= position
    <3> DEFINE j == u - position
    <3>1. j \in Nat /\ j < Got /\ u = position + j
      BY <1>2, <1>3, <1>4, <2>1
    <3> HIDE DEF j
    <3>2. SlotUnits + (u % Round) = Place(ws) + j /\ Place(ws) + j \in 0 .. BufferUnits - 1
      BY <1>9, <3>1
    <3>3. Place(ws) + j \in Place(ws) .. Place(ws) + Got - 1
      BY <1>4, <1>5, <3>1
    <3>4. position + (Place(ws) + j) - Place(ws) = u
      BY <1>3, <1>5, <3>1
    <3> QED BY <1>2, <1>6, <3>2, <3>3, <3>4
  <2>2. CASE u < position
    <3> DEFINE y == SlotUnits + (u % Round)
    <3>1. position <= u + Round
      BY <1>2, <1>3, <1>4, <1>8
    <3>2. readbuffer[y] = [file |-> file, unit |-> u]
      BY <2>2, <3>1 DEF FileInv, InRing
    <3>3. u % Round \in 0 .. Round - 1
      BY <1>8, Division
    <3>4. y \in 0 .. BufferUnits - 1
      BY <1>8, <3>3, Sizes
    <3>5. ~(y \in Place(ws) .. Place(ws) + Got - 1)
      <4> SUFFICES ASSUME y \in Place(ws) .. Place(ws) + Got - 1 PROVE FALSE
        OBVIOUS
      <4> DEFINE j == y - Place(ws)
      <4>1. y \in Int
        BY <3>4
      <4>2. j \in Nat /\ j < Got /\ y = Place(ws) + j
        BY <1>4, <1>5, <4>1
      <4> HIDE DEF j
      <4>3. SlotUnits + ((position + j) % Round) = y
        BY <1>9, <4>2
      <4>4. (position + j) % Round \in 0 .. Round - 1
        <5>1. position + j \in Nat
          BY <1>3, <4>2
        <5> QED BY <1>8, <5>1, Division
      <4>5. (position + j) % Round = u % Round
        BY <3>3, <4>3, <4>4, Sizes
      <4>6. u \in u .. u + Round - 1 /\ position + j \in u .. u + Round - 1
        BY <1>2, <1>3, <1>4, <1>8, <2>2, <4>2
      <4>7. \A a, b \in u .. u + Round - 1 : a % Round = b % Round => a = b
        BY <1>8, SamePlace
      <4>8. position + j = u
        BY <4>5, <4>6, <4>7
      <4> QED BY <1>3, <2>2, <4>2, <4>8
    <3> HIDE DEF y
    <3>6. readbuffer'[y] = readbuffer[y]
      BY <1>2, <1>6, <3>4, <3>5
    <3> QED BY <3>2, <3>6 DEF y
  <2> QED BY <1>3, <2>1, <2>2
<1>11. InSlotZero'
  <2> SUFFICES ASSUME lockstart = 0, keepreading, NEW x \in muxindex .. SlotUnits - 1
               PROVE  readbuffer'[x] = [file |-> file, unit |-> taken + x - muxindex]
    BY <1>2, <1>7 DEF InSlotZero, ReaderLeaves
  <2>1. readbuffer[x] = [file |-> file, unit |-> taken + x - muxindex]
    BY DEF FileInv, InSlotZero
  <2>2. x \in Nat /\ x < SlotUnits
    BY <1>1, NumbersAre, Sizes
  <2>3. SlotUnits <= Place(ws)
    <3>1. 1 \in Int /\ ws \in Int /\ 1 <= ws
      BY <1>3
    <3> QED BY <3>1, PlaceUp, Places
  <2>4. x \in 0 .. BufferUnits - 1 /\ ~(x \in Place(ws) .. Place(ws) + Got - 1)
    BY <1>5, <1>8, <2>2, <2>3, Sizes
  <2> QED BY <1>2, <1>6, <2>1, <2>4
<1> QED BY <1>10, <1>11

LEMMA ReadSlotFile ==
    ASSUME BasicInv, Reading, FileInv, ReadSlot(file)
    PROVE  FileInv'
<1> DEFINE ws == readbufferwriteslot
<1>1. TypeOK /\ Readers /\ file \in 1 .. NumFiles
  BY DEF BasicInv, Reading, Wanted
<1>2. /\ ReaderLeaves /\ UNCHANGED <<slotMutexOwner, endindex>>
      /\ reader[file].at = "read" /\ position' = position + Got
      /\ reader'[file].slot = ws /\ reader'[file].got = Got
      /\ Got < SlotUnits => reader'[file].at = "short" /\ lastslot' = ws
      /\ ~(Got < SlotUnits) => reader'[file].at = "lock" /\ lastslot' = lastslot
  BY <1>1, ReadSlotDoes
<1>3. file' = file /\ Units' = Units
  BY <1>2, ReadingStays
<1>4. PICK c \in Rounds, d \in Rounds : Where(c, d)
  BY DEF FileInv, Where
<1>5. ConsumerAt(c) /\ ReaderAt(d) /\ Behind(c, d) /\ WindowAt(c, d)
  BY <1>4 DEF Where
<1>6. /\ lastslot = -1 /\ position <= Units /\ position + SlotUnits = Place(ws + d)
  BY <1>2, <1>5 DEF ReaderAt
<1>7. /\ ws \in Nat /\ ws \in 1 .. lockmod /\ position \in Nat /\ Units \in Nat /\ d \in Nat
      /\ n2 \in Nat
  BY <1>1, FilesAre, NumbersAre, RoundsAre
<1>8. Place(ws + d) \in Nat
  BY <1>7, PlaceSum
<1>9. ConsumerAt(c)'
  <2>1. lockstart # lockmod
    BY <1>5, <1>6, Sizes DEF ConsumerAt
  <2> QED BY <1>2, <1>5, <2>1, ReaderStepConsumer
<1>10. /\ Active(file) /\ Active(file)' /\ Held(file) = ws
       /\ Held(file)' = ws /\ ~AtEnd /\ ~AtEnd' /\ ~Stopped'
  BY <1>2, <1>3 DEF Active, Held, AtEnd, Stopped
<1>11. ReaderAt(d)'
  <2>1. CASE Got < SlotUnits
    <3>1. Got = Units - position
      BY <1>6, <1>7, <2>1, Sizes DEF Got, Left
    <3>2. position' = Units /\ Units + SlotUnits = Place(ws + d) + Got
      BY <1>2, <1>6, <1>7, <1>8, <3>1, Sizes
    <3> QED BY <1>2, <1>3, <1>7, <1>10, <2>1, <3>2 DEF ReaderAt, Place
  <2>2. CASE ~(Got < SlotUnits)
    <3>1. Got = SlotUnits /\ position + SlotUnits <= Units
      BY <1>6, <1>7, <2>2, Sizes DEF Got, Left
    <3>2. position' = Place(ws + d) /\ position' <= Units
      BY <1>2, <1>6, <3>1
    <3>3. lastslot' = -1
      BY <1>2, <1>6, <2>2
    <3> QED BY <1>2, <1>3, <1>10, <2>2, <3>2, <3>3 DEF ReaderAt, Place
  <2> QED BY <2>1, <2>2
<1>12. Behind(c, d)'
  BY <1>2, <1>5, <1>10 DEF Behind, FirstOf, ReaderLeaves
<1>13. WindowAt(c, d)'
  <2>1. pc = "mux" => muxend' = EndOfSlots'
    <3>1. pc = "mux" => ws # n2
      BY <1>5, <1>10, WindowNotHeld
    <3>2. lastslot # n2
      BY <1>6, <1>7
    <3>3. pc = "mux" => lastslot' # n2
      BY <1>2, <3>1, <3>2
    <3> QED BY <1>2, <1>5, <3>2, <3>3, ReaderStepEnd DEF WindowAt
  <2> QED BY <1>2, <1>5, <1>10, <2>1 DEF WindowAt, ReaderLeaves, Place
<1>14. GoesOn'
  <2>1. ~(lockstart >= 0 /\ ~dataremaining /\ keepreading)
    BY <1>10 DEF FileInv, GoesOn
  <2> QED BY <1>2, <2>1 DEF GoesOn, ReaderLeaves
<1>15. InRing' /\ InSlotZero'
  BY <1>5, ReadSlotRing
<1> QED BY <1>9, <1>11, <1>12, <1>13, <1>14, <1>15 DEF FileInv
\* The slot after a slot of the file, in the round it is in.
LEMMA NextOfFile ==
    ASSUME NEW s \in 1 .. lockmod, NEW d \in Rounds
    PROVE  \E e \in Rounds : NextSlot(s) + e = s + d + 1
<1>1. d \in Nat /\ lockmod \in Nat /\ d + lockmod \in Rounds
  BY Sizes, RoundsAre
<1>2. CASE s < lockmod
  <2>1. NextSlot(s) + d = s + d + 1
    BY <1>1, <1>2, NextSlotIs
  <2> QED BY <2>1
<1>3. CASE s = lockmod
  <2>1. NextSlot(s) + (d + lockmod) = s + d + 1
    BY <1>1, <1>3, NextSlotIs
  <2> QED BY <1>1, <2>1
<1> QED BY <1>1, <1>2, <1>3

\* The reader that goes on to the next slot of the file is less than a round ahead
\* of the consumer.
LEMMA NotLapped ==
    ASSUME mishaps' = {}, BasicInv, Reading, NEW c \in Rounds, NEW d \in Rounds, NEW e \in Rounds,
           ConsumerAt(c), ReaderAt(d), Behind(c, d), AdvanceSlot(file),
           readbufferwriteslot + e = reader[file].slot + d + 1
    PROVE  readbufferwriteslot + e < FirstOf(c) + lockmod
<1> DEFINE ws == readbufferwriteslot
           rs == reader[file].slot
<1>1. TypeOK /\ Readers /\ Consumers /\ Phases /\ file \in 1 .. NumFiles
  BY DEF BasicInv, Reading, Wanted
<1>2. /\ reader[file].at \in {"lock", "last"} /\ CanLock(ws)
      /\ lockstart # -1 \/ ws # 1
  BY <1>1, AdvanceSlotDoes
<1>3. /\ ws \in Nat /\ ws \in 1 .. lockmod /\ rs \in Nat /\ c \in Nat /\ d \in Nat /\ e \in Nat
      /\ lockstart \in Int /\ lockend \in Int /\ lockmod \in Nat
  BY <1>1, NumbersAre, ReaderIs, RoundsAre, Sizes
<1>4. rs + d < FirstOf(c) + lockmod
  BY <1>2 DEF Behind, Active, Held
<1>5. FirstOf(c) \in Int
  BY <1>3 DEF FirstOf
<1>6. slotMutexOwner[MutexOf(ws)] = 0
  BY <1>2 DEF CanLock
<1>7. ws + e # FirstOf(c) + lockmod
  <2>1. CASE lockstart = -1
    <3>1. ws # 1 /\ FirstOf(c) = 1
      BY <1>2, <2>1 DEF FirstOf
    <3>2. e = 0 \/ e >= lockmod
      <4>1. 0 \in Rounds
        BY RoundsAre
      <4>2. 0 < e => 0 + lockmod <= e
        BY <4>1, RoundsAre
      <4> QED BY <1>3, <4>2
    <3> QED BY <1>3, <3>1, <3>2
  <2>2. CASE lockstart # -1
    <3>1. lockstart \in Nat /\ lockend >= lockstart /\ HasSlots
      BY <1>1, <1>3, <2>2 DEF Reading, Phases, HasSlots
    <3>2. FirstOf(c) = c + lockstart
      BY <2>2 DEF FirstOf
    <3>3. lockstart \in lockstart .. lockend /\ MutexOf(lockstart) \in Mutexes
      BY <1>3, <3>1, MutexIs
    <3>4. slotMutexOwner[MutexOf(lockstart)] = 1
      BY <1>1, <3>1, <3>3 DEF Consumers
    <3>5. ws + e = FirstOf(c) + lockmod => MutexOf(ws) = MutexOf(lockstart)
      <4> HAVE ws + e = FirstOf(c) + lockmod
      <4>1. c + lockmod \in Rounds
        BY RoundsAre
      <4>2. e + ws = (c + lockmod) + lockstart
        BY <1>3, <3>1, <3>2
      <4>3. \A s, t \in Nat : e + s = (c + lockmod) + t => MutexOf(s) = MutexOf(t)
        BY <4>1, SameMutex
      <4> QED BY <1>3, <3>1, <4>2, <4>3
    <3> QED BY <1>6, <3>4, <3>5
  <2> QED BY <2>1, <2>2
<1> QED BY <1>3, <1>4, <1>5, <1>7

\* When the reader has ended, what the consumer has taken was in front of the end.
LEMMA EndedBehind ==
    ASSUME BasicInv, Reading, NEW c \in Rounds, NEW d \in Rounds,
           ConsumerAt(c), lockstart >= 0, lastslot >= 1, c + lockend < lastslot + d,
           Units + SlotUnits = endindex + Place(d), Place(lastslot) <= endindex
    PROVE  /\ c <= d
           /\ taken < Units \/ (taken = Units /\ endindex = Place(lastslot))
<1>1. TypeOK /\ Phases
  BY DEF BasicInv
<1>2. /\ c \in Nat /\ d \in Nat /\ lockstart \in Nat /\ lockend \in Nat /\ lastslot \in Nat
      /\ lastslot <= lockmod /\ taken \in Nat /\ endindex \in Nat /\ Units \in Nat /\ muxindex \in Nat
      /\ lockend >= lockstart /\ lockmod \in Nat
  <2>1. c \in Nat /\ d \in Nat /\ lockmod \in Nat /\ Units \in Nat
    BY <1>1, RoundsAre, FilesAre, Sizes
  <2>2. lockstart \in Int /\ lockend \in Int /\ lastslot \in Int /\ lockend >= lockstart
    BY <1>1, NumbersAre DEF Phases
  <2>3. lastslot <= lockmod /\ taken \in Nat /\ endindex \in Nat /\ muxindex \in Nat
    BY <1>1, NumbersAre
  <2> QED BY <2>1, <2>2, <2>3
<1>3. c <= d
  <2>1. d < c => d + lockmod <= c
    BY RoundsAre
  <2> QED BY <1>2, <2>1
<1>4. taken + SlotUnits <= Place(lockend + c + 1)
  <2>1. CASE pc = "wrap"
    <3>1. taken + SlotUnits = Place(Slots + c) /\ lockend = lockmod
      BY <2>1 DEF ConsumerAt
    <3>2. Slots + c = lockend + c + 1
      BY <1>2, <3>1, Sizes
    <3>3. Place(Slots + c) \in Int
      BY <1>2, Sizes, PlaceSum
    <3> QED BY <3>1, <3>2, <3>3
  <2>2. CASE pc # "wrap"
    <3>1. taken + SlotUnits = muxindex + Place(c) /\ muxindex <= Place(lockstart + 1)
      BY <2>2 DEF ConsumerAt
    <3>2. Place((lockstart + 1) + c) = Place(lockstart + 1) + Place(c)
             /\ Place(lockstart + 1) \in Nat /\ Place(c) \in Nat
      <4>1. lockstart + 1 \in Nat
        BY <1>2
      <4> QED BY <1>2, <4>1, PlaceSum
    <3>3. Place((lockstart + 1) + c) <= Place(lockend + c + 1)
      <4>1. (lockstart + 1) + c \in Int /\ lockend + c + 1 \in Int
               /\ (lockstart + 1) + c <= lockend + c + 1
        BY <1>2
      <4> QED BY <4>1, PlaceUp
    <3>4. Place((lockstart + 1) + c) \in Int /\ Place(lockend + c + 1) \in Int
      BY <1>2, PlaceIs
    <3> QED BY <1>2, <3>1, <3>2, <3>3, <3>4, Sizes
  <2> QED BY <2>1, <2>2
<1>5. Place(lockend + c + 1) <= Place(lastslot + d)
  <2>1. lockend + c + 1 \in Int /\ lastslot + d \in Int /\ lockend + c + 1 <= lastslot + d
    BY <1>2
  <2> QED BY <2>1, PlaceUp
<1>6. Place(lastslot + d) = Place(lastslot) + Place(d) /\ Place(lastslot) \in Nat /\ Place(d) \in Nat
  BY <1>2, PlaceSum
<1>7. Place(lockend + c + 1) \in Int
  BY <1>2, PlaceIs
<1> QED BY <1>2, <1>3, <1>4, <1>5, <1>6, <1>7, Sizes

LEMMA AdvanceSlotFile ==
    ASSUME mishaps' = {}, BasicInv, Reading, FileInv, AdvanceSlot(file)
    PROVE  FileInv'
<1> DEFINE ws == readbufferwriteslot
           rs == reader[file].slot
<1>1. TypeOK /\ Readers /\ Phases /\ file \in 1 .. NumFiles
  BY DEF BasicInv, Reading, Wanted
<1>2. /\ ReaderLeaves
      /\ UNCHANGED <<lastslot, endindex, readbuffer, readbufferwriteslot, position>>
      /\ reader[file].at \in {"lock", "last"}
      /\ reader[file].at = "lock" /\ keepreading => reader'[file].at = "read"
      /\ ~(reader[file].at = "lock" /\ keepreading) => reader'[file].at = "sweep"
  BY <1>1, AdvanceSlotDoes
<1>3. file' = file /\ Units' = Units
  BY <1>2, ReadingStays
<1>4. PICK c \in Rounds, d \in Rounds : Where(c, d)
  BY DEF FileInv, Where
<1>5. ConsumerAt(c) /\ ReaderAt(d) /\ Behind(c, d) /\ WindowAt(c, d)
  BY <1>4 DEF Where
<1>6. /\ ws \in Nat /\ rs \in Nat /\ rs \in 1 .. lockmod /\ c \in Nat /\ d \in Nat /\ n2 \in Nat
      /\ lockend \in Int /\ lockstart \in Int /\ lastslot \in Int
  BY <1>1, <1>2, NumbersAre, ReaderIs, RoundsAre DEF Readers, Active, Held
<1>7. Active(file) /\ Held(file) = rs /\ ~AtEnd /\ ws = NextSlot(rs)
  BY <1>1, <1>2 DEF Active, Held, AtEnd, Readers
<1>8. ConsumerAt(c)'
  BY <1>2, <1>5, Sizes, ReaderStepConsumer DEF ConsumerAt
<1>9. /\ lockstart >= 0 => c + lockend < rs + d
      /\ rs + d < FirstOf(c) + lockmod
      /\ pc \in {"grab", "mux"} => n2 + c <= rs + d
  BY <1>5, <1>7 DEF Behind, WindowAt
<1>10. GoesOn' /\ InRing' /\ InSlotZero'
  <2>1. ~(lockstart >= 0 /\ ~dataremaining /\ keepreading)
    BY <1>7 DEF FileInv, GoesOn
  <2>2. GoesOn'
    BY <1>2, <2>1 DEF GoesOn, ReaderLeaves
  <2>3. InRing' /\ InSlotZero'
    BY <1>2, <1>3 DEF FileInv, InRing, InSlotZero, ReaderLeaves, Round, Place
  <2> QED BY <2>2, <2>3
<1>11. CASE reader[file].at = "lock" /\ keepreading
  <2>1. PICK e \in Rounds : ws + e = rs + d + 1
    BY <1>6, <1>7, NextOfFile
  <2>2. ws + e < FirstOf(c) + lockmod
    BY <1>5, <2>1, NotLapped
  <2>3. e \in Nat
    BY RoundsAre
  <2>4. Active(file)' /\ Held(file)' = ws /\ ~AtEnd' /\ ~Stopped' /\ reader'[file].at = "read"
    BY <1>2, <1>3, <1>11 DEF Active, Held, AtEnd, Stopped
  <2>5. ReaderAt(e)'
    <3>1. position = Place(rs + d) /\ position <= Units /\ lastslot = -1
      BY <1>5, <1>11 DEF ReaderAt
    <3>2. Place(rs + d + 1) = Place(rs + d) + SlotUnits
      BY <1>6, PlaceIs
    <3>3. position + SlotUnits = Place(ws + e)
      BY <2>1, <3>1, <3>2
    <3> QED BY <1>2, <1>3, <2>4, <3>1, <3>3 DEF ReaderAt, Place
  <2>6. lockstart >= 0 => c + lockend < ws + e
    BY <1>6, <1>9, <2>1, <2>3
  <2>7. Behind(c, e)'
    BY <1>2, <2>2, <2>4, <2>6 DEF Behind, FirstOf, ReaderLeaves
  <2>8. pc \in {"grab", "mux"} => n2 + c <= ws + e
    BY <1>6, <1>9, <2>1, <2>3
  <2>9. WindowAt(c, e)'
    BY <1>2, <1>5, <2>4, <2>8 DEF WindowAt, ReaderLeaves, EndOfSlots, Place
  <2> QED BY <1>8, <1>10, <2>5, <2>7, <2>9 DEF FileInv
<1>12. CASE ~(reader[file].at = "lock" /\ keepreading)
  <2>1. reader'[file].at = "sweep" /\ ~Active(file)'
    BY <1>2, <1>3, <1>12 DEF Active
  <2>2. CASE reader[file].at = "last"
    <3>1. lastslot = rs /\ lastslot >= 1 /\ AtEnd' /\ ~Stopped'
      BY <1>1, <1>2, <1>3, <1>6, <2>1, <2>2 DEF Readers, AtEnd, Stopped
    <3>2. /\ Units + SlotUnits = endindex + Place(d)
          /\ Place(lastslot) <= endindex /\ endindex < Place(lastslot + 1)
          /\ position <= Units /\ position = Units
      BY <1>5, <1>6, <2>2, <3>1 DEF ReaderAt
    <3>3. ReaderAt(d)'
      BY <1>2, <1>3, <2>1, <3>1, <3>2 DEF ReaderAt, Place
    <3>4. lockstart >= 0 => /\ c <= d
                            /\ taken < Units \/ (taken = Units /\ endindex = Place(lastslot))
      BY <1>5, <1>9, <3>1, <3>2, EndedBehind
    <3>5. c <= d
      <4>1. CASE lockstart >= 0
        BY <3>4, <4>1
      <4>2. CASE lockstart = -1
        BY <1>5, <1>6, <4>2 DEF ConsumerAt
      <4> QED BY <1>6, <4>1, <4>2 DEF Reading
    <3>6. Behind(c, d)'
      <4>1. lockstart >= 0 => c + lockend <= lastslot + d
        BY <1>6, <1>9, <3>1
      <4> QED BY <1>2, <1>3, <1>9, <2>1, <3>1, <3>4, <3>5, <4>1 DEF Behind, FirstOf, ReaderLeaves, Place
    <3>7. WindowAt(c, d)'
      BY <1>2, <1>5, <1>9, <2>1, <3>1 DEF WindowAt, ReaderLeaves, EndOfSlots, Place
    <3> QED BY <1>8, <1>10, <3>3, <3>6, <3>7 DEF FileInv
  <2>3. CASE reader[file].at = "lock"
    <3>1. lastslot = -1 /\ position <= Units /\ ~keepreading
      BY <1>5, <1>12, <2>3 DEF ReaderAt
    <3>2. ~AtEnd'
      BY <1>2, <3>1 DEF AtEnd
    <3>3. ReaderAt(d)'
      BY <1>2, <1>3, <2>1, <3>1, <3>2 DEF ReaderAt, ReaderLeaves, Place
    <3>4. Behind(c, d)' /\ WindowAt(c, d)'
      BY <1>2, <1>5, <2>1, <3>2 DEF Behind, WindowAt, ReaderLeaves, EndOfSlots, Place
    <3> QED BY <1>8, <1>10, <3>3, <3>4 DEF FileInv
  <2> QED BY <1>2, <2>2, <2>3
<1> QED BY <1>11, <1>12
-------------------------------------------------------------------------------
(* The steps of the consumer keep the types, the locks and the phases.         *)

LEMMA ReadersKept ==
    ASSUME TypeOK, Readers, UNCHANGED <<files, file, reader, readbufferwriteslot, lastslot>>,
           \A m \in Mutexes : slotMutexOwner[m] = 2 => slotMutexOwner'[m] = 2
    PROVE  Readers'
<1>1. NumFiles' = NumFiles
  BY DEF NumFiles
<1> SUFFICES ASSUME NEW f \in 1 .. NumFiles
             PROVE  Active(f)' => Held(f)' \in 1 .. lockmod /\ slotMutexOwner'[MutexOf(Held(f)')] = 2
  BY <1>1 DEF Readers, NextSlot, MutexOf
<1>2. (Active(f)' <=> Active(f)) /\ Held(f)' = Held(f)
  BY DEF Active, Held
<1>3. Active(f) => Held(f) \in 1 .. lockmod /\ slotMutexOwner[MutexOf(Held(f))] = 2
  BY DEF Readers
<1>4. Active(f) => Held(f) \in Nat
  BY <1>3, Sizes
<1>5. Active(f) => MutexOf(Held(f)) \in Mutexes
  BY <1>4, MutexIs
<1> QED BY <1>2, <1>3, <1>5

ConsumerSteps == {"loop", "start", "call", "window", "grab", "mux", "wrap", "post", "join", "done",
                  "lost"}

\* A step that leaves the file, the locks and the ring alone.
LEMMA QuietBasic ==
    ASSUME BasicInv, UNCHANGED <<files, file, locks, ring, taken, muxindex>>,
           pc # "join", pc' # "join", pc' \in ConsumerSteps, numread' \in 0 .. 3,
           dataremaining' \in BOOLEAN, keepreading' \in BOOLEAN, muxend' \in Nat, n2' \in 0 .. Slots,
           Phases', AllTaken'
    PROVE  BasicInv'
<1> USE DEF locks, ring
<1>1. TypeOK /\ Readers /\ Consumers
  BY DEF BasicInv
<1>2. TypeOK'
  BY <1>1 DEF TypeOK, NumFiles, ConsumerSteps
<1>3. Readers'
  BY <1>1, ReadersKept
<1>4. Consumers'
  BY <1>1 DEF Consumers, HasSlots, MutexOf
<1> QED BY <1>2, <1>3, <1>4 DEF BasicInv

LEMMA WantedWhen ==
    ASSUME BasicInv
    PROVE  /\ pc \notin {"loop", "start", "done", "lost"} => Wanted
           /\ MustRead => Wanted
  BY DEF BasicInv, Phases, MustRead

LEMMA FileStays ==
    ASSUME UNCHANGED <<files, file>>
    PROVE  Units' = Units /\ (Wanted' <=> Wanted) /\ NumFiles' = NumFiles
  BY DEF Units, Wanted, NumFiles

LEMMA ReadsDoneBasic ==
    ASSUME BasicInv, ReadsDone
    PROVE  BasicInv'
<1> USE DEF ReadsDone
<1>1. Phases' /\ AllTaken'
  BY FileStays DEF BasicInv, Phases, AllTaken, locks, ring
<1>2. /\ pc' \in ConsumerSteps /\ numread' \in 0 .. 3 /\ dataremaining' \in BOOLEAN
      /\ keepreading' \in BOOLEAN /\ muxend' \in Nat /\ n2' \in 0 .. Slots
  BY DEF BasicInv, TypeOK, ConsumerSteps
<1> QED BY <1>1, <1>2, QuietBasic

LEMMA BeginReadBasic ==
    ASSUME BasicInv, BeginRead
    PROVE  BasicInv'
<1> USE DEF BeginRead
<1>1. Phases' /\ AllTaken'
  BY FileStays, WantedWhen DEF BasicInv, Phases, AllTaken, locks, ring
<1>2. /\ pc' \in ConsumerSteps /\ numread' \in 0 .. 3 /\ dataremaining' \in BOOLEAN
      /\ keepreading' \in BOOLEAN /\ muxend' \in Nat /\ n2' \in 0 .. Slots
  BY DEF BasicInv, TypeOK, ConsumerSteps
<1> QED BY <1>1, <1>2, QuietBasic

LEMMA NextReadBasic ==
    ASSUME BasicInv, NextRead
    PROVE  BasicInv'
<1> USE DEF NextRead
<1>1. Phases' /\ AllTaken'
  BY FileStays, WantedWhen DEF BasicInv, Phases, AllTaken, locks, ring
<1>2. /\ pc' \in ConsumerSteps /\ numread' \in 0 .. 3 /\ dataremaining' \in BOOLEAN
      /\ keepreading' \in BOOLEAN /\ muxend' \in Nat /\ n2' \in 0 .. Slots
  BY DEF BasicInv, TypeOK, ConsumerSteps
<1> QED BY <1>1, <1>2, QuietBasic

LEMMA KeepGoingBasic ==
    ASSUME BasicInv, KeepGoing
    PROVE  BasicInv'
<1> USE DEF KeepGoing
<1>1. Phases' /\ AllTaken'
  BY FileStays, WantedWhen DEF BasicInv, Phases, AllTaken, locks, ring
<1>2. numread' \in 0 .. 3
  BY DEF BasicInv, TypeOK, CountRead
<1>3. /\ pc' \in ConsumerSteps /\ dataremaining' \in BOOLEAN
      /\ keepreading' \in BOOLEAN /\ muxend' \in Nat /\ n2' \in 0 .. Slots
  BY DEF BasicInv, TypeOK, ConsumerSteps
<1> QED BY <1>1, <1>2, <1>3, QuietBasic

\* The end of the slots is a number.
LEMMA EndOfSlotsType ==
    ASSUME TypeOK
    PROVE  EndOfSlots \in Nat /\ (lastslot # n2 => EndOfSlots = Place(n2 + 1))
              /\ (lastslot = n2 => EndOfSlots = endindex)
<1>1. n2 \in Nat /\ endindex \in Nat /\ Place(n2 + 1) \in Nat
  BY NumbersAre, PlaceIs
<1> QED BY <1>1 DEF EndOfSlots, Place

LEMMA ShowSlotsBasic ==
    ASSUME BasicInv, ShowSlots
    PROVE  BasicInv'
<1> USE DEF ShowSlots
<1>1. Phases' /\ AllTaken'
  BY FileStays, WantedWhen DEF BasicInv, Phases, AllTaken, locks, ring
<1>2. muxend' \in Nat
  BY EndOfSlotsType DEF BasicInv
<1>3. /\ pc' \in ConsumerSteps /\ dataremaining' \in BOOLEAN /\ numread' \in 0 .. 3
      /\ keepreading' \in BOOLEAN /\ n2' \in 0 .. Slots
  BY DEF BasicInv, TypeOK, ConsumerSteps
<1> QED BY <1>1, <1>2, <1>3, QuietBasic

LEMMA ChooseSlotsBasic ==
    ASSUME BasicInv, ChooseSlots, n2' \in 0 .. Slots
    PROVE  BasicInv'
<1> USE DEF ChooseSlots
<1>1. Phases' /\ AllTaken'
  BY FileStays, WantedWhen DEF BasicInv, Phases, AllTaken, locks, ring
<1>2. /\ pc' \in ConsumerSteps /\ dataremaining' \in BOOLEAN /\ numread' \in 0 .. 3
      /\ keepreading' \in BOOLEAN /\ muxend' \in Nat
  BY DEF BasicInv, TypeOK, ConsumerSteps
<1> QED BY <1>1, <1>2, QuietBasic

LEMMA StopReadingBasic ==
    ASSUME BasicInv, StopReading
    PROVE  BasicInv'
<1> USE DEF StopReading
<1>1. Phases'
  BY FileStays DEF BasicInv, Phases, locks, ring
<1>2. AllTaken'
  BY FileStays DEF BasicInv, AllTaken, locks
<1>3. /\ pc' \in ConsumerSteps /\ dataremaining' \in BOOLEAN /\ numread' \in 0 .. 3
      /\ keepreading' \in BOOLEAN /\ muxend' \in Nat /\ n2' \in 0 .. Slots
  BY DEF BasicInv, TypeOK, ConsumerSteps
<1>4. pc # "join"
  BY DEF BasicInv, Phases
<1> QED BY <1>1, <1>2, <1>3, <1>4, QuietBasic
LEMMA FileOverMeans ==
    ASSUME BasicInv, FileOver
    PROVE  pc = "loop" /\ keepreading /\ numread \in {0, 3} /\ ~dataremaining /\ file <= NumFiles
<1>1. /\ numread \in {0, 1, 2, 3} /\ file \in Nat /\ NumFiles \in Nat
  BY FilesAre DEF BasicInv, TypeOK
<1> QED BY <1>1 DEF FileOver, MustRead, BasicInv, Phases

LEMMA OutOfFilesBasic ==
    ASSUME BasicInv, OutOfFiles
    PROVE  BasicInv'
<1> USE DEF OutOfFiles, locks, ring
<1>1. TypeOK /\ Readers /\ Consumers /\ Phases
  BY DEF BasicInv
<1>2. pc = "loop" /\ keepreading /\ numread \in {0, 3} /\ file <= NumFiles
  BY FileOverMeans
<1>3. NumFiles \in Nat /\ file \in Nat
  BY <1>1, FilesAre
<1>4. file = NumFiles /\ file' = NumFiles + 1 /\ NumFiles' = NumFiles
  BY <1>2, <1>3 DEF NumFiles
<1>5. TypeOK'
  <2>1. file' \in 0 .. NumFiles' + 1
    BY <1>3, <1>4
  <2> QED BY <1>1, <1>4, <2>1 DEF TypeOK
<1>6. Readers'
  <2>1. \A f \in 1 .. NumFiles : (Active(f)' <=> Active(f)) /\ Held(f)' = Held(f)
    BY DEF Active, Held
  <2> QED BY <1>1, <1>3, <1>4, <2>1 DEF Readers, NextSlot, MutexOf
<1>7. Consumers'
  BY <1>1 DEF Consumers, HasSlots, MutexOf
<1>8. ~Wanted' /\ ~(file' <= NumFiles')
  BY <1>3, <1>4 DEF Wanted
<1>9. Phases' /\ AllTaken'
  BY <1>1, <1>2, <1>8 DEF Phases, AllTaken
<1> QED BY <1>5, <1>6, <1>7, <1>9 DEF BasicInv

\* A new file finds no reader.
LEMMA ReadersNew ==
    ASSUME ~EarlierReads, NumFiles' = NumFiles, reader' = reader
    PROVE  Readers'
<1>1. \A f \in 1 .. NumFiles : reader'[f].at \in {"none", "end"}
  BY DEF EarlierReads
<1> QED BY <1>1 DEF Readers, Active

LEMMA OpenFailsBasic ==
    ASSUME BasicInv, ~EarlierReads, OpenFails, lockstart < 0
    PROVE  BasicInv'
<1> USE DEF OpenFails, locks
<1>1. TypeOK /\ Consumers /\ Phases
  BY DEF BasicInv
<1>2. pc = "loop" /\ keepreading /\ numread \in {0, 3} /\ file <= NumFiles
  BY FileOverMeans
<1>3. NumFiles \in Nat /\ file \in Nat /\ file + 1 \in 1 .. NumFiles /\ NumFiles' = NumFiles
  BY <1>1, FilesAre DEF NumFiles
<1>4. files[file + 1].units \in Nat
  BY <1>1, <1>3, FilesAre
<1>5. TypeOK'
  <2>1. file' \in 0 .. NumFiles' + 1 /\ position' \in Nat
    BY <1>3, <1>4
  <2> QED BY <1>1, <1>3, <2>1 DEF TypeOK
<1>6. Readers'
  BY <1>3, ReadersNew
<1>7. Consumers'
  BY <1>1 DEF Consumers, HasSlots, MutexOf
<1>8. ~Wanted'
  BY DEF Wanted
<1>9. file' <= NumFiles'
  BY <1>3
<1>10. Phases'
  BY <1>1, <1>2, <1>3, <1>8, <1>9 DEF Phases
<1>11. AllTaken'
  BY <1>2 DEF AllTaken
<1> QED BY <1>5, <1>6, <1>7, <1>10, <1>11 DEF BasicInv

LEMMA openfileBasic ==
    ASSUME BasicInv, ~EarlierReads, openfile, lockstart < 0
    PROVE  BasicInv'
<1> USE DEF openfile
<1>1. TypeOK /\ Consumers /\ Phases
  BY DEF BasicInv
<1>2. pc = "loop" /\ keepreading /\ numread \in {0, 3} /\ file <= NumFiles
  BY FileOverMeans
<1>3. NumFiles \in Nat /\ file \in Nat /\ file + 1 \in 1 .. NumFiles /\ NumFiles' = NumFiles
  BY <1>1, FilesAre DEF NumFiles
<1>4. files[file + 1].units \in Nat /\ files[file + 1].past \in BOOLEAN
  BY <1>1, <1>3, FilesAre
<1>5. TypeOK'
  <2>1. file' \in 0 .. NumFiles' + 1 /\ position' \in Nat
    BY <1>3, <1>4
  <2>2. dataremaining' \in BOOLEAN
    <3>1. dataremaining' = ~files[file + 1].past
      OBVIOUS
    <3> QED BY ONLY <3>1
  <2>3. /\ lockstart' \in -2 .. Slots - 1 /\ lockend' \in -2 .. Slots /\ lastslot' \in -2 .. Slots - 1
        /\ readbufferwriteslot' \in 1 .. Slots - 1
    BY Sizes
  <2> QED BY <1>1, <1>3, <2>1, <2>2, <2>3 DEF TypeOK
<1>6. Readers'
  BY <1>3, ReadersNew
<1>7. Consumers'
  <2>1. ~HasSlots /\ ~HasSlots'
    BY <1>1, NumbersAre DEF HasSlots
  <2> QED BY <1>1, <2>1 DEF Consumers
<1>8. /\ ~Wanted' => ~dataremaining'
      /\ Wanted' => position' = 0 /\ dataremaining'
  BY <1>3 DEF Wanted
<1>9. file' \in 1 .. NumFiles' /\ file' <= NumFiles'
  BY <1>3
<1>10. \A f \in 1 .. NumFiles' : reader'[f].at \in {"none", "end"}
  BY <1>3 DEF EarlierReads
<1>11. Phases'
  BY <1>2, <1>3, <1>8, <1>9, <1>10 DEF Phases
<1>12. AllTaken'
  BY DEF AllTaken
<1> QED BY <1>5, <1>6, <1>7, <1>11, <1>12 DEF BasicInv

\* Slot 1 is locked for the reader and the reader is at its beginning.
LEMMA startReaderDoes ==
    ASSUME BasicInv, startReaderThread
    PROVE  /\ reader' \in [1 .. NumFiles -> ReaderRecords] /\ file \in 1 .. NumFiles
           /\ reader'[file].at = "begin" /\ reader'[file].slot = 1
           /\ \A g \in 1 .. NumFiles : g # file => reader'[g] = reader[g]
           /\ slotMutexOwner' \in [Mutexes -> {0, 1, 2}] /\ slotMutexOwner'[MutexOf(1)] = 2
           /\ slotMutexOwner[MutexOf(1)] = 0
           /\ \A m \in Mutexes : m # MutexOf(1) => slotMutexOwner'[m] = slotMutexOwner[m]
<1> USE DEF startReaderThread
<1>1. TypeOK /\ file \in 1 .. NumFiles
  BY DEF BasicInv, Phases
<1> DEFINE r == [reader[file] EXCEPT !.at = "begin", !.slot = 1]
<1>2. reader[file] \in ReaderRecords /\ 1 \in Mutexes
  BY <1>1, ReaderIs, Sizes DEF Mutexes
<1>3. r \in ReaderRecords /\ r.at = "begin" /\ r.slot = 1
  BY <1>2 DEF ReaderRecords, ReaderStates
<1>4. reader' = [reader EXCEPT ![file] = r]
  OBVIOUS
<1> HIDE DEF r
<1>5. /\ reader' \in [1 .. NumFiles -> ReaderRecords] /\ reader'[file] = r
      /\ \A g \in 1 .. NumFiles : g # file => reader'[g] = reader[g]
  BY <1>1, <1>3, <1>4, ReaderChanges
<1>6. slotMutexOwner \in [Mutexes -> {0, 1, 2}]
  BY <1>1 DEF TypeOK
<1>7. /\ slotMutexOwner' \in [Mutexes -> {0, 1, 2}] /\ slotMutexOwner'[MutexOf(1)] = 2
      /\ \A m \in Mutexes : m # MutexOf(1) => slotMutexOwner'[m] = slotMutexOwner[m]
  <2>1. slotMutexOwner' = lockSlot(slotMutexOwner, 1, 2)
    OBVIOUS
  <2> QED BY <1>6, <2>1, LockedType
<1>8. slotMutexOwner[MutexOf(1)] = 0
  BY DEF CanLock
<1> QED BY <1>1, <1>3, <1>5, <1>7, <1>8

LEMMA startReaderBasic ==
    ASSUME BasicInv, startReaderThread
    PROVE  BasicInv'
<1>1. TypeOK /\ Consumers /\ Phases /\ Readers
  BY DEF BasicInv
<1>2. /\ reader' \in [1 .. NumFiles -> ReaderRecords] /\ file \in 1 .. NumFiles
      /\ reader'[file].at = "begin" /\ reader'[file].slot = 1
      /\ \A g \in 1 .. NumFiles : g # file => reader'[g] = reader[g]
      /\ slotMutexOwner' \in [Mutexes -> {0, 1, 2}] /\ slotMutexOwner'[MutexOf(1)] = 2
      /\ slotMutexOwner[MutexOf(1)] = 0
      /\ \A m \in Mutexes : m # MutexOf(1) => slotMutexOwner'[m] = slotMutexOwner[m]
  BY startReaderDoes
<1>3. /\ pc = "start" /\ pc' = "loop"
      /\ UNCHANGED <<files, file, numread, dataremaining, keepreading, muxindex, muxend, n2,
                     taken, lockstart, lockend, lastslot, endindex, readbuffer,
                     readbufferwriteslot, position>>
  BY DEF startReaderThread
<1>4. NumFiles' = NumFiles /\ Units' = Units /\ (Wanted' <=> Wanted)
  BY <1>3, FileStays
<1>5. TypeOK'
  BY <1>1, <1>2, <1>3, <1>4 DEF TypeOK, ReaderRecords, ReaderStates
<1>6. /\ readbufferwriteslot = 1 /\ lockstart = -1
      /\ \A f \in 1 .. NumFiles : reader[f].at \in {"none", "end"}
  BY <1>1, <1>3 DEF Phases
<1>7. Readers'
  <2>1. \A f \in 1 .. NumFiles : f # file => reader'[f].at \in {"none", "end"}
    BY <1>2, <1>6
  <2>2. Held(file)' = 1 /\ 1 \in 1 .. lockmod
    BY <1>2, <1>3, <1>6, Sizes DEF Held
  <2>3. \A f \in 1 .. NumFiles : Active(f)' =>
           Held(f)' \in 1 .. lockmod /\ slotMutexOwner'[MutexOf(Held(f)')] = 2
    <3> TAKE f \in 1 .. NumFiles
    <3>1. CASE f = file
      <4>1. Held(f)' = Held(file)'
        BY <1>3, <3>1 DEF Held
      <4>2. Held(f)' = 1
        BY <2>2, <4>1
      <4> QED BY <1>2, <2>2, <4>2
    <3>2. CASE f # file
      BY <2>1, <3>2 DEF Active
    <3> QED BY <3>1, <3>2
  <2>4. \A f \in 1 .. NumFiles :
           /\ reader'[f].at \notin {"none", "end"} => f = file
           /\ reader'[f].at \notin {"lock", "last", "short"}
    BY <1>2, <2>1
  <2> QED BY <1>3, <1>4, <2>3, <2>4 DEF Readers, MutexOf
<1>8. Consumers'
  <2>1. ~HasSlots /\ ~HasSlots'
    BY <1>3, <1>6 DEF HasSlots
  <2>2. \A m \in Mutexes : slotMutexOwner'[m] # 1
    BY <1>1, <1>2, <2>1 DEF Consumers
  <2> QED BY <2>1, <2>2 DEF Consumers
<1>9. Phases' /\ AllTaken'
  BY <1>1, <1>3, <1>4 DEF Phases, AllTaken
<1> QED BY <1>5, <1>7, <1>8, <1>9 DEF BasicInv

\* The consumer locks a slot that is free.
LEMMA ConsumerLocks ==
    ASSUME TypeOK, NEW slot \in Nat, CanLock(slot),
           slotMutexOwner' = lockSlot(slotMutexOwner, slot, 1)
    PROVE  /\ slotMutexOwner' \in [Mutexes -> {0, 1, 2}]
           /\ \A m \in Mutexes : slotMutexOwner[m] = 2 => slotMutexOwner'[m] = 2
           /\ \A m \in Mutexes : slotMutexOwner'[m] = 1 <=>
                 slotMutexOwner[m] = 1 \/ m = MutexOf(slot)
<1>1. slotMutexOwner \in [Mutexes -> {0, 1, 2}] /\ slotMutexOwner[MutexOf(slot)] = 0
  BY DEF TypeOK, CanLock
<1>2. /\ slotMutexOwner' \in [Mutexes -> {0, 1, 2}] /\ slotMutexOwner'[MutexOf(slot)] = 1
      /\ \A m \in Mutexes : m # MutexOf(slot) => slotMutexOwner'[m] = slotMutexOwner[m]
  BY <1>1, LockedType
<1> QED BY <1>1, <1>2

LEMMA FirstReadBasic ==
    ASSUME BasicInv, FirstRead
    PROVE  BasicInv'
<1>1. TypeOK /\ Consumers /\ Phases /\ Readers
  BY DEF BasicInv
<1>2. /\ pc = "call" /\ lockstart = -1 /\ CanLock(1) /\ muxindex' = SlotUnits
      /\ lockstart' = 1 /\ lockend' = 1 /\ pc' = "window"
      /\ slotMutexOwner' = lockSlot(slotMutexOwner, 1, 1)
      /\ UNCHANGED <<files, file, numread, dataremaining, keepreading, muxend, n2, taken,
                     lastslot, endindex, readbuffer, readbufferwriteslot, reader, position>>
  BY DEF FirstRead, ring
<1>3. NumFiles' = NumFiles /\ Units' = Units /\ (Wanted' <=> Wanted) /\ Wanted
  BY <1>2, FileStays, WantedWhen
<1>4. /\ slotMutexOwner' \in [Mutexes -> {0, 1, 2}]
      /\ \A m \in Mutexes : slotMutexOwner[m] = 2 => slotMutexOwner'[m] = 2
      /\ \A m \in Mutexes : slotMutexOwner'[m] = 1 <=> slotMutexOwner[m] = 1 \/ m = MutexOf(1)
  BY <1>1, <1>2, ConsumerLocks
<1>5. TypeOK'
  <2>1. muxindex' \in 0 .. BufferUnits - 1
    <3>1. Round >= SlotUnits /\ Round \in Nat /\ BufferUnits = Round + SlotUnits
      BY RoundIs
    <3> QED BY <1>2, <3>1, Sizes
  <2>2. lockstart' \in -2 .. Slots - 1 /\ lockend' \in -2 .. Slots
    BY <1>2, Sizes
  <2>3. pc' \in ConsumerSteps
    BY <1>2 DEF ConsumerSteps
  <2> QED BY <1>1, <1>2, <1>3, <1>4, <2>1, <2>2, <2>3 DEF TypeOK, ConsumerSteps
<1>6. Readers'
  BY <1>1, <1>2, <1>4, ReadersKept
<1>7. Consumers'
  <2>1. ~HasSlots /\ HasSlots'
    BY <1>2 DEF HasSlots
  <2>2. \A m \in Mutexes : slotMutexOwner[m] # 1
    BY <1>1, <2>1 DEF Consumers
  <2>3. \A m : (\E slot \in 1 .. 1 : m = MutexOf(slot)) <=> m = MutexOf(1)
    OBVIOUS
  <2> QED BY <1>2, <1>4, <2>1, <2>2, <2>3 DEF Consumers, MutexOf
<1>8. Phases' /\ AllTaken'
  BY <1>1, <1>2, <1>3 DEF Phases, AllTaken
<1> QED BY <1>5, <1>6, <1>7, <1>8 DEF BasicInv

LEMMA GrabSlotBasic ==
    ASSUME BasicInv, GrabSlot
    PROVE  BasicInv'
<1>1. TypeOK /\ Consumers /\ Phases /\ Readers
  BY DEF BasicInv
<1>2. /\ pc = "grab" /\ lockend < n2 /\ CanLock(lockend + 1) /\ lockend' = lockend + 1
      /\ slotMutexOwner' = lockSlot(slotMutexOwner, lockend + 1, 1)
      /\ UNCHANGED <<files, pc, file, numread, dataremaining, keepreading, muxindex, muxend,
                     n2, taken, lockstart, lastslot, endindex, readbuffer, readbufferwriteslot,
                     reader, position>>
  BY DEF GrabSlot, ring
<1>3. NumFiles' = NumFiles /\ Units' = Units /\ (Wanted' <=> Wanted) /\ Wanted
  BY <1>2, FileStays, WantedWhen
<1>4. /\ lockstart \in Nat /\ lockend \in Nat /\ lockstart <= lockend /\ n2 \in Nat /\ n2 <= Slots
      /\ Slots \in Nat /\ lockend + 1 \in Nat
  BY <1>1, <1>2, NumbersAre, Sizes DEF Phases
<1>5. /\ slotMutexOwner' \in [Mutexes -> {0, 1, 2}]
      /\ \A m \in Mutexes : slotMutexOwner[m] = 2 => slotMutexOwner'[m] = 2
      /\ \A m \in Mutexes : slotMutexOwner'[m] = 1 <=>
            slotMutexOwner[m] = 1 \/ m = MutexOf(lockend + 1)
  BY <1>1, <1>2, <1>4, ConsumerLocks
<1>6. TypeOK'
  <2>1. lockend' \in -2 .. Slots
    BY <1>2, <1>4
  <2> QED BY <1>1, <1>2, <1>3, <1>5, <2>1 DEF TypeOK
<1>7. Readers'
  BY <1>1, <1>2, <1>5, ReadersKept
<1>8. Consumers'
  <2>1. HasSlots /\ HasSlots'
    BY <1>2, <1>4 DEF HasSlots
  <2>2. \A slot : slot \in lockstart .. lockend + 1 <=> slot \in lockstart .. lockend \/ slot = lockend + 1
    BY <1>4
  <2>3. \A m : (\E slot \in lockstart .. lockend + 1 : m = MutexOf(slot))
                  <=> (\E slot \in lockstart .. lockend : m = MutexOf(slot)) \/ m = MutexOf(lockend + 1)
    BY <2>2
  <2> QED BY <1>1, <1>2, <1>5, <2>1, <2>3 DEF Consumers, MutexOf
<1>9. Phases' /\ AllTaken'
  BY <1>1, <1>2, <1>3, <1>4 DEF Phases, AllTaken
<1> QED BY <1>6, <1>7, <1>8, <1>9 DEF BasicInv
-------------------------------------------------------------------------------
(* What vdifmux is shown and what it uses.                                     *)

\* The consumer has all slots it looks at, and no reader has the last of them.
LEMMA GrabbedAll ==
    ASSUME BasicInv, Reading, NEW c \in Rounds, NEW d \in Rounds, ConsumerAt(c), WindowAt(c, d),
           pc \in {"grab", "mux"}, n2 <= lockend
    PROVE  /\ lockstart \in Nat /\ lockstart <= n2
           /\ Active(file) => Held(file) # n2
<1>1. TypeOK /\ Consumers /\ Phases /\ Readers /\ file \in 1 .. NumFiles
  BY DEF BasicInv, Reading, Wanted
<1>2. lockstart \in Nat /\ lockend \in Int /\ n2 \in Nat /\ muxindex \in Nat
  BY <1>1, NumbersAre DEF Phases
<1>3. /\ Place(lockstart) <= muxindex /\ muxindex < Place(n2 + 1)
  BY <1>2 DEF ConsumerAt, WindowAt
<1>4. Place(lockstart) < Place(n2) + SlotUnits
  BY <1>2, <1>3, PlaceIs, Sizes
<1>5. lockstart <= n2
  BY <1>2, <1>4, PlaceOrder
<1>6. n2 \in lockstart .. lockend /\ MutexOf(n2) \in Mutexes
  BY <1>2, <1>5, MutexIs
<1>7. HasSlots
  BY <1>2 DEF HasSlots
<1>8. slotMutexOwner[MutexOf(n2)] = 1
  BY <1>1, <1>6, <1>7 DEF Consumers
<1>9. Active(file) => slotMutexOwner[MutexOf(Held(file))] = 2
  BY <1>1 DEF Readers
<1> QED BY <1>2, <1>5, <1>8, <1>9

\* With the end of the file in the last slot of these, the reader has ended and
\* the consumer is in the reader's round.
LEMMA EndShown ==
    ASSUME BasicInv, Reading, NEW c \in Rounds, NEW d \in Rounds, Where(c, d),
           pc \in {"grab", "mux"}, n2 <= lockend, lastslot = n2
    PROVE  AtEnd /\ c = d
<1>1. TypeOK /\ Readers /\ file \in 1 .. NumFiles
  BY DEF BasicInv, Reading, Wanted
<1>2. ConsumerAt(c) /\ ReaderAt(d) /\ Behind(c, d) /\ WindowAt(c, d)
  BY DEF Where
<1>3. lockstart \in Nat /\ lockstart <= n2 /\ (Active(file) => Held(file) # n2)
  BY <1>2, GrabbedAll
<1>4. n2 \in Nat /\ c \in Nat /\ d \in Nat /\ lockmod \in Nat
  BY <1>1, NumbersAre, RoundsAre, Sizes
<1>5. reader[file].at \in ReaderStates /\ lastslot >= 0
  BY <1>1, <1>4, ReaderIs
<1>6. reader[file].at \notin {"none", "begin", "read", "lock"}
  BY <1>2, <1>4, <1>5 DEF ReaderAt
<1>7. reader[file].at \notin {"short", "last"}
  BY <1>1, <1>3 DEF Readers, Active, Held
<1>8. AtEnd
  BY <1>5, <1>6, <1>7 DEF AtEnd, ReaderStates
<1>9. c <= d /\ lastslot + d < c + lockstart + lockmod
  BY <1>2, <1>3, <1>8 DEF Behind, FirstOf
<1>10. c < d => c + lockmod <= d
  BY RoundsAre
<1> QED BY <1>3, <1>4, <1>8, <1>9, <1>10

\* Where the consumer is in front of the end, when it is in the reader's round.
LEMMA EndDistance ==
    ASSUME BasicInv, Reading, NEW c \in Rounds, ConsumerAt(c), ReaderAt(c), AtEnd, lockstart >= 0,
           pc # "wrap"
    PROVE  Units - taken = endindex - muxindex
<1>1. TypeOK
  BY DEF BasicInv
<1>2. taken + SlotUnits = muxindex + Place(c) /\ Units + SlotUnits = endindex + Place(c)
  BY DEF ConsumerAt, ReaderAt
<1>3. /\ taken \in Nat /\ muxindex \in Nat /\ endindex \in Nat /\ Units \in Nat /\ Place(c) \in Nat
      /\ SlotUnits \in Nat
  BY <1>1, NumbersAre, FilesAre, RoundsAre, PlaceIs, Sizes
<1> QED BY <1>2, <1>3

\* vdifmux uses something, and not more than it is shown.
LEMMA UsesAre ==
    ASSUME TypeOK, muxindex < muxend, NEW used \in Uses
    PROVE  used \in Nat /\ used >= 1 /\ muxindex + used <= muxend
<1>1. muxindex \in Nat /\ muxend \in Nat
  BY NumbersAre
<1>2. used = muxend - muxindex \/ used \in 1 .. muxend - muxindex - 1
  BY DEF Uses
<1> QED BY <1>1, <1>2

\* What vdifmux uses is in front of the end of the file, if that is not noticed.
Noticed(used) == EndOfScan(used) \/ taken + used < Units

LEMMA MuxNoticed ==
    ASSUME TypeOK, mishaps' = {}, pc = "mux", muxindex < muxend, NEW used \in Uses,
           MuxAllOfRing(used) \/ MuxOn(used)
    PROVE  /\ Noticed(used) /\ ~EndOfScan(used)
           /\ taken' = taken + used
<1>1. taken \in Nat /\ Units \in Nat /\ used \in Nat
  BY UsesAre, NumbersAre, FilesAre
<1>2. EndUnnoticed(used) /\ taken' = TakenWith(used) /\ ~EndOfScan(used)
  BY DEF MuxAllOfRing, MuxOn
<1>3. ~(taken + used >= Units)
  BY <1>2 DEF EndUnnoticed, Mishap
<1> QED BY <1>1, <1>2, <1>3 DEF Noticed, TakenWith

\* Slots that lie beyond the ring are locked only when the file ends in its last
\* slot.
LEMMA BeyondRing ==
    ASSUME BasicInv, Reading, NEW c \in Rounds, NEW d \in Rounds, Where(c, d),
           lockstart >= 0, lockend >= Slots
    PROVE  AtEnd /\ c = d /\ lockstart = lockmod /\ lastslot = lockmod
<1>1. TypeOK /\ Readers /\ file \in 1 .. NumFiles
  BY DEF BasicInv, Reading, Wanted
<1>2. ConsumerAt(c) /\ ReaderAt(d) /\ Behind(c, d)
  BY DEF Where
<1>3. /\ c \in Nat /\ d \in Nat /\ lockmod \in Nat /\ Slots = lockmod + 1 /\ lockend \in Int
      /\ lockmod >= 4
  BY <1>1, NumbersAre, RoundsAre, Sizes
<1>4. lockstart = lockmod /\ lastslot = lockmod
  BY <1>2 DEF ConsumerAt
<1>5. reader[file].at \in ReaderStates
  BY <1>1, ReaderIs
<1>6. reader[file].at \notin {"none", "begin", "read", "lock"}
  BY <1>2, <1>3, <1>4 DEF ReaderAt
<1>7. FirstOf(c) = c + lockmod
  BY <1>3, <1>4 DEF FirstOf
<1>8. (c < d => c + lockmod <= d) /\ (d < c => d + lockmod <= c)
  BY RoundsAre
<1>9. reader[file].at \notin {"short", "last"}
  <2> SUFFICES ASSUME reader[file].at \in {"short", "last"} PROVE FALSE
    OBVIOUS
  <2>1. Active(file) /\ Held(file) = lockmod
    BY <1>1, <1>4 DEF Active, Held, Readers
  <2>2. c + lockend < lockmod + d /\ lockmod + d < c + lockmod + lockmod
    BY <1>2, <1>3, <1>7, <2>1 DEF Behind
  <2> QED BY <1>3, <1>8, <2>2
<1>10. AtEnd
  BY <1>3, <1>4, <1>5, <1>6, <1>9 DEF AtEnd, ReaderStates
<1>11. c <= d /\ lockmod + d < c + lockmod + lockmod
  BY <1>2, <1>4, <1>7, <1>10 DEF Behind
<1> QED BY <1>3, <1>4, <1>8, <1>10, <1>11

\* What is shown ends in front of the slot of the end, if it is not that slot and
\* more than ReadUnits are not left in that.
LEMMA NotYetEnd ==
    ASSUME BasicInv, Reading, NEW c \in Rounds, NEW d \in Rounds, Where(c, d),
           pc \in {"grab", "mux"}, n2 <= lockend, lastslot # n2, AtEnd,
           ~(c = d /\ n2 = lastslot + 1 /\ muxindex + ReadUnits <= endindex)
    PROVE  n2 + c < lastslot + d
<1>1. TypeOK /\ ConsumerAt(c) /\ ReaderAt(d) /\ Behind(c, d) /\ WindowAt(c, d) /\ Phases
  BY DEF BasicInv, Where
<1>2. /\ n2 \in Nat /\ c \in Nat /\ d \in Nat /\ lockmod \in Nat /\ lastslot \in Int /\ lockend \in Int
      /\ lastslot >= 0 /\ Slots = lockmod + 1 /\ lockend <= Slots /\ lockstart \in Int
      /\ lastslot <= lockmod
  BY <1>1, NumbersAre, RoundsAre, Sizes DEF AtEnd
<1>3. lastslot >= 1 /\ lockstart >= 0
  BY <1>1, <1>2 DEF ReaderAt, Phases
<1>4. n2 + c <= lastslot + d /\ c <= d
  BY <1>1 DEF WindowAt, Behind
<1>5. c < d => c + lockmod <= d
  BY RoundsAre
<1>6. n2 + c # lastslot + d
  <2> SUFFICES ASSUME n2 + c = lastslot + d PROVE FALSE
    OBVIOUS
  <2>1. n2 >= Slots
    BY <1>2, <1>3, <1>4, <1>5
  <2>2. lockend >= Slots
    BY <1>2, <2>1, Sizes
  <2>3. c = d
    BY <1>3, <2>2, BeyondRing
  <2> QED BY <1>2, <2>3
<1> QED BY <1>2, <1>4, <1>6

\* What vdifmux uses is in front of the end of the file and of the ring.
LEMMA MuxRoom ==
    ASSUME BasicInv, Reading, NEW c \in Rounds, NEW d \in Rounds, Where(c, d),
           pc = "mux", NEW used \in Uses, Noticed(used)
    PROVE  /\ used \in Nat /\ used >= 1 /\ muxindex + used <= muxend /\ muxend <= Place(n2 + 1)
           /\ AtEnd => taken + used <= Units
           /\ AtEnd /\ ~EndOfScan(used) =>
                 taken + used < Units \/ (taken + used = Units /\ endindex = Place(lastslot))
           /\ ~EndOfScan(used) => muxindex + used <= BufferUnits
<1>1. /\ TypeOK /\ ConsumerAt(c) /\ ReaderAt(d) /\ Behind(c, d) /\ WindowAt(c, d) /\ Phases
      /\ file \in 1 .. NumFiles
  BY DEF BasicInv, Where, Reading, Wanted
<1>2. /\ n2 \in Nat /\ c \in Nat /\ d \in Nat /\ lockmod \in Nat /\ lastslot \in Int /\ lockend \in Int
      /\ Slots = lockmod + 1 /\ muxindex \in Nat /\ muxend \in Nat /\ endindex \in Nat /\ taken \in Nat
      /\ endindex < BufferUnits /\ BufferUnits \in Nat /\ n2 <= Slots /\ lockstart \in Int
      /\ lockend <= Slots /\ lastslot <= lockmod
  BY <1>1, NumbersAre, RoundsAre, Sizes
<1>3. Units \in Nat /\ MinLeft \in Nat /\ MinLeft >= 1 /\ SlotUnits \in Nat /\ ReadUnits \in Nat
  BY <1>1, FilesAre, Sizes
<1>4. used \in Nat /\ used >= 1 /\ muxindex + used <= muxend
  BY <1>1, UsesAre DEF WindowAt
<1>5. n2 <= lockend /\ muxend = EndOfSlots /\ lockstart >= 0
  BY <1>1 DEF WindowAt, Phases
<1>6. taken + SlotUnits = muxindex + Place(c) /\ Place(c) \in Nat
  BY <1>1, <1>2, <1>5, PlaceIs DEF ConsumerAt
<1>7. Place(n2 + 1) \in Nat /\ Place(n2) \in Nat /\ Place(n2 + 1) = Place(n2) + SlotUnits
  BY <1>2, PlaceIs
<1>8. CASE lastslot = n2
  <2>1. AtEnd /\ c = d
    BY <1>5, <1>8, EndShown
  <2>2. muxend = endindex /\ endindex < Place(n2 + 1)
    BY <1>1, <1>5, <1>8, <2>1 DEF EndOfSlots, ReaderAt
  <2>3. Units - taken = endindex - muxindex
    BY <1>1, <1>5, <2>1, EndDistance
  <2>4. ~EndOfScan(used) => muxindex + used + MinLeft <= endindex
    BY <1>2, <1>3, <1>4, <1>8 DEF EndOfScan
  <2> QED BY <1>2, <1>3, <1>4, <1>7, <2>2, <2>3, <2>4
<1>9. CASE lastslot # n2
  <2>1. muxend = Place(n2 + 1)
    BY <1>1, <1>5, <1>9, EndOfSlotsType
  <2>2. taken + used < Units
    BY <1>9 DEF Noticed, EndOfScan
  <2>3. muxindex + used <= BufferUnits
    <3>1. CASE n2 <= lockmod
      <4>1. Place(n2 + 1) <= Place(Slots)
        <5>1. n2 + 1 \in Int /\ Slots \in Int /\ n2 + 1 <= Slots
          BY <1>2, <3>1
        <5> QED BY <5>1, PlaceUp
      <4>2. BufferUnits = Place(Slots)
        BY Places
      <4> QED BY <1>2, <1>4, <1>7, <2>1, <4>1, <4>2
    <3>2. CASE n2 = Slots
      <4>1. AtEnd /\ c = d
        BY <1>2, <1>5, <3>2, BeyondRing
      <4>2. Units - taken = endindex - muxindex
        BY <1>1, <1>5, <4>1, EndDistance
      <4> QED BY <1>2, <1>3, <1>4, <2>2, <4>1, <4>2
    <3> QED BY <1>2, <3>1, <3>2
  <2>4. taken + used < Units \/ taken + used = Units => taken + used <= Units
    BY <1>2, <1>3, <1>4
  <2> QED BY <1>4, <1>7, <2>1, <2>2, <2>3, <2>4
<1> QED BY <1>8, <1>9
-------------------------------------------------------------------------------
(* The steps after vdifmux keep the types, the locks and the phases.           *)

\* Unlocking all that the consumer has.
LEMMA AllUnlocked ==
    ASSUME TypeOK, slotMutexOwner' = unlockAllSlots(slotMutexOwner)
    PROVE  /\ slotMutexOwner' \in [Mutexes -> {0, 1, 2}]
           /\ \A m \in Mutexes : slotMutexOwner[m] = 2 => slotMutexOwner'[m] = 2
           /\ \A m \in Mutexes : slotMutexOwner'[m] # 1
<1>1. slotMutexOwner \in [Mutexes -> {0, 1, 2}]
  BY DEF TypeOK
<1> QED BY <1>1, AllUnlockedType

LEMMA MuxToEndBasic ==
    ASSUME mishaps' = {}, BasicInv, Reading, FileInv, pc = "mux", NEW used \in Uses, MuxToEnd(used)
    PROVE  BasicInv'
<1>1. TypeOK /\ Consumers /\ Phases /\ Readers
  BY DEF BasicInv
<1>2. /\ EndOfScan(used) /\ muxindex' = muxindex + used /\ taken' = TakenWith(used)
      /\ dataremaining' = FALSE /\ slotMutexOwner' = unlockAllSlots(slotMutexOwner)
      /\ lockstart' = -2 /\ lockend' = -2 /\ pc' = "post"
      /\ UNCHANGED <<files, file, numread, keepreading, muxend, n2, lastslot, endindex, readbuffer,
                     readbufferwriteslot, reader, position>>
  BY DEF MuxToEnd, ring
<1>3. NumFiles' = NumFiles /\ Units' = Units /\ (Wanted' <=> Wanted) /\ Wanted
  BY <1>2, FileStays DEF Reading
<1>4. PICK c \in Rounds, d \in Rounds : Where(c, d)
  BY DEF FileInv, Where
<1>5. used \in Nat /\ used >= 1 /\ muxindex + used <= muxend
  BY <1>1, <1>4, UsesAre DEF Where, WindowAt
<1>6. lastslot = n2 /\ lockstart >= 0 /\ n2 <= lockend /\ muxend = EndOfSlots
  BY <1>1, <1>2, <1>4 DEF EndOfScan, Phases, Where, WindowAt
<1>7. AtEnd /\ c = d /\ ConsumerAt(c) /\ ReaderAt(c)
  BY <1>4, <1>6, EndShown DEF Where
<1>8. Units - taken = endindex - muxindex /\ muxend = endindex
  BY <1>6, <1>7, EndDistance DEF EndOfSlots
<1>9. /\ muxindex \in Nat /\ taken \in Nat /\ endindex \in Nat /\ endindex < BufferUnits
      /\ BufferUnits \in Nat /\ Units \in Nat /\ MinLeft \in Nat /\ ReadUnits \in Nat
  BY <1>1, NumbersAre, FilesAre, Sizes
<1>10. taken' = taken + used /\ taken + used <= Units
  BY <1>2, <1>5, <1>8, <1>9 DEF TakenWith
<1>11. /\ slotMutexOwner' \in [Mutexes -> {0, 1, 2}]
       /\ \A m \in Mutexes : slotMutexOwner[m] = 2 => slotMutexOwner'[m] = 2
       /\ \A m \in Mutexes : slotMutexOwner'[m] # 1
  BY <1>1, <1>2, AllUnlocked
<1>12. TypeOK'
  <2>1. muxindex' \in 0 .. BufferUnits - 1 /\ taken' \in Nat
    BY <1>2, <1>5, <1>8, <1>9, <1>10
  <2>2. lockstart' \in -2 .. Slots - 1 /\ lockend' \in -2 .. Slots
    BY <1>2, Sizes
  <2> QED BY <1>1, <1>2, <1>3, <1>11, <2>1, <2>2 DEF TypeOK
<1>13. Readers'
  BY <1>1, <1>2, <1>11, ReadersKept
<1>14. Consumers'
  <2>1. ~HasSlots'
    BY <1>2 DEF HasSlots
  <2> QED BY <1>11, <2>1 DEF Consumers
<1>15. Phases'
  BY <1>1, <1>2, <1>3 DEF Phases
<1>16. AllTaken'
  <2>1. ReadUnits \div 4 \in Int
    BY <1>9
  <2>2. muxindex + used + MinLeft > endindex \/ muxend - muxindex < ReadUnits \div 4
    BY <1>2 DEF EndOfScan
  <2>3. /\ taken' <= Units'
        /\ taken' + MinLeft > Units' \/ taken' + (ReadUnits \div 4) > Units'
    BY <1>3, <1>5, <1>8, <1>9, <1>10, <2>1, <2>2
  <2> QED BY <2>3 DEF AllTaken
<1> QED BY <1>12, <1>13, <1>14, <1>15, <1>16 DEF BasicInv

LEMMA MuxAllOfRingBasic ==
    ASSUME mishaps' = {}, BasicInv, Reading, FileInv, pc = "mux", NEW used \in Uses, MuxAllOfRing(used)
    PROVE  BasicInv'
<1>1. TypeOK /\ Consumers /\ Phases /\ Readers
  BY DEF BasicInv
<1>2. /\ muxindex' = SlotUnits /\ pc' = "wrap"
      /\ UNCHANGED <<files, file, numread, dataremaining, keepreading, muxend, n2, lockstart, lockend,
                     slotMutexOwner, lastslot, endindex, readbuffer, readbufferwriteslot, reader,
                     position>>
  BY DEF MuxAllOfRing, ring, locks
<1>3. NumFiles' = NumFiles /\ Units' = Units /\ (Wanted' <=> Wanted) /\ Wanted
  BY <1>2, FileStays DEF Reading
<1>4. PICK c \in Rounds, d \in Rounds : Where(c, d)
  BY DEF FileInv, Where
<1>5. used \in Nat /\ taken' = taken + used
  BY <1>1, <1>4, UsesAre, MuxNoticed DEF Where, WindowAt
<1>6. TypeOK'
  <2>1. muxindex' \in 0 .. BufferUnits - 1
    <3>1. Round >= SlotUnits /\ Round \in Nat /\ BufferUnits = Round + SlotUnits
      BY RoundIs
    <3> QED BY <1>2, <3>1, Sizes
  <2>2. taken' \in Nat
    BY <1>1, <1>5, NumbersAre
  <2> QED BY <1>1, <1>2, <1>3, <2>1, <2>2 DEF TypeOK
<1>7. Readers'
  BY <1>1, <1>2, ReadersKept
<1>8. Consumers'
  BY <1>1, <1>2 DEF Consumers, HasSlots, MutexOf
<1>9. Phases' /\ AllTaken'
  BY <1>1, <1>2, <1>3 DEF Phases, AllTaken
<1> QED BY <1>6, <1>7, <1>8, <1>9 DEF BasicInv

LEMMA RestartRingBasic ==
    ASSUME BasicInv, Reading, FileInv, RestartRing
    PROVE  BasicInv'
<1>1. TypeOK /\ Consumers /\ Phases /\ Readers
  BY DEF BasicInv
<1>2. /\ pc = "wrap" /\ CanLock(1) /\ lockstart' = 1 /\ lockend' = 1 /\ pc' = "post"
      /\ slotMutexOwner' = unlockSlots(lockSlot(slotMutexOwner, 1, 1), lockstart, lockmod)
      /\ UNCHANGED <<files, file, numread, dataremaining, keepreading, muxindex, muxend, n2, taken,
                     lastslot, endindex, readbuffer, readbufferwriteslot, reader, position>>
  BY DEF RestartRing, ring, lockmod
<1>3. NumFiles' = NumFiles /\ Units' = Units /\ (Wanted' <=> Wanted) /\ Wanted
  BY <1>2, FileStays DEF Reading
<1>4. PICK c \in Rounds, d \in Rounds : Where(c, d)
  BY DEF FileInv, Where
<1>5. lockend = lockmod /\ lockstart = lockmod - 1
  BY <1>2, <1>4 DEF Where, ConsumerAt
<1>6. lockmod \in Nat /\ lockmod >= 4 /\ lockstart \in Nat /\ HasSlots
  BY <1>2, <1>5, Sizes DEF HasSlots
<1> DEFINE own == lockSlot(slotMutexOwner, 1, 1)
           gone(m) == \E slot \in lockstart .. lockmod : m = MutexOf(slot)
<1>7. slotMutexOwner \in [Mutexes -> {0, 1, 2}] /\ slotMutexOwner[MutexOf(1)] = 0
  BY <1>1, <1>2 DEF TypeOK, CanLock
<1>8. /\ own \in [Mutexes -> {0, 1, 2}] /\ own[MutexOf(1)] = 1
      /\ \A m \in Mutexes : m # MutexOf(1) => own[m] = slotMutexOwner[m]
  BY <1>7, LockedType
<1> HIDE DEF own
<1>9. /\ slotMutexOwner' \in [Mutexes -> {0, 1, 2}]
      /\ \A m \in Mutexes : (gone(m) => slotMutexOwner'[m] = 0) /\ (~gone(m) => slotMutexOwner'[m] = own[m])
  <2>1. slotMutexOwner' = unlockSlots(own, lockstart, lockmod)
    BY <1>2 DEF own
  <2>2. lockstart \in Int /\ lockmod \in Int
    BY <1>6
  <2> QED BY <1>8, <2>1, <2>2, UnlockedType
<1>10. \A m \in Mutexes : slotMutexOwner[m] = 1 <=> gone(m)
  BY <1>1, <1>5, <1>6 DEF Consumers
<1>11. MutexOf(1) \in Mutexes /\ ~gone(MutexOf(1))
  <2>1. MutexOf(1) \in Mutexes
    BY MutexIs
  <2> QED BY <1>7, <1>10, <2>1
<1> HIDE DEF gone
<1>12. /\ \A m \in Mutexes : slotMutexOwner[m] = 2 => slotMutexOwner'[m] = 2
       /\ \A m \in Mutexes : slotMutexOwner'[m] = 1 <=> m = MutexOf(1)
  BY <1>7, <1>8, <1>9, <1>10, <1>11
<1>13. TypeOK'
  <2>1. lockstart' \in -2 .. Slots - 1 /\ lockend' \in -2 .. Slots
    BY <1>2, Sizes
  <2> QED BY <1>1, <1>2, <1>3, <1>9, <2>1 DEF TypeOK
<1>14. Readers'
  BY <1>1, <1>2, <1>12, ReadersKept
<1>15. Consumers'
  <2>1. HasSlots'
    BY <1>2 DEF HasSlots
  <2>2. \A m : (\E slot \in 1 .. 1 : m = MutexOf(slot)) <=> m = MutexOf(1)
    OBVIOUS
  <2> QED BY <1>2, <1>12, <2>1, <2>2 DEF Consumers, MutexOf
<1>16. Phases' /\ AllTaken'
  BY <1>1, <1>2, <1>3 DEF Phases, AllTaken
<1> QED BY <1>13, <1>14, <1>15, <1>16 DEF BasicInv

LEMMA EndOfJobBasic ==
    ASSUME BasicInv, EndOfJob
    PROVE  BasicInv'
<1>1. TypeOK /\ Consumers /\ Phases /\ Readers
  BY DEF BasicInv
<1>2. /\ pc = "post" /\ CountRead /\ keepreading' = FALSE /\ dataremaining' = FALSE
      /\ lockstart >= 0 => slotMutexOwner' = unlockAllSlots(slotMutexOwner) /\ pc' = "join"
      /\ ~(lockstart >= 0) => slotMutexOwner' = slotMutexOwner /\ pc' = "loop"
      /\ UNCHANGED <<files, file, muxindex, muxend, n2, taken, lockstart, lockend,
                     lastslot, endindex, readbuffer, readbufferwriteslot, reader, position>>
  BY DEF EndOfJob, ring
<1>3. NumFiles' = NumFiles /\ Units' = Units /\ (Wanted' <=> Wanted) /\ Wanted
  BY <1>2, FileStays, WantedWhen
<1>4. numread' \in 0 .. 3
  BY <1>1, <1>2 DEF TypeOK, CountRead
<1>5. /\ slotMutexOwner' \in [Mutexes -> {0, 1, 2}]
      /\ \A m \in Mutexes : slotMutexOwner[m] = 2 => slotMutexOwner'[m] = 2
      /\ \A m \in Mutexes : slotMutexOwner'[m] # 1
      /\ ~HasSlots'
  <2>1. CASE lockstart >= 0
    <3>1. /\ slotMutexOwner' \in [Mutexes -> {0, 1, 2}]
          /\ \A m \in Mutexes : slotMutexOwner[m] = 2 => slotMutexOwner'[m] = 2
          /\ \A m \in Mutexes : slotMutexOwner'[m] # 1
      BY <1>1, <1>2, <2>1, AllUnlocked
    <3>2. ~HasSlots'
      BY <1>2, <2>1 DEF HasSlots
    <3> QED BY <3>1, <3>2
  <2>2. CASE ~(lockstart >= 0)
    <3>1. ~HasSlots /\ ~HasSlots'
      BY <1>2, <2>2 DEF HasSlots
    <3> QED BY <1>1, <1>2, <2>2, <3>1 DEF Consumers, TypeOK
  <2> QED BY <2>1, <2>2
<1>6. pc' \in {"join", "loop"}
  BY <1>2
<1>7. TypeOK'
  BY <1>1, <1>2, <1>3, <1>4, <1>5, <1>6 DEF TypeOK
<1>8. Readers'
  BY <1>1, <1>2, <1>5, ReadersKept
<1>9. Consumers'
  BY <1>5 DEF Consumers
<1>10. Phases' /\ AllTaken'
  BY <1>1, <1>2, <1>3, <1>6 DEF Phases, AllTaken
<1> QED BY <1>7, <1>8, <1>9, <1>10 DEF BasicInv

LEMMA JoinReaderBasic ==
    ASSUME BasicInv, JoinReader
    PROVE  BasicInv'
<1>1. TypeOK /\ Consumers /\ Phases /\ Readers
  BY DEF BasicInv
<1>2. /\ pc = "join" /\ lockstart' = -2 /\ lockend' = -2 /\ pc' = "loop"
      /\ UNCHANGED <<files, file, numread, dataremaining, keepreading, muxindex, muxend, n2, taken,
                     slotMutexOwner, lastslot, endindex, readbuffer, readbufferwriteslot, reader,
                     position>>
  BY DEF JoinReader, ring
<1>3. NumFiles' = NumFiles /\ Units' = Units /\ (Wanted' <=> Wanted) /\ Wanted
  BY <1>2, FileStays, WantedWhen
<1>4. TypeOK'
  <2>1. lockstart' \in -2 .. Slots - 1 /\ lockend' \in -2 .. Slots
    BY <1>2, Sizes
  <2> QED BY <1>1, <1>2, <1>3, <2>1 DEF TypeOK
<1>5. Readers'
  BY <1>1, <1>2, ReadersKept
<1>6. Consumers'
  BY <1>1, <1>2 DEF Consumers, HasSlots
<1>7. Phases' /\ AllTaken'
  BY <1>1, <1>2, <1>3 DEF Phases, AllTaken
<1> QED BY <1>4, <1>5, <1>6, <1>7 DEF BasicInv
\* The slots that stay locked begin with that of the next unit, or just after it.
LEMMA KeptSlot ==
    ASSUME BasicInv, Reading, NEW c \in Rounds, NEW d \in Rounds, Where(c, d), pc = "mux",
           NEW used \in Uses, Noticed(used), ~EndOfScan(used), muxindex + used # BufferUnits
    PROVE  /\ muxindex + used \in 0 .. BufferUnits - 1
           /\ FirstKept(muxindex + used) \in Nat
           /\ FirstKept(muxindex + used) \in lockstart .. lockend
           /\ FirstKept(muxindex + used) <= lockmod
           /\ Place(FirstKept(muxindex + used)) <= muxindex + used
           /\ muxindex + used <= Place(FirstKept(muxindex + used) + 1)
           /\ FirstKept(muxindex + used) = lockmod /\ lastslot # lockmod =>
                 lockend = lockmod /\ lockstart >= lockmod - 1
           /\ FirstKept(muxindex + used) = lastslot + 1 => ~AtEnd \/ c # d
<1> DEFINE index == muxindex + used
           kept == FirstKept(index)
           n3 == index \div SlotUnits
<1>1. TypeOK /\ ConsumerAt(c) /\ ReaderAt(d) /\ Behind(c, d) /\ WindowAt(c, d) /\ Phases
  BY DEF BasicInv, Where
<1>2. /\ used \in Nat /\ used >= 1 /\ index <= muxend /\ muxend <= Place(n2 + 1)
      /\ index <= BufferUnits /\ (AtEnd => taken + used <= Units)
  BY MuxRoom
<1>3. /\ muxindex \in Nat /\ muxend \in Nat /\ n2 \in Nat /\ lockend \in Int /\ lockend <= Slots
      /\ lockstart \in Nat /\ lockstart <= lockend /\ BufferUnits \in Nat /\ n2 <= lockend
      /\ lockmod \in Nat /\ Slots = lockmod + 1 /\ lockstart <= lockmod /\ lastslot \in Int
      /\ endindex \in Nat /\ taken \in Nat
  <2>1. lockstart >= 0 /\ n2 <= lockend /\ lockstart <= lockend
    BY <1>1 DEF Phases, WindowAt
  <2> QED BY <1>1, <2>1, NumbersAre, Sizes
<1>4. index \in Nat /\ index < BufferUnits
  BY <1>2, <1>3
<1>5. lockend <= lockstart + 1 /\ (lockend >= Slots => lockstart = lockmod)
         /\ (lockstart = lockmod => lastslot = lockmod) /\ Place(lockstart) <= muxindex
  BY <1>1, <1>3 DEF ConsumerAt
<1> HIDE DEF index
<1>6. n3 \in Nat /\ Place(n3) <= index /\ index < Place(n3 + 1)
  BY <1>4, SlotOfUnit
<1> HIDE DEF n3
<1>7. kept = IF n3 <= lockstart THEN lockstart ELSE IF n3 < lockend THEN n3 ELSE lockend
  BY DEF FirstKept, n3
<1> HIDE DEF kept
<1>8. kept \in lockstart .. lockend /\ kept \in Nat
  BY <1>3, <1>6, <1>7
<1>9. Place(kept) \in Nat /\ Place(kept + 1) \in Nat /\ Place(n3) \in Nat /\ Place(n3 + 1) \in Nat
         /\ Place(lockstart) \in Nat /\ Place(n2 + 1) \in Nat
  BY <1>3, <1>6, <1>8, PlaceIs
<1>10. Place(kept) <= index
  <2>1. CASE n3 <= lockstart
    <3>1. kept = lockstart
      BY <1>7, <2>1
    <3> QED BY <1>2, <1>3, <1>5, <1>9, <3>1 DEF index
  <2>2. CASE ~(n3 <= lockstart)
    <3>1. kept <= n3
      BY <1>3, <1>6, <1>7, <2>2
    <3>2. Place(kept) <= Place(n3)
      <4>1. kept \in Int /\ n3 \in Int
        BY <1>6, <1>8
      <4> QED BY <3>1, <4>1, PlaceUp
    <3> QED BY <1>4, <1>6, <1>9, <3>2
  <2> QED BY <2>1, <2>2
<1>11. index <= Place(kept + 1)
  <2>1. CASE n3 <= kept
    <3>1. Place(n3 + 1) <= Place(kept + 1)
      <4>1. kept + 1 \in Int /\ n3 + 1 \in Int /\ n3 + 1 <= kept + 1
        BY <1>6, <1>8, <2>1
      <4> QED BY <4>1, PlaceUp
    <3> QED BY <1>4, <1>6, <1>9, <3>1
  <2>2. CASE ~(n3 <= kept)
    <3>1. kept = lockend
      BY <1>3, <1>6, <1>7, <2>2
    <3>2. Place(n2 + 1) <= Place(kept + 1)
      <4>1. kept + 1 \in Int /\ n2 + 1 \in Int /\ n2 + 1 <= kept + 1
        BY <1>3, <1>8, <3>1
      <4> QED BY <4>1, PlaceUp
    <3> QED BY <1>2, <1>3, <1>4, <1>9, <3>2
  <2> QED BY <2>1, <2>2
<1>12. kept <= lockmod
  <2> SUFFICES ASSUME kept > lockmod PROVE FALSE
    BY <1>3, <1>8
  <2>1. kept = Slots
    BY <1>3, <1>8
  <2>2. BufferUnits = Place(Slots)
    BY Places
  <2> QED BY <1>3, <1>4, <1>10, <2>1, <2>2
<1>13. kept = lockmod /\ lastslot # lockmod => lockend = lockmod /\ lockstart >= lockmod - 1
  BY <1>3, <1>5, <1>8
<1>14. kept = lastslot + 1 => ~AtEnd \/ c # d
  <2> SUFFICES ASSUME kept = lastslot + 1, AtEnd, c = d PROVE FALSE
    OBVIOUS
  <2>1. Units - taken = endindex - muxindex
    BY <1>1, <1>3, EndDistance
  <2>2. endindex < Place(lastslot + 1) /\ Units \in Nat
    BY <1>1, FilesAre DEF ReaderAt
  <2> QED BY <1>2, <1>3, <1>9, <1>10, <2>1, <2>2 DEF index
<1>15. index \in 0 .. BufferUnits - 1
  BY <1>3, <1>4
<1> QED BY <1>8, <1>10, <1>11, <1>12, <1>13, <1>14, <1>15 DEF index, kept

\* What MuxOn does, when it moves the rest of the last slot and when it does not.
Moved(used) == FirstKept(muxindex + used) = lockmod /\ lastslot # lockmod

LEMMA MuxOnDoes ==
    ASSUME NEW used, MuxOn(used), muxindex + used \in Int, BufferUnits \in Int
    PROVE  /\ ~EndOfScan(used) /\ muxindex + used # BufferUnits
           /\ pc' = "post"
           /\ slotMutexOwner' = unlockSlots(slotMutexOwner, lockstart, FirstKept(muxindex + used) - 1)
           /\ UNCHANGED <<files, file, numread, dataremaining, keepreading, muxend, n2, lastslot,
                          endindex, readbufferwriteslot, reader, position>>
           /\ DOMAIN readbuffer' = DOMAIN readbuffer
           /\ ~Moved(used) => /\ lockstart' = FirstKept(muxindex + used)
                              /\ muxindex' = muxindex + used
                              /\ lockend' = lockend /\ readbuffer' = readbuffer
           /\ Moved(used) =>
                 /\ lockstart' = 0 /\ lockend' = 0
                 /\ muxindex' = (muxindex + used) % SlotUnits
                 /\ readbuffer' = [x \in DOMAIN readbuffer |->
                       IF x \in muxindex' .. muxindex' + (BufferUnits - (muxindex + used)) - 1
                       THEN readbuffer[x - muxindex' + muxindex + used] ELSE readbuffer[x]]
<1>1. /\ ~EndOfScan(used) /\ muxindex + used # BufferUnits
      /\ pc' = "post"
      /\ slotMutexOwner' = unlockSlots(slotMutexOwner, lockstart, FirstKept(muxindex + used) - 1)
      /\ UNCHANGED <<files, file, numread, dataremaining, keepreading, muxend, n2, lastslot,
                     endindex, readbufferwriteslot, reader, position>>
  BY DEF MuxOn
<1>2. CASE Moved(used)
  <2>1. FirstKept(muxindex + used) = Slots - 1 /\ lastslot # Slots - 1
    BY <1>2 DEF Moved, lockmod
  <2> QED BY <1>1, <1>2, <2>1 DEF MuxOn
<1>3. CASE ~Moved(used)
  <2>1. ~(FirstKept(muxindex + used) = Slots - 1 /\ lastslot # Slots - 1)
    BY <1>3 DEF Moved, lockmod
  <2> QED BY <1>1, <1>3, <2>1 DEF MuxOn
<1> QED BY <1>2, <1>3

LEMMA MuxOnBasic ==
    ASSUME mishaps' = {}, BasicInv, Reading, FileInv, pc = "mux", NEW used \in Uses, MuxOn(used)
    PROVE  BasicInv'
<1> DEFINE index == muxindex + used
           kept == FirstKept(index)
           gone(m) == \E slot \in lockstart .. kept - 1 : m = MutexOf(slot)
           stay(m) == \E slot \in kept .. lockend : m = MutexOf(slot)
<1>1. TypeOK /\ Consumers /\ Phases /\ Readers
  BY DEF BasicInv
<1>0. Noticed(used) /\ taken' = taken + used /\ used \in Nat /\ muxindex + used \in Int
         /\ BufferUnits \in Int
  <2>1. muxindex < muxend
    BY DEF FileInv, WindowAt
  <2> QED BY <1>1, <2>1, UsesAre, MuxNoticed, NumbersAre
<1>2. /\ ~EndOfScan(used) /\ index # BufferUnits /\ pc' = "post"
      /\ slotMutexOwner' = unlockSlots(slotMutexOwner, lockstart, kept - 1)
      /\ UNCHANGED <<files, file, numread, dataremaining, keepreading, muxend, n2, lastslot,
                     endindex, readbufferwriteslot, reader, position>>
      /\ DOMAIN readbuffer' = DOMAIN readbuffer
      /\ ~Moved(used) => lockstart' = kept /\ muxindex' = index /\ lockend' = lockend
      /\ Moved(used) => lockstart' = 0 /\ lockend' = 0 /\ muxindex' = index % SlotUnits
  BY <1>0, MuxOnDoes
<1>3. NumFiles' = NumFiles /\ Units' = Units /\ (Wanted' <=> Wanted) /\ Wanted
  BY <1>2, FileStays DEF Reading
<1>4. PICK c \in Rounds, d \in Rounds : Where(c, d)
  BY DEF FileInv, Where
<1>5. /\ index \in 0 .. BufferUnits - 1 /\ kept \in Nat /\ kept \in lockstart .. lockend
      /\ kept <= lockmod /\ (kept = lockmod /\ lastslot # lockmod => lockend = lockmod)
  BY <1>0, <1>2, <1>4, KeptSlot
<1>6. /\ lockstart \in Nat /\ lockend \in Int /\ lockend <= lockstart + 1 /\ HasSlots /\ lockmod \in Nat
      /\ lockmod >= 4 /\ Slots = lockmod + 1 /\ lockend <= Slots
  BY <1>1, <1>4, NumbersAre, Sizes DEF Phases, Where, ConsumerAt, HasSlots
<1>7. used \in Nat /\ taken' = taken + used
  BY <1>0
<1>8. slotMutexOwner \in [Mutexes -> {0, 1, 2}]
  BY <1>1 DEF TypeOK
<1> HIDE DEF index, kept
<1>9. /\ slotMutexOwner' \in [Mutexes -> {0, 1, 2}]
      /\ \A m \in Mutexes : (gone(m) => slotMutexOwner'[m] = 0)
                               /\ (~gone(m) => slotMutexOwner'[m] = slotMutexOwner[m])
  <2>1. lockstart \in Int /\ kept - 1 \in Int
    BY <1>5, <1>6
  <2> QED BY <1>2, <1>8, <2>1, UnlockedType
<1>10. \A m \in Mutexes : slotMutexOwner[m] = 1 <=> gone(m) \/ stay(m)
  <2>1. \A slot : slot \in lockstart .. lockend <=> slot \in lockstart .. kept - 1 \/ slot \in kept .. lockend
    BY <1>5, <1>6
  <2>2. \A m : (\E slot \in lockstart .. lockend : m = MutexOf(slot)) <=> gone(m) \/ stay(m)
    BY <2>1
  <2> QED BY <1>1, <1>6, <2>2 DEF Consumers
<1>11. \A m \in Mutexes : ~(gone(m) /\ stay(m))
  <2> SUFFICES ASSUME NEW s \in lockstart .. kept - 1, NEW t \in kept .. lockend,
                      MutexOf(s) = MutexOf(t)
               PROVE  FALSE
    OBVIOUS
  <2>1. s \in Nat /\ t \in Nat /\ s < t /\ t < s + lockmod /\ s < t + lockmod
    BY <1>5, <1>6
  <2>2. s = t
    BY <2>1, OwnMutex
  <2> QED BY <2>1, <2>2
<1> HIDE DEF gone
<1>12. /\ \A m \in Mutexes : slotMutexOwner[m] = 2 => slotMutexOwner'[m] = 2
       /\ \A m \in Mutexes : slotMutexOwner'[m] = 1 <=> stay(m)
  BY <1>8, <1>9, <1>10, <1>11
<1>13. Readers'
  BY <1>1, <1>2, <1>12, ReadersKept
<1>14. /\ muxindex' \in 0 .. BufferUnits - 1 /\ lockstart' \in 0 .. Slots - 1 /\ lockend' \in 0 .. Slots
       /\ lockstart' <= lockend'
       /\ \A m : (\E slot \in lockstart' .. lockend' : m = MutexOf(slot)) <=> stay(m)
  <2>1. CASE ~Moved(used)
    <3>1. lockstart' = kept /\ muxindex' = index /\ lockend' = lockend
      BY <1>2, <2>1
    <3>2. muxindex' \in 0 .. BufferUnits - 1 /\ lockstart' \in 0 .. Slots - 1 /\ lockend' \in 0 .. Slots
             /\ lockstart' <= lockend'
      BY <1>5, <1>6, <3>1
    <3> QED BY <3>1, <3>2
  <2>2. CASE Moved(used)
    <3>1. lockstart' = 0 /\ lockend' = 0 /\ muxindex' = index % SlotUnits
      BY <1>2, <2>2
    <3>2. kept = lockmod /\ lockend = lockmod
      BY <1>5, <2>2 DEF Moved, kept, index
    <3>3. MutexOf(lockmod) = MutexOf(0)
      <4>1. lockmod \in Rounds /\ 0 \in Rounds
        BY <1>6, RoundsAre
      <4>2. \A s, t \in Nat : lockmod + s = 0 + t => MutexOf(s) = MutexOf(t)
        BY <4>1, SameMutex
      <4> QED BY <1>6, <4>2
    <3>4. \A m : stay(m) <=> m = MutexOf(0)
      <4>1. \A slot : slot \in kept .. lockend <=> slot = lockmod
        BY <1>6, <3>2
      <4> QED BY <3>3, <4>1
    <3>5. \A m : (\E slot \in 0 .. 0 : m = MutexOf(slot)) <=> m = MutexOf(0)
      OBVIOUS
    <3>6. muxindex' \in 0 .. BufferUnits - 1
      <4>1. index \in Nat /\ SlotUnits \in Nat \ {0}
        BY <1>5, Sizes
      <4>2. index % SlotUnits \in 0 .. SlotUnits - 1
        BY <4>1, Division
      <4>3. Round >= SlotUnits /\ Round \in Nat /\ BufferUnits = Round + SlotUnits
        BY RoundIs
      <4> QED BY <3>1, <4>1, <4>2, <4>3
    <3> QED BY <1>6, <3>1, <3>4, <3>5, <3>6
  <2> QED BY <2>1, <2>2
<1> HIDE DEF stay
<1>15. TypeOK'
  <2>1. taken' \in Nat
    BY <1>1, <1>2, <1>7, NumbersAre
  <2>2. lockstart' \in -2 .. Slots - 1 /\ lockend' \in -2 .. Slots
    BY <1>6, <1>14
  <2> QED BY <1>1, <1>2, <1>3, <1>9, <1>14, <2>1, <2>2 DEF TypeOK
<1>16. Consumers'
  <2>1. HasSlots'
    BY <1>2, <1>14 DEF HasSlots
  <2> QED BY <1>12, <1>14, <2>1 DEF Consumers, MutexOf
<1>17. Phases' /\ AllTaken'
  <2>1. lockstart' \in Int /\ lockstart' >= 0
    BY <1>14
  <2>2. Phases'
    BY <1>1, <1>2, <1>3, <1>14, <2>1 DEF Phases
  <2>3. AllTaken'
    BY <2>1 DEF AllTaken
  <2> QED BY <2>2, <2>3
<1> QED BY <1>13, <1>15, <1>16, <1>17 DEF BasicInv
-------------------------------------------------------------------------------
(* What is in the ring of what the consumer has locked.                        *)

\* The slot that the reader is at, or where it ended.
Top == IF Active(file) THEN Held(file) ELSE lastslot

\* The reader is there, or was told to stop.
LEMMA TopIs ==
    ASSUME BasicInv, Reading, NEW d \in Rounds, ReaderAt(d), keepreading
    PROVE  /\ Active(file) \/ AtEnd
           /\ Top \in Nat /\ position \in Nat
           /\ Place(Top + d) <= position + SlotUnits
           /\ position + SlotUnits <= Place(Top + d + 1)
           /\ AtEnd => ~Active(file) /\ position = Units
<1>1. TypeOK /\ Readers /\ file \in 1 .. NumFiles
  BY DEF BasicInv, Reading, Wanted
<1>2. /\ reader[file].at \in ReaderStates /\ reader[file].slot \in Nat /\ reader[file].got \in Nat
      /\ readbufferwriteslot \in Nat /\ d \in Nat /\ lastslot \in Int /\ position \in Nat
      /\ SlotUnits \in Nat /\ Units \in Nat /\ endindex \in Nat
  BY <1>1, ReaderIs, NumbersAre, RoundsAre, Sizes, FilesAre
<1>3. reader[file].at # "none" /\ ~Stopped /\ (lastslot >= 0 => position = Units)
  BY DEF ReaderAt
<1>4. Active(file) \/ AtEnd
  BY <1>2, <1>3 DEF Active, AtEnd, Stopped, ReaderStates
<1>5. \A s \in Nat : /\ Place(s + d) \in Nat /\ Place(s + d + 1) = Place(s + d) + SlotUnits
                     /\ Place(s + d) = Place(s) + Place(d) /\ Place(s) \in Nat /\ Place(d) \in Nat
                     /\ Place(s + 1) = Place(s) + SlotUnits
  <2> TAKE s \in Nat
  <2>1. s + d \in Nat
    BY <1>2
  <2> QED BY <1>2, <2>1, PlaceIs, PlaceSum
<1>6. CASE reader[file].at \in {"begin", "read"}
  <2>1. Top = readbufferwriteslot /\ ~AtEnd
    BY <1>6 DEF Top, Active, Held, AtEnd
  <2>2. position + SlotUnits = Place(readbufferwriteslot + d)
    BY <1>6 DEF ReaderAt
  <2>3. /\ Place(readbufferwriteslot + d) \in Nat
        /\ Place(readbufferwriteslot + d + 1) = Place(readbufferwriteslot + d) + SlotUnits
    BY <1>2, <1>5
  <2> QED BY <1>2, <1>4, <2>1, <2>2, <2>3
<1>7. CASE reader[file].at = "lock"
  <2>1. Top = reader[file].slot /\ ~AtEnd
    BY <1>7 DEF Top, Active, Held, AtEnd
  <2>2. position = Place(reader[file].slot + d)
    BY <1>7 DEF ReaderAt
  <2>3. /\ Place(reader[file].slot + d) \in Nat
        /\ Place(reader[file].slot + d + 1) = Place(reader[file].slot + d) + SlotUnits
    BY <1>2, <1>5
  <2> QED BY <1>2, <1>4, <2>1, <2>2, <2>3
<1>8. CASE reader[file].at = "short"
  <2>1. Top = reader[file].slot /\ ~AtEnd /\ lastslot = reader[file].slot /\ reader[file].got < SlotUnits
    BY <1>1, <1>8 DEF Top, Active, Held, AtEnd, Readers
  <2>2. Units + SlotUnits = Place(reader[file].slot + d) + reader[file].got /\ position = Units
    BY <1>2, <1>3, <1>8, <2>1 DEF ReaderAt
  <2>3. /\ Place(reader[file].slot + d) \in Nat
        /\ Place(reader[file].slot + d + 1) = Place(reader[file].slot + d) + SlotUnits
    BY <1>2, <1>5
  <2> QED BY <1>2, <1>4, <2>1, <2>2, <2>3
<1>9. CASE reader[file].at = "last" \/ AtEnd
  <2>1. Top = lastslot /\ lastslot \in Nat /\ (AtEnd => ~Active(file))
    BY <1>1, <1>2, <1>9 DEF Top, Active, Held, AtEnd, Readers
  <2>2. /\ Units + SlotUnits = endindex + Place(d) /\ position = Units
        /\ Place(lastslot) <= endindex /\ endindex < Place(lastslot + 1)
    BY <1>2, <1>3, <1>9, <2>1 DEF ReaderAt
  <2>3. /\ Place(lastslot + d + 1) = Place(lastslot) + Place(d) + SlotUnits
        /\ Place(lastslot + d) = Place(lastslot) + Place(d) /\ Place(lastslot + 1) = Place(lastslot) + SlotUnits
        /\ Place(lastslot) \in Nat /\ Place(d) \in Nat
    BY <1>5, <2>1
  <2>4. Place(lastslot + d) <= position + SlotUnits /\ position + SlotUnits <= Place(lastslot + d + 1)
    BY <1>2, <2>2, <2>3
  <2> QED BY <1>2, <1>4, <2>1, <2>2, <2>4
<1> QED BY <1>4, <1>6, <1>7, <1>8, <1>9 DEF Active

\* A unit in a slot of the consumer that is in front of the reader's is in the ring.
LEMMA UnitInRing ==
    ASSUME BasicInv, Reading, NEW c \in Rounds, NEW d \in Rounds, ReaderAt(d), Behind(c, d), keepreading,
           lockstart >= 0, NEW x \in Nat, Place(lockstart) <= x,
           NEW s \in Nat, x < Place(s + 1), s + c < Top + d,
           NEW u \in Nat, u + SlotUnits = x + Place(c)
    PROVE  u < position /\ position <= u + Round
<1>1. TypeOK
  BY DEF BasicInv
<1>2. /\ Active(file) \/ AtEnd
      /\ Top \in Nat /\ position \in Nat
      /\ Place(Top + d) <= position + SlotUnits
      /\ position + SlotUnits <= Place(Top + d + 1)
      /\ AtEnd => ~Active(file)
  BY TopIs
<1>3. /\ c \in Nat /\ d \in Nat /\ lockstart \in Nat /\ lockmod \in Nat /\ SlotUnits \in Nat
      /\ s + 1 \in Nat /\ c + lockstart \in Nat /\ Round \in Nat
  <2>1. c \in Nat /\ d \in Nat /\ lockmod \in Nat /\ SlotUnits \in Nat /\ Round \in Nat
    BY RoundsAre, Sizes, RoundIs
  <2>2. lockstart \in Int
    BY <1>1, NumbersAre
  <2> QED BY <2>1, <2>2
<1>4. Top + d < c + lockstart + lockmod
  <2>1. FirstOf(c) = c + lockstart
    BY <1>3 DEF FirstOf
  <2> QED BY <1>2, <2>1 DEF Behind, Top
<1>5. u < position
  <2>1. Place((s + 1) + c) = Place(s + 1) + Place(c) /\ Place(s + 1) \in Nat /\ Place(c) \in Nat
    BY <1>3, PlaceSum
  <2>2. Place((s + 1) + c) <= Place(Top + d) /\ Place(Top + d) \in Int
    <3>1. (s + 1) + c \in Int /\ Top + d \in Int /\ (s + 1) + c <= Top + d
      BY <1>2, <1>3
    <3> QED BY <3>1, PlaceUp, Places
  <2> QED BY <1>2, <1>3, <2>1, <2>2
<1>6. position <= u + Round
  <2>1. Place((c + lockstart) + lockmod) = Place(c + lockstart) + Round /\ Place(c + lockstart) \in Nat
    BY <1>3, PlaceSum DEF Round
  <2>2. Place(c + lockstart) = Place(c) + Place(lockstart) /\ Place(c) \in Nat /\ Place(lockstart) \in Nat
    BY <1>3, PlaceSum
  <2>3. Place(Top + d + 1) <= Place((c + lockstart) + lockmod) /\ Place(Top + d + 1) \in Int
    <3>1. Top + d + 1 \in Int /\ (c + lockstart) + lockmod \in Int
             /\ Top + d + 1 <= (c + lockstart) + lockmod
      BY <1>2, <1>3, <1>4
    <3> QED BY <3>1, PlaceUp, Places
  <2> QED BY <1>2, <1>3, <2>1, <2>2, <2>3
<1> QED BY <1>5, <1>6

\* Where in the ring it is.
LEMMA UnitAt ==
    ASSUME NEW c \in Rounds, NEW x \in Nat, SlotUnits <= x, x < BufferUnits,
           NEW u \in Nat, u + SlotUnits = x + Place(c)
    PROVE  SlotUnits + (u % Round) = x
<1> DEFINE s == x \div SlotUnits
           j == x - Place(s)
<1>1. s \in Nat /\ Place(s) <= x /\ x < Place(s + 1)
  BY SlotOfUnit
<1> HIDE DEF s
<1>2. c \in Nat /\ SlotUnits \in Nat /\ lockmod \in Nat /\ Slots = lockmod + 1 /\ Slots \in Nat
  BY RoundsAre, Sizes
<1>3. Place(s) \in Nat /\ Place(s + 1) = Place(s) + SlotUnits /\ Place(0) = 0
         /\ Place(0 + 1) = SlotUnits /\ BufferUnits = Place(Slots)
  BY <1>1, PlaceIs, Places
<1>4. j \in Nat /\ j < SlotUnits /\ x = Place(s) + j
  BY <1>1, <1>2, <1>3
<1> HIDE DEF j
<1>5. s >= 1
  <2>1. s # 0
    <3> SUFFICES ASSUME s = 0 PROVE FALSE
      OBVIOUS
    <3> QED BY <1>2, <1>3, <1>4
  <2> QED BY <1>1, <2>1
<1>6. s <= lockmod
  <2>1. Slots <= s => Place(Slots) <= Place(s)
    <3>1. Slots \in Int /\ s \in Int
      BY <1>1, <1>2
    <3> QED BY <3>1, PlaceUp
  <2>2. Place(Slots) \in Nat
    BY <1>2, PlaceIs
  <2> QED BY <1>1, <1>2, <1>3, <2>1, <2>2
<1>7. u + SlotUnits = Place(s + c) + j
  <2>1. Place(s + c) = Place(s) + Place(c) /\ Place(c) \in Nat
    BY <1>1, <1>2, PlaceSum
  <2> QED BY <1>2, <1>3, <1>4, <2>1
<1>8. s \in 1 .. lockmod
  BY <1>1, <1>2, <1>5, <1>6
<1> QED BY <1>4, <1>7, <1>8, RingPlace
\* Of what vdifmux is shown, what is of the file; and that the first ReadUnits are.
ToShow(x) == x < muxindex + ReadUnits \/ taken + x - muxindex < Units

\* Of what vdifmux is shown, this is in slots in front of the end of
\* the file, and in the ring.
LEMMA ShownBefore ==
    ASSUME BasicInv, Reading, NEW c \in Rounds, NEW d \in Rounds, Where(c, d), pc = "mux", AtEnd,
           NEW x \in muxindex .. muxend - 1, ToShow(x),
           NEW u \in Nat, u + SlotUnits = x + Place(c)
    PROVE  u < Units
<1>1. TypeOK /\ ConsumerAt(c) /\ ReaderAt(d) /\ Behind(c, d) /\ WindowAt(c, d) /\ Phases
  BY DEF BasicInv, Where
<1>2. /\ n2 \in Nat /\ c \in Nat /\ d \in Nat /\ lastslot \in Nat /\ muxindex \in Nat /\ muxend \in Nat
      /\ endindex \in Nat /\ taken \in Nat /\ lockstart \in Int
  BY <1>1, NumbersAre, RoundsAre DEF AtEnd
<1>3. Units \in Nat /\ SlotUnits \in Nat /\ ReadUnits \in Nat
  BY <1>1, FilesAre, Sizes
<1>4. n2 <= lockend /\ muxend = EndOfSlots /\ lockstart >= 0
  BY <1>1 DEF WindowAt, Phases
<1>5. /\ Units + SlotUnits = endindex + Place(d) /\ Place(lastslot) <= endindex
      /\ Place(c) \in Nat /\ Place(d) \in Nat
  BY <1>1, <1>2, PlaceIs DEF ReaderAt
<1>6. taken + SlotUnits = muxindex + Place(c)
  BY <1>1, <1>4 DEF ConsumerAt
<1>7. CASE taken + x - muxindex < Units
  BY <1>2, <1>3, <1>5, <1>6, <1>7
<1>8. CASE lastslot = n2
  <2>1. c = d /\ muxend = endindex
    BY <1>4, <1>8, EndShown DEF EndOfSlots
  <2> QED BY <1>2, <1>3, <1>5, <2>1
<1>9. CASE c = d /\ n2 = lastslot + 1 /\ muxindex + ReadUnits <= endindex
  BY <1>2, <1>3, <1>5, <1>6, <1>9 DEF ToShow
<1>10. CASE lastslot # n2 /\ ~(c = d /\ n2 = lastslot + 1 /\ muxindex + ReadUnits <= endindex)
  <2>1. n2 + c < lastslot + d
    BY <1>4, <1>10, NotYetEnd
  <2>2. muxend = Place(n2 + 1)
    BY <1>1, <1>4, <1>10, EndOfSlotsType
  <2>3. Place((n2 + 1) + c) = Place(n2 + 1) + Place(c) /\ Place(n2 + 1) \in Nat
    <3>1. n2 + 1 \in Nat
      BY <1>2
    <3> QED BY <1>2, <3>1, PlaceSum
  <2>4. Place((n2 + 1) + c) <= Place(lastslot + d)
    <3>1. (n2 + 1) + c \in Int /\ lastslot + d \in Int /\ (n2 + 1) + c <= lastslot + d
      BY <1>2, <2>1
    <3> QED BY <3>1, PlaceUp
  <2>5. Place(lastslot + d) = Place(lastslot) + Place(d) /\ Place(lastslot) \in Nat
    BY <1>2, PlaceSum
  <2> QED BY <1>2, <1>3, <1>5, <2>2, <2>3, <2>4, <2>5
<1> QED BY <1>7, <1>8, <1>9, <1>10

LEMMA ShownInBuffer ==
    ASSUME BasicInv, Reading, NEW c \in Rounds, NEW d \in Rounds, Where(c, d), pc = "mux",
           NEW x \in muxindex .. muxend - 1, ToShow(x)
    PROVE  x \in Nat /\ x < BufferUnits /\ x < Place(n2 + 1)
<1>1. TypeOK /\ ConsumerAt(c) /\ ReaderAt(d) /\ WindowAt(c, d) /\ Phases
  BY DEF BasicInv, Where
<1>2. /\ n2 \in Nat /\ muxindex \in Nat /\ muxend \in Nat /\ endindex \in Nat /\ endindex < BufferUnits
      /\ BufferUnits \in Nat /\ n2 <= Slots /\ Slots = lockmod + 1 /\ lockmod \in Nat /\ Slots \in Nat
      /\ c \in Nat /\ d \in Nat /\ lockstart \in Int /\ lockend \in Int
  BY <1>1, NumbersAre, RoundsAre, Sizes
<1>3. n2 <= lockend /\ muxend = EndOfSlots /\ lockstart >= 0
  BY <1>1 DEF WindowAt, Phases
<1>4. x \in Nat /\ ReadUnits \in Nat /\ x < muxend
  BY <1>2, Sizes
<1>5. muxend <= Place(n2 + 1) /\ Place(n2 + 1) \in Nat
  <2>1. Place(n2 + 1) \in Nat
    BY <1>2, PlaceIs
  <2>2. CASE lastslot = n2
    <3>1. AtEnd /\ muxend = endindex
      BY <1>3, <2>2, EndShown DEF EndOfSlots
    <3>2. endindex < Place(n2 + 1)
      BY <1>1, <2>2, <3>1 DEF ReaderAt
    <3> QED BY <1>2, <2>1, <3>1, <3>2
  <2>3. CASE lastslot # n2
    BY <1>1, <1>3, <2>1, <2>3, EndOfSlotsType
  <2> QED BY <2>1, <2>2, <2>3
<1>6. CASE n2 <= lockmod
  <2>1. Place(n2 + 1) <= Place(Slots) /\ BufferUnits = Place(Slots)
    <3>1. n2 + 1 \in Int /\ Slots \in Int /\ n2 + 1 <= Slots
      BY <1>2, <1>6
    <3> QED BY <3>1, PlaceUp, Places
  <2> QED BY <1>2, <1>4, <1>5, <2>1
<1>7. CASE n2 = Slots
  <2>1. AtEnd /\ c = d /\ lastslot = lockmod
    BY <1>2, <1>3, <1>7, BeyondRing
  <2>2. muxindex + ReadUnits <= endindex
    BY <1>1, <1>2, <1>7, <2>1 DEF WindowAt
  <2>3. Units - taken = endindex - muxindex /\ taken \in Nat /\ Units \in Nat
    BY <1>1, <1>3, <2>1, EndDistance, NumbersAre, FilesAre
  <2> QED BY <1>2, <1>4, <1>5, <2>2, <2>3 DEF ToShow
<1> QED BY <1>2, <1>6, <1>7

\* vdifmux is shown the file's data in order.
LEMMA ShownRight ==
    ASSUME BasicInv, Reading, FileInv, pc = "mux", keepreading,
           NEW x \in muxindex .. muxend - 1, ToShow(x)
    PROVE  x < BufferUnits /\ readbuffer[x] = [file |-> file, unit |-> taken + x - muxindex]
<1>1. PICK c \in Rounds, d \in Rounds : Where(c, d)
  BY DEF FileInv, Where
<1>2. TypeOK /\ ConsumerAt(c) /\ ReaderAt(d) /\ Behind(c, d) /\ WindowAt(c, d) /\ Phases
  BY <1>1 DEF BasicInv, Where
<1>3. x \in Nat /\ x < BufferUnits /\ x < Place(n2 + 1)
  BY <1>1, ShownInBuffer
<1>4. /\ taken \in Nat /\ muxindex \in Nat /\ n2 \in Nat /\ c \in Nat /\ d \in Nat /\ SlotUnits \in Nat
      /\ lockstart \in Int /\ lastslot \in Int /\ Units \in Nat /\ lockend \in Int /\ muxend \in Nat
  BY <1>2, NumbersAre, RoundsAre, Sizes, FilesAre
<1>5. lockstart \in Nat /\ n2 <= lockend
  BY <1>2, <1>4 DEF Phases, WindowAt
<1>6. /\ taken + SlotUnits = muxindex + Place(c) /\ Place(lockstart) <= muxindex
      /\ Place(c) \in Nat /\ Place(lockstart) \in Nat
  BY <1>2, <1>4, <1>5, PlaceIs DEF ConsumerAt
<1> DEFINE u == taken + x - muxindex
<1>7. u \in Nat /\ u + SlotUnits = x + Place(c) /\ Place(lockstart) <= x
  BY <1>3, <1>4, <1>6
<1>8. CASE x < SlotUnits
  <2>1. lockstart = 0
    <3>1. Place(0) = 0 /\ Place(1) = SlotUnits
      BY Places
    <3>2. lockstart >= 1 => Place(1) <= Place(lockstart)
      BY <1>5, Places
    <3> QED BY <1>3, <1>4, <1>5, <1>6, <1>7, <1>8, <3>1, <3>2
  <2>2. x \in muxindex .. SlotUnits - 1
    BY <1>3, <1>4, <1>8
  <2> QED BY <1>3, <2>1, <2>2 DEF FileInv, InSlotZero
<1>9. CASE SlotUnits <= x
  <2> HIDE DEF u
  <2>1. SlotUnits + (u % Round) = x
    BY <1>3, <1>7, <1>9, UnitAt
  <2>2. Top \in Nat /\ position \in Nat /\ (Active(file) \/ AtEnd) /\ (AtEnd => ~Active(file) /\ position = Units)
    BY <1>2, TopIs
  <2>3. u < position /\ position <= u + Round
    <3>1. CASE Active(file)
      <4>1. c + lockend < Top + d
        BY <1>2, <1>5, <3>1 DEF Behind, Top
      <4>2. n2 + c < Top + d
        BY <1>4, <1>5, <2>2, <4>1
      <4> QED BY <1>2, <1>3, <1>4, <1>5, <1>7, <4>2, UnitInRing
    <3>2. CASE AtEnd
      <4>1. u < Units
        BY <1>1, <1>7, <3>2, ShownBefore
      <4>2. position <= u + Round
        <5>1. lastslot + d < c + lockstart + lockmod /\ Top = lastslot
          BY <1>2, <1>5, <2>2, <3>2 DEF Behind, FirstOf, Top
        <5>2. position + SlotUnits <= Place(Top + d + 1)
          BY <1>2, TopIs
        <5>3. Round \in Nat /\ lockmod \in Nat /\ c + lockstart \in Nat
          BY <1>4, <1>5, Sizes, RoundIs
        <5>4. Place((c + lockstart) + lockmod) = Place(c + lockstart) + Round /\ Place(c + lockstart) \in Nat
          BY <5>3, PlaceSum DEF Round
        <5>5. Place(c + lockstart) = Place(c) + Place(lockstart)
          BY <1>4, <1>5, PlaceSum
        <5>6. Place(Top + d + 1) <= Place((c + lockstart) + lockmod) /\ Place(Top + d + 1) \in Int
          <6>1. Top + d + 1 \in Int /\ (c + lockstart) + lockmod \in Int
                   /\ Top + d + 1 <= (c + lockstart) + lockmod
            BY <1>4, <1>5, <2>2, <5>1, <5>3
          <6> QED BY <6>1, PlaceUp, Places
        <5> QED BY <1>3, <1>4, <1>6, <1>7, <2>2, <5>2, <5>3, <5>4, <5>5, <5>6
      <4> QED BY <2>2, <3>2, <4>1, <4>2
    <3> QED BY <2>2, <3>1, <3>2
  <2>4. readbuffer[x] = [file |-> file, unit |-> u]
    BY <1>7, <2>1, <2>3 DEF FileInv, InRing
  <2> QED BY <1>3, <2>4 DEF u
<1> QED BY <1>3, <1>4, <1>8, <1>9
-------------------------------------------------------------------------------
(* The steps of the consumer, and the file that is read.                       *)

\* A step of the consumer leaves the reader where it is.
LEMMA ReaderKept ==
    ASSUME UNCHANGED <<files, file, lastslot, endindex, readbufferwriteslot, reader, position>>
    PROVE  /\ Units' = Units /\ (AtEnd' <=> AtEnd) /\ (Stopped' <=> Stopped)
           /\ (Active(file)' <=> Active(file)) /\ Held(file)' = Held(file)
           /\ (Wanted' <=> Wanted)
           /\ \A d \in Rounds : ReaderAt(d) /\ (keepreading' => keepreading) => ReaderAt(d)'
<1>1. /\ Units' = Units /\ (AtEnd' <=> AtEnd) /\ (Stopped' <=> Stopped)
      /\ (Active(file)' <=> Active(file)) /\ Held(file)' = Held(file)
      /\ (Wanted' <=> Wanted)
  BY DEF Units, NumFiles, AtEnd, Stopped, Active, Held, Wanted
<1>2. \A d \in Rounds : ReaderAt(d) /\ (keepreading' => keepreading) => ReaderAt(d)'
  BY <1>1 DEF ReaderAt, Place
<1> QED BY <1>1, <1>2

\* A step that leaves the file, the locks and the ring alone.
LEMMA QuietFile ==
    ASSUME FileInv, UNCHANGED <<files, file, locks, ring, taken, muxindex>>,
           pc' = "wrap" <=> pc = "wrap", keepreading' => keepreading, GoesOn',
           \A c, d \in Rounds : Where(c, d) => WindowAt(c, d)'
    PROVE  FileInv'
<1> USE DEF locks, ring
<1>1. PICK c \in Rounds, d \in Rounds : Where(c, d)
  BY DEF FileInv, Where
<1>2. ConsumerAt(c) /\ ReaderAt(d) /\ Behind(c, d) /\ WindowAt(c, d)'
  BY <1>1 DEF Where
<1>3. /\ Units' = Units /\ (AtEnd' <=> AtEnd) /\ (Stopped' <=> Stopped)
      /\ (Active(file)' <=> Active(file)) /\ Held(file)' = Held(file) /\ ReaderAt(d)'
  BY <1>2, ReaderKept
<1>4. ConsumerAt(c)'
  BY <1>2 DEF ConsumerAt, Place
<1>5. Behind(c, d)'
  BY <1>2, <1>3 DEF Behind, FirstOf, Place
<1>6. InRing' /\ InSlotZero'
  BY DEF FileInv, InRing, InSlotZero, Round, Place
<1> QED BY <1>2, <1>3, <1>4, <1>5, <1>6 DEF FileInv

\* Nothing is given up by a step that changes neither.
LEMMA GoesOnStays ==
    ASSUME GoesOn, UNCHANGED <<files, file, lockstart, taken, dataremaining, ring>>,
           keepreading' => keepreading
    PROVE  GoesOn'
<1>1. Units' = Units /\ (AtEnd' <=> AtEnd)
  BY ReaderKept DEF ring
<1> QED BY <1>1 DEF GoesOn

\* Steps that only change where the consumer is, or that the reading is to stop.
LEMMA QuietSteps ==
    ASSUME FileInv, ReadsDone \/ BeginRead \/ NextRead \/ KeepGoing \/ StopReading
    PROVE  FileInv'
<1>1. /\ UNCHANGED <<files, file, locks, ring, taken, muxindex, dataremaining, n2, muxend>>
      /\ keepreading' => keepreading
      /\ pc' = "wrap" <=> pc = "wrap"
      /\ pc' = pc \/ pc' \notin {"grab", "mux"}
  BY DEF ReadsDone, BeginRead, NextRead, KeepGoing, StopReading
<1>2. GoesOn'
  BY <1>1, GoesOnStays DEF FileInv, locks
<1>3. \A c, d \in Rounds : Where(c, d) => WindowAt(c, d)'
  <2> TAKE c, d \in Rounds
  <2> HAVE Where(c, d)
  <2>1. (AtEnd' <=> AtEnd) /\ (Active(file)' <=> Active(file)) /\ Held(file)' = Held(file)
    BY <1>1, ReaderKept DEF ring
  <2> QED BY <1>1, <2>1 DEF Where, WindowAt, EndOfSlots, Place, ring, locks
<1> QED BY <1>1, <1>2, <1>3, QuietFile

\* The slots that are chosen: not more than one that the consumer has not, and none
\* beyond the end but when vdifmux does not come so far.
LEMMA ChosenSlots ==
    ASSUME BasicInv, Reading, NEW c \in Rounds, NEW d \in Rounds, Where(c, d), pc = "window"
    PROVE  /\ LastSlotNeeded \in Nat /\ LastSlotNeeded <= lockstart + 1 /\ lockstart \in Nat
           /\ muxindex < Place(LastSlotNeeded + 1)
           /\ AtEnd /\ c = d =>
                 \/ LastSlotNeeded <= lastslot
                 \/ LastSlotNeeded = lastslot + 1 /\ muxindex + ReadUnits <= endindex
<1>1. TypeOK /\ ConsumerAt(c) /\ ReaderAt(d) /\ Behind(c, d) /\ Phases
  BY DEF BasicInv, Where
<1>2. /\ muxindex \in Nat /\ endindex \in Nat /\ lastslot \in Int /\ lockstart \in Nat /\ taken \in Nat
      /\ Units \in Nat /\ SlotUnits \in Nat /\ ReadUnits \in Nat /\ ReadUnits >= 1
      /\ SlotUnits >= 2 * ReadUnits
  <2>1. lockstart >= 0 /\ lockstart \in Int
    BY <1>1, NumbersAre DEF Phases
  <2> QED BY <1>1, <2>1, NumbersAre, FilesAre, Sizes
<1>3. Place(lockstart) <= muxindex /\ muxindex <= Place(lockstart + 1)
  BY <1>1, <1>2 DEF ConsumerAt
<1>4. \A s \in Nat : Place(s) \in Nat /\ Place(s + 1) = Place(s) + SlotUnits /\ Place(s + 1) \in Nat
  BY PlaceIs
<1>5. AtEnd => /\ lastslot \in Nat /\ endindex < Place(lastslot + 1) /\ Place(lastslot) <= endindex
               /\ taken < Units \/ (taken = Units /\ endindex = Place(lastslot))
  BY <1>1, <1>2 DEF AtEnd, ReaderAt, Behind
<1>6. AtEnd /\ c = d => Units - taken = endindex - muxindex
  BY <1>1, <1>2, EndDistance
<1> DEFINE tail == lastslot >= 0 /\ muxindex + ReadUnits > endindex /\ muxindex < endindex
           y == IF tail THEN endindex - 1 ELSE muxindex + 2 * ReadUnits - 1
           q == y \div SlotUnits
<1>7. LastSlotNeeded = q
  BY DEF LastSlotNeeded
<1>8. y \in Nat /\ muxindex <= y /\ y < muxindex + 2 * ReadUnits
  <2>1. CASE tail
    <3>1. y = endindex - 1
      BY <2>1
    <3> QED BY <1>2, <2>1, <3>1
  <2>2. CASE ~tail
    <3>1. y = muxindex + 2 * ReadUnits - 1
      BY <2>2
    <3> QED BY <1>2, <3>1
  <2> QED BY <2>1, <2>2
<1>9. tail => y < endindex
  BY <1>2
<1>10. ~tail /\ AtEnd => muxindex + ReadUnits <= endindex \/ endindex <= muxindex
  BY <1>2 DEF AtEnd
<1> HIDE DEF y, tail
<1>11. q \in Nat /\ Place(q) <= y /\ y < Place(q + 1)
  BY <1>8, SlotOfUnit
<1> HIDE DEF q
<1>12. Place(q) \in Nat /\ Place(q + 1) \in Nat
  BY <1>4, <1>11
<1>13. q <= lockstart + 1
  <2>1. Place(lockstart + 1) \in Nat
    BY <1>2, <1>4
  <2>2. Place(q) < Place(lockstart + 1) + SlotUnits
    BY <1>2, <1>3, <1>8, <1>11, <1>12, <2>1
  <2>3. q \in Int /\ lockstart + 1 \in Int
    BY <1>2, <1>11
  <2> QED BY <2>2, <2>3, PlaceOrder
<1>14. ASSUME AtEnd, c = d
       PROVE  q <= lastslot \/ (q = lastslot + 1 /\ muxindex + ReadUnits <= endindex)
  <2>1. /\ lastslot \in Nat /\ endindex < Place(lastslot + 1) /\ Place(lastslot) <= endindex
        /\ Place(lastslot) \in Nat /\ Place(lastslot + 1) = Place(lastslot) + SlotUnits
        /\ Place(lastslot + 1) \in Nat /\ q \in Int /\ lastslot \in Int /\ lastslot + 1 \in Int
    BY <1>4, <1>5, <1>11, <1>14
  <2>2. CASE tail
    <3>1. Place(q) < Place(lastslot) + SlotUnits
      BY <1>2, <1>8, <1>9, <1>11, <1>12, <2>1, <2>2
    <3> QED BY <2>1, <3>1, PlaceOrder
  <2>3. CASE ~tail /\ endindex <= muxindex
    <3>1. taken = Units /\ endindex = Place(lastslot) /\ muxindex = endindex
      BY <1>2, <1>5, <1>6, <1>14, <2>3
    <3>2. Place(q) < Place(lastslot) + SlotUnits
      BY <1>2, <1>8, <1>11, <1>12, <2>1, <3>1
    <3> QED BY <2>1, <3>2, PlaceOrder
  <2>4. CASE ~tail /\ muxindex + ReadUnits <= endindex
    <3>1. Place(q) < Place(lastslot + 1) + SlotUnits
      BY <1>2, <1>8, <1>11, <1>12, <2>1, <2>4
    <3>2. q <= lastslot + 1
      BY <2>1, <3>1, PlaceOrder
    <3> QED BY <1>11, <2>1, <2>4, <3>2
  <2> QED BY <1>10, <1>14, <2>2, <2>3, <2>4
<1>15. muxindex < Place(q + 1)
  BY <1>2, <1>8, <1>11, <1>12
<1> QED BY <1>2, <1>7, <1>11, <1>13, <1>14, <1>15

LEMMA ChooseSlotsFile ==
    ASSUME BasicInv, Reading, FileInv, ChooseSlots
    PROVE  FileInv' /\ n2' \in 0 .. Slots
<1>1. /\ pc = "window" /\ pc' = "grab" /\ n2' = LastSlotNeeded
      /\ UNCHANGED <<files, file, numread, dataremaining, keepreading, muxindex, muxend, taken, locks,
                     ring>>
  BY DEF ChooseSlots
<1>2. TypeOK /\ Phases
  BY DEF BasicInv
<1>3. /\ lockmod \in Nat /\ Slots = lockmod + 1 /\ lockstart <= lockmod /\ lockend \in Int
      /\ lastslot \in Int /\ lastslot <= lockmod /\ lockstart \in Int
  BY <1>2, NumbersAre, Sizes
<1>4. ASSUME NEW c \in Rounds, NEW d \in Rounds, Where(c, d)
      PROVE  WindowAt(c, d)' /\ n2' \in 0 .. Slots
  <2> DEFINE k == LastSlotNeeded
  <2> HIDE DEF k
  <2>1. ConsumerAt(c) /\ ReaderAt(d) /\ Behind(c, d)
    BY <1>4 DEF Where
  <2>2. /\ k \in Nat /\ k <= lockstart + 1 /\ lockstart \in Nat
        /\ muxindex < Place(k + 1)
        /\ AtEnd /\ c = d => k <= lastslot \/ (k = lastslot + 1 /\ muxindex + ReadUnits <= endindex)
    BY <1>1, <1>4, ChosenSlots DEF k
  <2>3. c \in Nat /\ d \in Nat /\ (c < d => c + lockmod <= d) /\ lockstart <= lockend
    BY <1>2, <2>2, RoundsAre DEF Phases
  <2>4. Active(file) => k + c <= Held(file) + d
    <3> HAVE Active(file)
    <3>1. c + lockend < Held(file) + d
      BY <2>1, <2>2 DEF Behind
    <3>2. Held(file) \in Int
      <4>1. file \in 1 .. NumFiles /\ Readers
        BY DEF Reading, Wanted, BasicInv
      <4>2. Held(file) \in 1 .. lockmod
        BY <4>1 DEF Readers
      <4> QED BY <1>3, <4>2
    <3> QED BY <1>3, <2>2, <2>3, <3>1, <3>2
  <2>5. AtEnd => \/ k + c <= lastslot + d
                 \/ c = d /\ k = lastslot + 1 /\ muxindex + ReadUnits <= endindex
    <3> HAVE AtEnd
    <3>1. c <= d /\ lastslot >= 1
      BY <2>1 DEF Behind, ReaderAt, AtEnd
    <3>2. CASE c = d
      <4>1. k <= lastslot \/ (k = lastslot + 1 /\ muxindex + ReadUnits <= endindex)
        BY <2>2, <3>2
      <4>2. k <= lastslot => k + c <= lastslot + d
        BY <1>3, <2>2, <2>3, <3>2
      <4> QED BY <3>2, <4>1, <4>2
    <3>3. CASE c < d
      <4>1. k + c <= lastslot + d
        BY <1>3, <2>2, <2>3, <3>1, <3>3
      <4> QED BY <4>1
    <3> QED BY <2>3, <3>1, <3>2, <3>3
  <2>6. (AtEnd' <=> AtEnd) /\ (Active(file)' <=> Active(file)) /\ Held(file)' = Held(file)
    BY <1>1, ReaderKept DEF ring
  <2>7. WindowAt(c, d)'
    BY <1>1, <2>2, <2>4, <2>5, <2>6 DEF WindowAt, Place, ring, locks, k
  <2>8. k \in 0 .. Slots
    BY <1>3, <2>2
  <2> QED BY <1>1, <2>7, <2>8 DEF k
<1>5. GoesOn'
  BY <1>1, GoesOnStays DEF FileInv, locks
<1>6. FileInv'
  BY <1>1, <1>4, <1>5, QuietFile
<1>7. PICK c \in Rounds, d \in Rounds : Where(c, d)
  BY DEF FileInv, Where
<1> QED BY <1>4, <1>6, <1>7
LEMMA ShowSlotsFile ==
    ASSUME BasicInv, Reading, FileInv, ShowSlots
    PROVE  FileInv'
<1>1. /\ pc = "grab" /\ pc' = "mux" /\ lockend >= n2 /\ EndOfSlots > muxindex /\ muxend' = EndOfSlots
      /\ UNCHANGED <<files, file, numread, dataremaining, keepreading, muxindex, n2, taken, locks,
                     ring>>
  BY DEF ShowSlots
<1>2. GoesOn'
  BY <1>1, GoesOnStays DEF FileInv, locks
<1>3. \A c, d \in Rounds : Where(c, d) => WindowAt(c, d)'
  <2> TAKE c, d \in Rounds
  <2> HAVE Where(c, d)
  <2>1. (AtEnd' <=> AtEnd) /\ (Active(file)' <=> Active(file)) /\ Held(file)' = Held(file)
    BY <1>1, ReaderKept DEF ring
  <2>2. EndOfSlots' = EndOfSlots
    BY <1>1 DEF EndOfSlots, ring
  <2>3. WindowAt(c, d)
    BY DEF Where
  <2>4. muxindex < EndOfSlots
    <3>1. TypeOK
      BY DEF BasicInv
    <3>2. muxindex \in Int /\ EndOfSlots \in Int
      BY <3>1, NumbersAre, EndOfSlotsType
    <3> QED BY <1>1, <3>2
  <2> QED BY <1>1, <2>1, <2>2, <2>3, <2>4 DEF WindowAt, Place, ring, locks
<1> QED BY <1>1, <1>2, <1>3, QuietFile

\* There is nothing to show only at the end of the file.
\* The mutex that the consumer gets says that the reader is not at its slot.
LEMMA GrabSlotFile ==
    ASSUME BasicInv, Reading, FileInv, GrabSlot
    PROVE  FileInv'
<1>1. /\ pc = "grab" /\ lockend < n2 /\ CanLock(lockend + 1) /\ lockend' = lockend + 1
      /\ UNCHANGED <<files, pc, file, numread, dataremaining, keepreading, muxindex, muxend,
                     n2, taken, lockstart, lastslot, endindex, readbuffer, readbufferwriteslot,
                     reader, position>>
  BY DEF GrabSlot, ring
<1>2. TypeOK /\ Phases /\ Readers /\ file \in 1 .. NumFiles
  BY DEF BasicInv, Reading, Wanted
<1>3. PICK c \in Rounds, d \in Rounds : Where(c, d)
  BY DEF FileInv, Where
<1>4. ConsumerAt(c) /\ ReaderAt(d) /\ Behind(c, d) /\ WindowAt(c, d)
  BY <1>3 DEF Where
<1>5. /\ lockstart \in Nat /\ lockend \in Nat /\ lockstart <= lockend /\ n2 \in Nat /\ lockend + 1 \in Nat
      /\ lockmod \in Nat /\ Slots = lockmod + 1 /\ lockstart <= lockmod /\ c \in Nat /\ d \in Nat
      /\ lastslot \in Int
  <2>1. lockstart >= 0 /\ lockstart <= lockend
    BY <1>1, <1>2 DEF Phases
  <2>2. lockstart \in Int /\ lockend \in Int /\ n2 \in Nat /\ lockstart <= lockmod /\ lastslot \in Int
    BY <1>2, NumbersAre
  <2>3. lockmod \in Nat /\ Slots = lockmod + 1 /\ c \in Nat /\ d \in Nat
    BY RoundsAre, Sizes
  <2> QED BY <2>1, <2>2, <2>3
<1>6. /\ Units' = Units /\ (AtEnd' <=> AtEnd) /\ (Stopped' <=> Stopped)
      /\ (Active(file)' <=> Active(file)) /\ Held(file)' = Held(file) /\ ReaderAt(d)'
  BY <1>1, <1>4, ReaderKept
<1>7. n2 <= lockstart + 1
  BY <1>1, <1>4 DEF WindowAt
<1>8. ConsumerAt(c)'
  <2>1. lockend + 1 <= lockstart + 1 /\ (lockend + 1 >= Slots => lockstart = lockmod)
    BY <1>1, <1>5, <1>7
  <2> QED BY <1>1, <1>4, <1>5, <2>1 DEF ConsumerAt, Place
<1>9. Active(file) => c + (lockend + 1) < Held(file) + d
  <2> HAVE Active(file)
  <2>1. c + lockend < Held(file) + d
    BY <1>4, <1>5 DEF Behind
  <2>2. Held(file) \in Nat /\ slotMutexOwner[MutexOf(Held(file))] = 2
    <3>1. Held(file) \in 1 .. lockmod /\ slotMutexOwner[MutexOf(Held(file))] = 2
      BY <1>2 DEF Readers
    <3> QED BY <1>5, <3>1
  <2>3. slotMutexOwner[MutexOf(lockend + 1)] = 0
    BY <1>1 DEF CanLock
  <2>4. \A s, t \in Nat : c + s = d + t => MutexOf(s) = MutexOf(t)
    BY SameMutex
  <2>5. c + (lockend + 1) # d + Held(file)
    BY <1>5, <2>2, <2>3, <2>4
  <2> QED BY <1>5, <2>1, <2>2, <2>5
<1>10. AtEnd => \/ c + (lockend + 1) <= lastslot + d
                \/ c = d /\ lockend + 1 = lastslot + 1 /\ lockstart = lastslot
  <2> HAVE AtEnd
  <2>1. CASE n2 + c <= lastslot + d
    BY <1>1, <1>5, <2>1
  <2>2. CASE c = d /\ n2 = lastslot + 1
    <3>1. CASE lockend + 1 <= lastslot
      BY <1>5, <2>2, <3>1
    <3>2. CASE lockend = lastslot
      <4>1. lockstart = lastslot
        BY <1>1, <1>5, <1>7, <2>2, <3>2
      <4> QED BY <1>5, <2>2, <3>2, <4>1
    <3> QED BY <1>1, <1>5, <2>2, <3>1, <3>2
  <2> QED BY <1>1, <1>4, <2>1, <2>2 DEF WindowAt
<1>11. Behind(c, d)'
  <2>1. FirstOf(c)' = FirstOf(c)
    BY <1>1 DEF FirstOf
  <2>2. Active(file)' => /\ lockstart' >= 0 => c + lockend' < Held(file)' + d
                         /\ Held(file)' + d < FirstOf(c)' + lockmod
    BY <1>1, <1>4, <1>6, <1>9, <2>1 DEF Behind
  <2>3. AtEnd' => /\ c <= d /\ lastslot' + d < FirstOf(c)' + lockmod
                  /\ lockstart' >= 0 =>
                      /\ taken' < Units' \/ (taken' = Units' /\ endindex' = Place(lastslot'))
                      /\ \/ c + lockend' <= lastslot' + d
                         \/ c = d /\ lockend' = lastslot' + 1 /\ lockstart' = lastslot'
    BY <1>1, <1>4, <1>6, <1>10, <2>1 DEF Behind
  <2> QED BY <1>1, <2>2, <2>3 DEF Behind, Place
<1>12. WindowAt(c, d)'
  BY <1>1, <1>4, <1>6 DEF WindowAt, EndOfSlots, Place
<1>13. GoesOn' /\ InRing' /\ InSlotZero'
  BY <1>1, <1>6 DEF FileInv, GoesOn, InRing, InSlotZero, Round, Place
<1> QED BY <1>6, <1>8, <1>11, <1>12, <1>13 DEF FileInv

\* The reader of a file begins, at slot 1.
LEMMA startReaderFile ==
    ASSUME BasicInv, Wanted, startReaderThread
    PROVE  FileInv'
<1>1. TypeOK /\ Phases
  BY DEF BasicInv
<1>2. /\ pc = "start" /\ pc' = "loop"
      /\ UNCHANGED <<files, file, numread, dataremaining, keepreading, muxindex, muxend, n2,
                     taken, lockstart, lockend, lastslot, endindex, readbuffer,
                     readbufferwriteslot, position>>
  BY DEF startReaderThread
<1>3. /\ lockstart = -1 /\ taken = 0 /\ lastslot = -1 /\ readbufferwriteslot = 1 /\ position = 0
      /\ file \in 1 .. NumFiles
  BY <1>1, <1>2 DEF Phases
<1>4. reader'[file].at = "begin" /\ reader'[file].slot = 1
  BY startReaderDoes
<1>5. Units' = Units /\ Units \in Nat /\ lockmod \in Nat /\ lockmod >= 4 /\ SlotUnits \in Nat
  BY <1>1, <1>2, FileStays, FilesAre, Sizes
<1>6. 0 \in Rounds /\ Place(1) = SlotUnits /\ 1 + 0 = 1
  BY RoundsAre, Places
<1>7. ~AtEnd' /\ ~Stopped' /\ Active(file)' /\ Held(file)' = 1
  BY <1>2, <1>3, <1>4 DEF AtEnd, Stopped, Active, Held
<1>8. ConsumerAt(0)'
  BY <1>2, <1>3 DEF ConsumerAt
<1>9. ReaderAt(0)'
  <2>1. position' + SlotUnits = Place(readbufferwriteslot' + 0)
    BY <1>2, <1>3, <1>5, <1>6
  <2> QED BY <1>2, <1>3, <1>4, <1>5, <1>7, <2>1 DEF ReaderAt, Place
<1>10. Behind(0, 0)'
  <2>1. FirstOf(0)' = 1
    BY <1>2, <1>3 DEF FirstOf
  <2> QED BY <1>2, <1>3, <1>5, <1>7, <2>1 DEF Behind
<1>11. WindowAt(0, 0)' /\ GoesOn' /\ InSlotZero'
  BY <1>2, <1>3 DEF WindowAt, GoesOn, InSlotZero
<1>12. InRing'
  <2>1. \A u \in Nat : ~(u < 0)
    OBVIOUS
  <2> QED BY <1>2, <1>3, <2>1 DEF InRing
<1> QED BY <1>6, <1>8, <1>9, <1>10, <1>11, <1>12 DEF FileInv
\* The first slot of a file.
LEMMA FirstReadFile ==
    ASSUME BasicInv, Reading, FileInv, FirstRead
    PROVE  FileInv'
<1>1. /\ pc = "call" /\ lockstart = -1 /\ CanLock(1) /\ muxindex' = SlotUnits
      /\ lockstart' = 1 /\ lockend' = 1 /\ pc' = "window"
      /\ UNCHANGED <<files, file, numread, dataremaining, keepreading, muxend, n2, taken,
                     lastslot, endindex, readbuffer, readbufferwriteslot, reader, position>>
  BY DEF FirstRead, ring
<1>2. TypeOK /\ Phases /\ Readers /\ file \in 1 .. NumFiles /\ Wanted
  BY DEF BasicInv, Reading, Wanted
<1>3. PICK c \in Rounds, d \in Rounds : Where(c, d)
  BY DEF FileInv, Where
<1>4. ConsumerAt(c) /\ ReaderAt(d) /\ Behind(c, d)
  BY <1>3 DEF Where
<1>5. c = 0 /\ taken = 0 /\ FirstOf(c) = 1 /\ dataremaining
  BY <1>1, <1>2, <1>4 DEF ConsumerAt, FirstOf, Phases
<1>6. /\ lockmod \in Nat /\ lockmod >= 4 /\ Slots = lockmod + 1 /\ SlotUnits \in Nat /\ SlotUnits >= 2
      /\ d \in Nat /\ lastslot \in Int /\ endindex \in Nat /\ Units \in Nat
  BY <1>2, Sizes, RoundsAre, NumbersAre, FilesAre
<1>7. /\ Units' = Units /\ (AtEnd' <=> AtEnd) /\ (Stopped' <=> Stopped)
      /\ (Active(file)' <=> Active(file)) /\ Held(file)' = Held(file) /\ ReaderAt(d)'
  BY <1>1, <1>4, ReaderKept
<1>8. Place(0) = 0 /\ Place(1) = SlotUnits /\ Place(1 + 1) = SlotUnits + SlotUnits
  BY Places
<1>9. ConsumerAt(0)'
  <2>1. /\ lockstart' # -1 /\ lockend' <= lockstart' + 1 /\ ~(lockend' >= Slots) /\ lockstart' # lockmod
        /\ taken' + SlotUnits = muxindex' + Place(0)
        /\ Place(lockstart') <= muxindex' /\ muxindex' <= Place(lockstart' + 1)
    BY <1>1, <1>5, <1>6, <1>8
  <2> QED BY <1>1, <2>1 DEF ConsumerAt, Place
<1>10. Active(file) => 1 < Held(file) + d /\ Held(file) + d < 1 + lockmod
  <2> HAVE Active(file)
  <2>1. Held(file) \in 1 .. lockmod /\ slotMutexOwner[MutexOf(Held(file))] = 2
    BY <1>2 DEF Readers
  <2>2. Held(file) # 1
    BY <1>1, <2>1 DEF CanLock
  <2>3. Held(file) + d < FirstOf(c) + lockmod
    BY <1>4 DEF Behind
  <2> QED BY <1>5, <1>6, <2>1, <2>2, <2>3
<1>11. AtEnd => /\ 0 <= d /\ lastslot + d < 1 + lockmod
                /\ taken < Units \/ (taken = Units /\ endindex = Place(lastslot))
                /\ 1 <= lastslot + d
  <2> HAVE AtEnd
  <2>1. lastslot + d < 1 + lockmod
    BY <1>4, <1>5 DEF Behind
  <2>2. /\ lastslot >= 1 /\ Units + SlotUnits = endindex + Place(d) /\ Place(lastslot) <= endindex
    BY <1>4 DEF ReaderAt, AtEnd
  <2>3. Place(d) \in Nat /\ Place(1) <= Place(lastslot) /\ Place(lastslot) \in Int
    BY <1>6, <2>2, Places
  <2> QED BY <1>5, <1>6, <1>8, <2>1, <2>2, <2>3
<1>12. Behind(0, d)'
  <2>1. FirstOf(0)' = 1
    BY <1>1 DEF FirstOf
  <2>2. 0 + 1 = 1
    OBVIOUS
  <2> QED BY <1>1, <1>7, <1>10, <1>11, <2>1, <2>2 DEF Behind, Place
<1>13. WindowAt(0, d)'
  BY <1>1 DEF WindowAt
<1>14. GoesOn' /\ InRing' /\ InSlotZero'
  BY <1>1, <1>5 DEF FileInv, GoesOn, InRing, InSlotZero, Round, Place
<1> QED BY <1>5, <1>7, <1>9, <1>12, <1>13, <1>14 DEF FileInv

\* When data is used some was left.
LEMMA StillGoesOn ==
    ASSUME BasicInv, FileInv, pc = "mux", UNCHANGED <<dataremaining, keepreading>>
    PROVE  GoesOn'
  BY DEF BasicInv, Phases, FileInv, GoesOn

LEMMA MuxAllOfRingFile ==
    ASSUME mishaps' = {}, BasicInv, Reading, FileInv, pc = "mux", NEW used \in Uses, MuxAllOfRing(used)
    PROVE  FileInv'
<1>0. Noticed(used) /\ ~EndOfScan(used) /\ taken' = taken + used
  <2>1. muxindex < muxend /\ TypeOK
    BY DEF FileInv, WindowAt, BasicInv
  <2> QED BY <2>1, MuxNoticed
<1>1. /\ ~EndOfScan(used) /\ muxindex + used = BufferUnits
      /\ muxindex' = SlotUnits /\ taken' = taken + used /\ pc' = "wrap"
      /\ UNCHANGED <<files, file, numread, dataremaining, keepreading, muxend, n2, lockstart, lockend,
                     slotMutexOwner, lastslot, endindex, readbuffer, readbufferwriteslot, reader,
                     position>>
  BY <1>0 DEF MuxAllOfRing, ring, locks
<1>2. TypeOK /\ Phases
  BY DEF BasicInv
<1>3. PICK c \in Rounds, d \in Rounds : Where(c, d)
  BY DEF FileInv, Where
<1>4. ConsumerAt(c) /\ ReaderAt(d) /\ Behind(c, d) /\ WindowAt(c, d)
  BY <1>3 DEF Where
<1>5. /\ lockstart \in Nat /\ lockend \in Int /\ lockstart <= lockend /\ n2 \in Nat /\ n2 <= Slots
      /\ lockmod \in Nat /\ lockmod >= 4 /\ Slots = lockmod + 1 /\ lockstart <= lockmod /\ c \in Nat
      /\ d \in Nat /\ lastslot \in Int /\ muxindex \in Nat /\ muxend \in Nat /\ endindex \in Nat
      /\ endindex < BufferUnits /\ BufferUnits \in Nat /\ taken \in Nat /\ lockend <= Slots
  <2>1. lockstart >= 0 /\ lockstart <= lockend
    BY <1>2 DEF Phases
  <2>2. lockstart \in Int /\ lockend \in Int /\ n2 \in Nat /\ lockstart <= lockmod /\ lastslot \in Int
           /\ n2 <= Slots /\ muxindex \in Nat /\ muxend \in Nat /\ endindex \in Nat
           /\ endindex < BufferUnits /\ BufferUnits \in Nat /\ taken \in Nat /\ lockend <= Slots
    BY <1>2, NumbersAre
  <2>3. lockmod \in Nat /\ Slots = lockmod + 1 /\ c \in Nat /\ d \in Nat /\ lockmod >= 4
    BY RoundsAre, Sizes
  <2> QED BY <2>1, <2>2, <2>3
<1>6. /\ used \in Nat /\ used >= 1 /\ muxindex + used <= muxend /\ muxend <= Place(n2 + 1)
      /\ AtEnd => taken + used < Units \/ (taken + used = Units /\ endindex = Place(lastslot))
      /\ AtEnd => taken + used <= Units
  BY <1>0, <1>3, MuxRoom
<1>7. n2 <= lockend /\ muxend = EndOfSlots /\ n2 <= lockstart + 1
  BY <1>4 DEF WindowAt
<1>8. BufferUnits = Place(Slots) /\ Units \in Nat /\ SlotUnits \in Nat
  BY <1>2, Places, FilesAre, Sizes
<1>9. n2 >= lockmod
  <2>1. Place(n2 + 1) \in Int /\ Place(n2) \in Int /\ Place(n2 + 1) = Place(n2) + SlotUnits
           /\ Place(lockmod) + SlotUnits = Place(Slots) /\ Place(lockmod) \in Int
    <3>1. Place(n2 + 1) \in Nat /\ Place(n2) \in Nat /\ Place(n2 + 1) = Place(n2) + SlotUnits
             /\ Place(lockmod) \in Nat
      BY <1>5, PlaceIs
    <3>2. Place(lockmod) + SlotUnits = Place(Slots)
      BY Places
    <3> QED BY <3>1, <3>2
  <2>2. Place(lockmod) < Place(n2) + SlotUnits
    BY <1>1, <1>5, <1>6, <1>8, <2>1, Sizes
  <2>3. lockmod \in Int /\ n2 \in Int
    BY <1>5
  <2>4. lockmod <= n2
    BY <2>2, <2>3, PlaceOrder
  <2> QED BY <2>3, <2>4
<1>10. n2 # Slots
  <2> SUFFICES ASSUME n2 = Slots PROVE FALSE
    OBVIOUS
  <2>1. AtEnd /\ c = d
    BY <1>3, <1>5, <1>7, BeyondRing
  <2>2. Units - taken = endindex - muxindex
    BY <1>4, <1>5, <2>1, EndDistance
  <2> QED BY <1>1, <1>5, <1>6, <1>8, <2>1, <2>2
<1>11. n2 = lockmod /\ lastslot # lockmod
  <2>1. n2 = lockmod
    BY <1>5, <1>9, <1>10
  <2>2. lastslot # n2
    BY <1>1, <1>5, <1>6, <1>7 DEF EndOfSlots
  <2> QED BY <2>1, <2>2
<1>12. lockend = lockmod /\ lockstart = lockmod - 1
  BY <1>4, <1>5, <1>7, <1>11 DEF ConsumerAt
<1>13. /\ Units' = Units /\ (AtEnd' <=> AtEnd) /\ (Stopped' <=> Stopped)
       /\ (Active(file)' <=> Active(file)) /\ Held(file)' = Held(file) /\ ReaderAt(d)'
  BY <1>1, <1>4, ReaderKept
<1>14. ConsumerAt(c)'
  <2>1. taken + SlotUnits = muxindex + Place(c)
    BY <1>4, <1>5 DEF ConsumerAt
  <2>2. Place(Slots + c) = Place(Slots) + Place(c) /\ Place(c) \in Nat
    BY <1>5, Sizes, PlaceSum
  <2>3. taken' + SlotUnits = Place(Slots + c)
    BY <1>1, <1>5, <1>6, <1>8, <2>1, <2>2
  <2>4. /\ lockstart' # -1 /\ lockend' <= lockstart' + 1 /\ ~(lockend' >= Slots) /\ lockstart' # lockmod
        /\ lockend' = lockmod /\ lockstart' = lockmod - 1
    BY <1>1, <1>5, <1>12
  <2> QED BY <1>1, <2>3, <2>4 DEF ConsumerAt, Place
<1>15. Behind(c, d)'
  BY <1>1, <1>4, <1>6, <1>13 DEF Behind, FirstOf, Place
<1>16. WindowAt(c, d)'
  BY <1>1 DEF WindowAt
<1>17. GoesOn'
  BY <1>1, StillGoesOn
<1>18. InRing' /\ InSlotZero'
  <2>1. lockstart' # 0
    BY <1>1, <1>5, <1>12
  <2> QED BY <1>1, <2>1 DEF FileInv, InRing, InSlotZero, Round, Place
<1> QED BY <1>13, <1>14, <1>15, <1>16, <1>17, <1>18 DEF FileInv

\* The next round begins with slot 1.
LEMMA RestartRingFile ==
    ASSUME BasicInv, Reading, FileInv, RestartRing
    PROVE  FileInv'
<1>1. /\ pc = "wrap" /\ CanLock(1) /\ lockstart' = 1 /\ lockend' = 1 /\ pc' = "post"
      /\ UNCHANGED <<files, file, numread, dataremaining, keepreading, muxindex, muxend, n2, taken,
                     lastslot, endindex, readbuffer, readbufferwriteslot, reader, position>>
  BY DEF RestartRing, ring
<1>2. TypeOK /\ Phases /\ Readers /\ file \in 1 .. NumFiles
  BY DEF BasicInv, Reading, Wanted
<1>3. PICK c \in Rounds, d \in Rounds : Where(c, d)
  BY DEF FileInv, Where
<1>4. ConsumerAt(c) /\ ReaderAt(d) /\ Behind(c, d)
  BY <1>3 DEF Where
<1>5. /\ taken + SlotUnits = Place(Slots + c) /\ muxindex = SlotUnits
      /\ lockend = lockmod /\ lockstart = lockmod - 1
  BY <1>1, <1>4 DEF ConsumerAt
<1>6. /\ lockmod \in Nat /\ lockmod >= 4 /\ Slots = lockmod + 1 /\ SlotUnits \in Nat /\ SlotUnits >= 2
      /\ c \in Nat /\ d \in Nat /\ lastslot \in Int /\ endindex \in Nat /\ Units \in Nat /\ taken \in Nat
      /\ lastslot <= lockmod /\ c + lockmod \in Rounds /\ c + lockmod \in Nat
  BY <1>2, Sizes, RoundsAre, NumbersAre, FilesAre
<1>7. /\ Units' = Units /\ (AtEnd' <=> AtEnd) /\ (Stopped' <=> Stopped)
      /\ (Active(file)' <=> Active(file)) /\ Held(file)' = Held(file) /\ ReaderAt(d)'
  BY <1>1, <1>4, ReaderKept
<1>8. Place(1) = SlotUnits /\ Place(1 + 1) = SlotUnits + SlotUnits
  BY Places
<1>9. FirstOf(c) = c + lockstart /\ FirstOf(c + lockmod)' = c + lockmod + 1
  BY <1>1, <1>5, <1>6 DEF FirstOf
<1>10. ConsumerAt(c + lockmod)'
  <2>1. Slots + c = (c + lockmod) + 1
    BY <1>6
  <2>2. Place((c + lockmod) + 1) = Place(c + lockmod) + SlotUnits /\ Place(c + lockmod) \in Nat
    BY <1>6, PlaceIs
  <2>3. taken + SlotUnits = SlotUnits + Place(c + lockmod)
    BY <1>5, <1>6, <2>1, <2>2
  <2>4. /\ lockstart' # -1 /\ lockend' <= lockstart' + 1 /\ ~(lockend' >= Slots) /\ lockstart' # lockmod
        /\ Place(lockstart') <= muxindex' /\ muxindex' <= Place(lockstart' + 1)
        /\ taken' + SlotUnits = muxindex' + Place(c + lockmod)
    BY <1>1, <1>5, <1>6, <1>8, <2>3
  <2> QED BY <1>1, <2>4 DEF ConsumerAt, Place
<1>11. Active(file) => /\ (c + lockmod) + 1 < Held(file) + d
                       /\ Held(file) + d < (c + lockmod) + 1 + lockmod
  <2> HAVE Active(file)
  <2>1. Held(file) \in 1 .. lockmod /\ slotMutexOwner[MutexOf(Held(file))] = 2
    BY <1>2 DEF Readers
  <2>2. Held(file) \in Nat /\ 1 \in Nat
    BY <1>6, <2>1
  <2>3. \A s, t \in Nat : (c + lockmod) + s = d + t => MutexOf(s) = MutexOf(t)
    BY <1>6, SameMutex
  <2>4. (c + lockmod) + 1 # d + Held(file)
    BY <1>1, <2>1, <2>2, <2>3 DEF CanLock
  <2>5. c + lockend < Held(file) + d /\ Held(file) + d < FirstOf(c) + lockmod
    BY <1>4, <1>5, <1>6 DEF Behind
  <2> QED BY <1>5, <1>6, <1>9, <2>2, <2>4, <2>5
<1>12. AtEnd => /\ c + lockmod <= d /\ lastslot + d < (c + lockmod) + 1 + lockmod
                /\ taken < Units \/ (taken = Units /\ endindex = Place(lastslot))
                /\ (c + lockmod) + 1 <= lastslot + d
  <2> HAVE AtEnd
  <2>1. /\ lastslot \in Nat /\ lastslot >= 1 /\ Units + SlotUnits = endindex + Place(d)
        /\ endindex < Place(lastslot + 1)
    BY <1>4, <1>6 DEF ReaderAt, AtEnd
  <2>2. /\ taken < Units \/ (taken = Units /\ endindex = Place(lastslot))
        /\ lastslot + d < FirstOf(c) + lockmod
    BY <1>4, <1>5, <1>6 DEF Behind
  <2>3. Place((lastslot + 1) + d) = Place(lastslot + 1) + Place(d) /\ Place(d) \in Nat
           /\ Place(lastslot + 1) \in Nat
    <3>1. lastslot + 1 \in Nat
      BY <2>1
    <3> QED BY <1>6, <3>1, PlaceSum
  <2>4. Place(Slots + c) \in Int /\ Place(lastslot + d) + SlotUnits = Place((lastslot + 1) + d)
    <3>1. Slots + c \in Nat /\ lastslot + d \in Nat /\ (lastslot + d) + 1 = (lastslot + 1) + d
      BY <1>6, <2>1
    <3> QED BY <3>1, PlaceIs
  <2>5. Place(Slots + c) < Place(lastslot + d) + SlotUnits
    BY <1>5, <1>6, <2>1, <2>2, <2>3, <2>4
  <2>6. Slots + c <= lastslot + d
    <3>1. Slots + c \in Int /\ lastslot + d \in Int
      BY <1>6, <2>1
    <3> QED BY <2>5, <3>1, PlaceOrder
  <2>7. c < d => c + lockmod <= d
    BY RoundsAre
  <2> QED BY <1>5, <1>6, <1>9, <2>1, <2>2, <2>6, <2>7
<1>13. Behind(c + lockmod, d)'
  BY <1>1, <1>7, <1>9, <1>11, <1>12 DEF Behind, Place
<1>14. WindowAt(c + lockmod, d)'
  BY <1>1 DEF WindowAt
<1>15. GoesOn'
  <2>1. lockstart >= 0
    BY <1>5, <1>6
  <2> QED BY <1>1, <1>7, <2>1 DEF FileInv, GoesOn
<1>16. InRing' /\ InSlotZero'
  BY <1>1 DEF FileInv, InRing, InSlotZero, Round, Place
<1> QED BY <1>6, <1>7, <1>10, <1>13, <1>14, <1>15, <1>16 DEF FileInv
\* MuxOn when nothing is moved: the consumer stays in its round.
LEMMA MuxOnStays ==
    ASSUME mishaps' = {}, BasicInv, Reading, FileInv, pc = "mux", NEW used \in Uses, MuxOn(used), ~Moved(used)
    PROVE  FileInv'
<1> DEFINE index == muxindex + used
           kept == FirstKept(index)
<1>0. Noticed(used) /\ taken' = taken + used /\ index \in Int /\ BufferUnits \in Int
  <2>1. muxindex < muxend /\ TypeOK
    BY DEF FileInv, WindowAt, BasicInv
  <2> QED BY <2>1, UsesAre, MuxNoticed, NumbersAre
<1>1. /\ ~EndOfScan(used) /\ index # BufferUnits /\ taken' = taken + used /\ pc' = "post"
      /\ UNCHANGED <<files, file, numread, dataremaining, keepreading, muxend, n2, lastslot,
                     endindex, readbufferwriteslot, reader, position>>
      /\ lockstart' = kept /\ muxindex' = index /\ lockend' = lockend /\ readbuffer' = readbuffer
  BY <1>0, MuxOnDoes
<1>2. TypeOK /\ Phases
  BY DEF BasicInv
<1>3. PICK c \in Rounds, d \in Rounds : Where(c, d)
  BY DEF FileInv, Where
<1>4. ConsumerAt(c) /\ ReaderAt(d) /\ Behind(c, d)
  BY <1>3 DEF Where
<1>5. /\ index \in 0 .. BufferUnits - 1 /\ kept \in Nat /\ kept \in lockstart .. lockend
      /\ kept <= lockmod /\ Place(kept) <= index /\ index <= Place(kept + 1)
      /\ kept = lastslot + 1 => ~AtEnd \/ c # d
  BY <1>0, <1>1, <1>3, KeptSlot
<1>6. /\ used \in Nat /\ used >= 1
      /\ AtEnd => taken + used < Units \/ (taken + used = Units /\ endindex = Place(lastslot))
  BY <1>0, <1>1, <1>3, MuxRoom
<1>7. /\ lockstart \in Nat /\ lockend \in Int /\ lockmod \in Nat /\ Slots = lockmod + 1
      /\ lastslot \in Int /\ c \in Nat /\ d \in Nat /\ muxindex \in Nat /\ taken \in Nat
      /\ SlotUnits \in Nat
  <2>1. lockstart >= 0
    BY <1>2 DEF Phases
  <2> QED BY <1>2, <2>1, NumbersAre, RoundsAre, Sizes
<1>8. kept = lockmod => lastslot = lockmod
  BY DEF Moved
<1> HIDE DEF kept
<1>9. /\ Units' = Units /\ (AtEnd' <=> AtEnd) /\ (Stopped' <=> Stopped)
      /\ (Active(file)' <=> Active(file)) /\ Held(file)' = Held(file) /\ ReaderAt(d)'
  BY <1>1, <1>4, ReaderKept
<1>10. ConsumerAt(c)'
  <2>1. /\ lockend <= lockstart + 1 /\ (lockend >= Slots => lockstart = lockmod)
        /\ taken + SlotUnits = muxindex + Place(c)
    BY <1>4, <1>7 DEF ConsumerAt
  <2>2. Place(c) \in Nat
    BY <1>7, PlaceIs
  <2>3. /\ kept # -1 /\ lockend <= kept + 1 /\ (lockend >= Slots => kept = lockmod)
        /\ taken + used + SlotUnits = index + Place(c)
    BY <1>5, <1>6, <1>7, <2>1, <2>2
  <2> HIDE DEF index
  <2> QED BY <1>1, <1>5, <1>8, <2>3 DEF ConsumerAt, Place
<1> HIDE DEF index
<1>11. FirstOf(c) = c + lockstart /\ FirstOf(c)' = c + kept /\ c + lockstart <= c + kept
  BY <1>1, <1>5, <1>7 DEF FirstOf
<1>12. Behind(c, d)'
  <2>1. Active(file) => c + lockend < Held(file) + d /\ Held(file) + d < (c + kept) + lockmod
    <3> HAVE Active(file)
    <3>1. c + lockend < Held(file) + d /\ Held(file) + d < (c + lockstart) + lockmod
      BY <1>4, <1>7, <1>11 DEF Behind
    <3>2. Held(file) \in Int
      <4>1. file \in 1 .. NumFiles /\ Readers
        BY DEF Reading, Wanted, BasicInv
      <4>2. Held(file) \in 1 .. lockmod
        BY <4>1 DEF Readers
      <4> QED BY <1>7, <4>2
    <3> QED BY <1>5, <1>7, <3>1, <3>2
  <2>2. AtEnd => /\ c <= d /\ lastslot + d < (c + kept) + lockmod
                 /\ \/ c + lockend <= lastslot + d
                    \/ c = d /\ lockend = lastslot + 1 /\ kept = lastslot
    <3> HAVE AtEnd
    <3>1. /\ c <= d /\ lastslot + d < (c + lockstart) + lockmod
          /\ \/ c + lockend <= lastslot + d
             \/ c = d /\ lockend = lastslot + 1 /\ lockstart = lastslot
      BY <1>4, <1>7, <1>11 DEF Behind
    <3>2. lastslot + d < (c + kept) + lockmod
      BY <1>5, <1>7, <3>1
    <3>3. c = d /\ lockend = lastslot + 1 /\ lockstart = lastslot => kept = lastslot
      BY <1>5, <1>7
    <3> QED BY <3>1, <3>2, <3>3
  <2> QED BY <1>1, <1>6, <1>9, <1>11, <2>1, <2>2 DEF Behind, Place
<1>13. WindowAt(c, d)'
  BY <1>1 DEF WindowAt
<1>14. GoesOn'
  BY <1>1, StillGoesOn
<1>15. InRing'
  BY <1>1 DEF FileInv, InRing, Round, Place
<1>16. InSlotZero'
  <2> SUFFICES ASSUME kept = 0, keepreading, NEW x \in index .. SlotUnits - 1
               PROVE  readbuffer[x] = [file |-> file, unit |-> (taken + used) + x - index]
    BY <1>1 DEF InSlotZero
  <2>1. lockstart = 0
    BY <1>5, <1>7
  <2>2. x \in muxindex .. SlotUnits - 1 /\ (taken + used) + x - index = taken + x - muxindex
    BY <1>6, <1>7 DEF index
  <2> QED BY <2>1, <2>2 DEF FileInv, InSlotZero
<1> QED BY <1>9, <1>10, <1>12, <1>13, <1>14, <1>15, <1>16 DEF FileInv
\* MuxOn when the rest of the last slot is moved to slot 0, where the next round begins.
LEMMA MuxOnMoves ==
    ASSUME mishaps' = {}, BasicInv, Reading, FileInv, pc = "mux", NEW used \in Uses, MuxOn(used), Moved(used)
    PROVE  FileInv'
<1> DEFINE index == muxindex + used
           start == index - Place(lockmod)
<1>0. Noticed(used) /\ taken' = taken + used /\ index \in Int /\ BufferUnits \in Int
  <2>1. muxindex < muxend /\ TypeOK
    BY DEF FileInv, WindowAt, BasicInv
  <2> QED BY <2>1, UsesAre, MuxNoticed, NumbersAre
<1>1. /\ ~EndOfScan(used) /\ index # BufferUnits /\ taken' = taken + used /\ pc' = "post"
      /\ UNCHANGED <<files, file, numread, dataremaining, keepreading, muxend, n2, lastslot,
                     endindex, readbufferwriteslot, reader, position>>
      /\ lockstart' = 0 /\ lockend' = 0 /\ muxindex' = index % SlotUnits
      /\ readbuffer' = [x \in DOMAIN readbuffer |->
            IF x \in muxindex' .. muxindex' + (BufferUnits - index) - 1
            THEN readbuffer[x - muxindex' + muxindex + used] ELSE readbuffer[x]]
      /\ FirstKept(index) = lockmod /\ lastslot # lockmod
  BY <1>0, MuxOnDoes DEF Moved
<1>2. TypeOK /\ Phases
  BY DEF BasicInv
<1>3. PICK c \in Rounds, d \in Rounds : Where(c, d)
  BY DEF FileInv, Where
<1>4. ConsumerAt(c) /\ ReaderAt(d) /\ Behind(c, d)
  BY <1>3 DEF Where
<1>5. /\ index \in 0 .. BufferUnits - 1 /\ Place(lockmod) <= index
      /\ lockend = lockmod /\ lockstart >= lockmod - 1 /\ lockstart <= lockmod
      /\ lockmod = lastslot + 1 => ~AtEnd \/ c # d
  <2>1. /\ index \in 0 .. BufferUnits - 1 /\ Place(FirstKept(index)) <= index
        /\ lockend = lockmod /\ lockstart >= lockmod - 1
        /\ FirstKept(index) = lastslot + 1 => ~AtEnd \/ c # d
    BY <1>0, <1>1, <1>3, KeptSlot
  <2>2. lockstart <= lockmod
    BY <1>2, NumbersAre
  <2> QED BY <1>1, <2>1, <2>2
<1>6. /\ used \in Nat /\ used >= 1
      /\ AtEnd => taken + used < Units \/ (taken + used = Units /\ endindex = Place(lastslot))
  BY <1>0, <1>1, <1>3, MuxRoom
<1>7. /\ lockstart \in Nat /\ lockmod \in Nat /\ lockmod >= 4 /\ Slots = lockmod + 1
      /\ lastslot \in Int /\ lastslot <= lockmod /\ c \in Nat /\ d \in Nat /\ muxindex \in Nat
      /\ taken \in Nat /\ SlotUnits \in Nat /\ SlotUnits \in Nat \ {0} /\ BufferUnits \in Nat
  <2>1. lockstart >= 0
    BY <1>2 DEF Phases
  <2> QED BY <1>2, <2>1, NumbersAre, RoundsAre, Sizes
<1>8. /\ Units' = Units /\ (AtEnd' <=> AtEnd) /\ (Stopped' <=> Stopped)
      /\ (Active(file)' <=> Active(file)) /\ Held(file)' = Held(file) /\ ReaderAt(d)'
  BY <1>1, <1>4, ReaderKept
<1>9. c + lockmod \in Rounds /\ c + lockmod \in Nat /\ (c < d => c + lockmod <= d)
  BY <1>7, RoundsAre
<1>10. /\ Place(lockmod) \in Nat /\ Place(c) \in Nat /\ Place(c + lockmod) = Place(c) + Place(lockmod)
       /\ BufferUnits = Place(lockmod) + SlotUnits /\ Place(0) = 0 /\ Place(0 + 1) = SlotUnits
  BY <1>7, PlaceSum, Places
<1>11. muxindex' = start /\ start \in Nat /\ start < SlotUnits
  <2>1. start \in Nat /\ start < SlotUnits /\ index = SlotUnits * lockmod + start
    BY <1>5, <1>7, <1>10 DEF Place
  <2> HIDE DEF start
  <2>2. \A k \in Nat : (SlotUnits * lockmod + k) \in Nat
    BY <1>7
  <2>3. (SlotUnits * lockmod + start) % SlotUnits = start % SlotUnits
    <3>1. lockmod \in Int /\ SlotUnits * lockmod + start \in Nat
      BY <1>7, <2>1, <2>2
    <3> QED BY <1>7, <2>1, <3>1, QuotientPlus
  <2>4. start % SlotUnits = start
    BY <1>7, <2>1, SmallQuotient
  <2> QED BY <1>1, <2>1, <2>3, <2>4
<1>12. taken + SlotUnits = muxindex + Place(c)
  BY <1>4, <1>7 DEF ConsumerAt
<1>13. (taken + used) + SlotUnits = start + Place(c + lockmod)
  BY <1>6, <1>7, <1>10, <1>11, <1>12
<1>14. ConsumerAt(c + lockmod)'
  <2>1. /\ lockstart' # -1 /\ lockend' <= lockstart' + 1 /\ ~(lockend' >= Slots) /\ lockstart' # lockmod
        /\ taken' + SlotUnits = muxindex' + Place(c + lockmod)
        /\ Place(lockstart') <= muxindex' /\ muxindex' <= Place(lockstart' + 1)
    BY <1>1, <1>7, <1>10, <1>11, <1>13
  <2> QED BY <1>1, <2>1 DEF ConsumerAt, Place
<1>15. FirstOf(c) = c + lockstart /\ FirstOf(c + lockmod)' = c + lockmod
  BY <1>1, <1>7, <1>9 DEF FirstOf
<1>16. Active(file) => c + lockmod < Held(file) + d /\ Held(file) + d < (c + lockmod) + lockmod
  <2> HAVE Active(file)
  <2>1. c + lockend < Held(file) + d /\ Held(file) + d < (c + lockstart) + lockmod
    BY <1>4, <1>7, <1>15 DEF Behind
  <2>2. Held(file) \in Int
    <3>1. file \in 1 .. NumFiles /\ Readers
      BY DEF Reading, Wanted, BasicInv
    <3>2. Held(file) \in 1 .. lockmod
      BY <3>1 DEF Readers
    <3> QED BY <1>7, <3>2
  <2> QED BY <1>5, <1>7, <2>1, <2>2
<1>17. AtEnd => /\ c + lockmod <= d /\ lastslot + d < (c + lockmod) + lockmod
                /\ c + lockmod <= lastslot + d /\ c + lockmod < lastslot + d
  <2> HAVE AtEnd
  <2>1. /\ c <= d /\ lastslot + d < (c + lockstart) + lockmod
        /\ \/ c + lockend <= lastslot + d
           \/ c = d /\ lockend = lastslot + 1 /\ lockstart = lastslot
    BY <1>4, <1>7, <1>15 DEF Behind
  <2>2. lastslot >= 1
    BY <1>4, <1>7 DEF AtEnd, ReaderAt
  <2>3. c + lockmod <= lastslot + d
    BY <1>5, <1>7, <2>1
  <2>4. c < d
    BY <1>1, <1>7, <2>1, <2>3
  <2> QED BY <1>5, <1>7, <1>9, <2>1, <2>2, <2>3, <2>4
<1>18. Behind(c + lockmod, d)'
  <2>1. (c + lockmod) + 0 = c + lockmod
    BY <1>9
  <2> QED BY <1>1, <1>6, <1>8, <1>15, <1>16, <1>17, <2>1 DEF Behind, Place
<1>19. WindowAt(c + lockmod, d)'
  BY <1>1 DEF WindowAt
<1>20. GoesOn'
  BY <1>1, StillGoesOn
<1>21. DOMAIN readbuffer = 0 .. BufferUnits - 1
  BY <1>2 DEF TypeOK
<1>22. \A x \in 0 .. BufferUnits - 1 :
          /\ x < SlotUnits /\ start <= x => readbuffer'[x] = readbuffer[Place(lockmod) + x]
          /\ x >= SlotUnits => readbuffer'[x] = readbuffer[x]
  <2> TAKE x \in 0 .. BufferUnits - 1
  <2>1. x \in Nat /\ start + (BufferUnits - index) - 1 = SlotUnits - 1
    BY <1>5, <1>6, <1>7, <1>10
  <2>2. readbuffer'[x] = IF x \in start .. SlotUnits - 1
                         THEN readbuffer[x - start + muxindex + used] ELSE readbuffer[x]
    <3> HIDE DEF start, index
    <3> QED BY <1>1, <1>11, <1>21, <2>1
  <2>3. x - start + muxindex + used = Place(lockmod) + x
    BY <1>6, <1>7, <1>10, <2>1
  <2>4. x < SlotUnits /\ start <= x => x \in start .. SlotUnits - 1
    BY <1>7, <1>11, <2>1
  <2>5. x >= SlotUnits => x \notin start .. SlotUnits - 1
    BY <1>7, <1>11, <2>1
  <2> QED BY <2>2, <2>3, <2>4, <2>5
<1> HIDE DEF start
<1>23. InRing'
  <2> SUFFICES ASSUME NEW u \in Nat, u < position, position <= u + Round
               PROVE  readbuffer'[SlotUnits + (u % Round)] = [file |-> file, unit |-> u]
    BY <1>1 DEF InRing, Round, Place
  <2>1. readbuffer[SlotUnits + (u % Round)] = [file |-> file, unit |-> u]
    BY DEF FileInv, InRing
  <2>2. Round \in Nat \ {0} /\ BufferUnits = Round + SlotUnits
    BY RoundIs
  <2>3. u % Round \in 0 .. Round - 1
    BY <2>2, Division
  <2>4. SlotUnits + (u % Round) \in 0 .. BufferUnits - 1 /\ SlotUnits + (u % Round) >= SlotUnits
    BY <1>7, <2>2, <2>3
  <2> QED BY <1>22, <2>1, <2>4
<1>24. InSlotZero'
  <2> SUFFICES ASSUME keepreading, NEW x \in start .. SlotUnits - 1
               PROVE  readbuffer'[x] = [file |-> file, unit |-> (taken + used) + x - start]
    BY <1>1, <1>11 DEF InSlotZero
  <2> DEFINE u == (taken + used) + x - start
             y == Place(lockmod) + x
  <2>1. x \in Nat /\ start <= x /\ x < SlotUnits
    BY <1>7, <1>11
  <2>2. u \in Nat /\ u + SlotUnits = x + Place(c + lockmod)
    BY <1>6, <1>7, <1>10, <1>11, <1>13, <2>1
  <2>3. y \in Nat /\ u + SlotUnits = y + Place(c) /\ SlotUnits <= y /\ y < BufferUnits
    <3>1. Place(lockmod) >= SlotUnits
      BY RoundIs DEF Round
    <3> QED BY <1>7, <1>10, <2>1, <2>2, <3>1
  <2> HIDE DEF u
  <2>4. readbuffer'[x] = readbuffer[y]
    <3>1. x \in 0 .. BufferUnits - 1
      BY <1>7, <1>10, <2>1
    <3> QED BY <1>22, <2>1, <3>1
  <2> HIDE DEF y
  <2>5. SlotUnits + (u % Round) = y
    BY <2>2, <2>3, UnitAt
  <2>6. Top \in Nat /\ (Active(file) \/ AtEnd) /\ (AtEnd => ~Active(file))
    BY <1>4, TopIs
  <2>7. lockmod + c < Top + d
    <3>1. CASE Active(file)
      BY <1>7, <1>16, <2>6, <3>1 DEF Top
    <3>2. CASE AtEnd
      BY <1>7, <1>17, <2>6, <3>2 DEF Top
    <3> QED BY <2>6, <3>1, <3>2
  <2>8. Place(lockstart) <= y /\ y < Place(lockmod + 1)
    <3>1. Place(lockstart) <= Place(lockmod) /\ Place(lockstart) \in Int
      <4>1. lockstart \in Int /\ lockmod \in Int
        BY <1>7
      <4> QED BY <1>5, <4>1, PlaceUp, Places
    <3>2. Place(lockmod + 1) = Place(lockmod) + SlotUnits
      BY <1>7, PlaceIs
    <3> QED BY <1>7, <1>10, <2>1, <3>1, <3>2 DEF y
  <2>9. u < position /\ position <= u + Round
    BY <1>4, <1>7, <2>2, <2>3, <2>7, <2>8, UnitInRing
  <2>10. readbuffer[y] = [file |-> file, unit |-> u]
    BY <2>2, <2>5, <2>9 DEF FileInv, InRing
  <2> QED BY <2>4, <2>10 DEF u
<1> QED BY <1>8, <1>9, <1>14, <1>18, <1>19, <1>20, <1>23, <1>24 DEF FileInv
-------------------------------------------------------------------------------
(* Every step keeps the invariant.                                             *)

\* A file is opened when the consumer has given back the slots of the one before.
LEMMA SlotsGivenBack ==
    ASSUME SlotInv, FileOver
    PROVE  lockstart < 0
<1>1. BasicInv /\ TypeOK /\ Phases
  BY DEF SlotInv, BasicInv
<1>2. pc = "loop" /\ keepreading /\ ~dataremaining /\ file <= NumFiles /\ lockstart \in Int
  BY <1>1, FileOverMeans, NumbersAre
<1> SUFFICES ASSUME lockstart >= 0 PROVE FALSE
  BY <1>2
<1>3. Wanted
  BY <1>1, <1>2 DEF Phases
<1>4. Reading /\ FileInv
  BY <1>2, <1>3 DEF Reading, SlotInv
<1> QED BY <1>2, <1>4 DEF FileInv, GoesOn

\* A step of the reader of a file.
LEMMA ReaderStep ==
    ASSUME mishaps' = {}, SlotInv, NEW f \in 1 .. NumFiles, Reader(f)
    PROVE  SlotInv'
<1>1. BasicInv /\ TypeOK /\ Readers
  BY DEF SlotInv, BasicInv
<1>2. ReaderLeaves /\ reader[f].at \notin {"none", "end"}
  BY <1>1, BeginReadingDoes, ReadSlotDoes, SetEndDoes, AdvanceSlotDoes, SweepDoes DEF Reader
<1>3. BasicInv'
  BY <1>1, BeginReadingBasic, ReadSlotBasic, SetEndBasic, AdvanceSlotBasic, SweepBasic DEF Reader
<1>4. ASSUME Reading' PROVE FileInv'
  <2>1. Reading
    BY <1>2, <1>4, ReadingStays
  <2>2. f = file
    BY <1>1, <1>2, <2>1, Alone
  <2>3. FileInv
    BY <2>1 DEF SlotInv
  <2> QED BY <1>1, <2>1, <2>2, <2>3, BeginReadingFile, ReadSlotFile, SetEndFile, AdvanceSlotFile,
             SweepFile DEF Reader
<1> QED BY <1>3, <1>4 DEF SlotInv, BasicInv

\* Steps of the consumer that open a file, or find none.
LEMMA FileStep ==
    ASSUME mishaps' = {}, SlotInv, OutOfFiles \/ OpenFails \/ openfile \/ startReaderThread
    PROVE  SlotInv'
<1>1. BasicInv /\ TypeOK
  BY DEF SlotInv, BasicInv
<1>2. NumFiles \in Nat /\ file \in Nat
  BY <1>1, FilesAre
<1>3. CASE OutOfFiles
  <2>1. BasicInv'
    BY <1>1, <1>3, OutOfFilesBasic
  <2>2. ~Wanted'
    <3>1. file' = file + 1 /\ NumFiles' = NumFiles /\ file >= NumFiles
      BY <1>3 DEF OutOfFiles, NumFiles
    <3> QED BY <1>2, <3>1 DEF Wanted
  <2> QED BY <2>1, <2>2 DEF SlotInv, BasicInv, Reading
<1>4. CASE OpenFails
  <2>1. lockstart < 0
    BY <1>4, SlotsGivenBack DEF OpenFails
  <2>2. BasicInv'
    <3>1. ~EarlierReads
      BY <1>4 DEF OpenFails, Mishap
    <3> QED BY <1>1, <1>4, <2>1, <3>1, OpenFailsBasic
  <2>3. ~Wanted'
    BY <1>4 DEF OpenFails, Wanted
  <2> QED BY <2>2, <2>3 DEF SlotInv, BasicInv, Reading
<1>5. CASE openfile
  <2>1. lockstart < 0
    BY <1>5, SlotsGivenBack DEF openfile
  <2>2. BasicInv'
    <3>1. ~EarlierReads
      BY <1>5 DEF openfile, Mishap
    <3> QED BY <1>1, <1>5, <2>1, <3>1, openfileBasic
  <2>3. ~Reading'
    BY <1>5 DEF openfile, Reading
  <2> QED BY <2>2, <2>3 DEF SlotInv, BasicInv
<1>6. CASE startReaderThread
  <2>1. BasicInv'
    BY <1>1, <1>6, startReaderBasic
  <2>2. ASSUME Reading' PROVE FileInv'
    <3>1. UNCHANGED <<files, file>>
      BY <1>6 DEF startReaderThread
    <3>2. Wanted
      BY <2>2, <3>1, FileStays DEF Reading
    <3> QED BY <1>1, <1>6, <3>2, startReaderFile
  <2> QED BY <2>1, <2>2 DEF SlotInv, BasicInv
<1> QED BY <1>3, <1>4, <1>5, <1>6

\* Steps up to the call of vdifmux.
LEMMA ReadStep ==
    ASSUME mishaps' = {}, SlotInv,
           \/ ReadsDone \/ BeginRead \/ StrayRead \/ FirstRead \/ NextRead \/ ChooseSlots \/ GrabSlot
           \/ ShowSlots \/ NothingToShow
    PROVE  SlotInv'
<1>0. ~StrayRead /\ ~NothingToShow
  BY DEF StrayRead, NothingToShow, Mishap
<1>1. BasicInv /\ TypeOK /\ Phases /\ (Reading => FileInv)
  BY DEF SlotInv, BasicInv
<1>2. UNCHANGED <<files, file>>
  BY <1>0 DEF ReadsDone, BeginRead, FirstRead, NextRead, ChooseSlots, GrabSlot, ShowSlots
<1>3. Wanted' <=> Wanted
  BY <1>2, FileStays
<1>4. CASE ReadsDone \/ BeginRead \/ NextRead
  <2>1. BasicInv'
    BY <1>1, <1>4, ReadsDoneBasic, BeginReadBasic, NextReadBasic
  <2>2. Reading' => Reading
    BY <1>3, <1>4 DEF ReadsDone, BeginRead, NextRead, Reading, locks
  <2>3. Reading' => FileInv'
    BY <1>1, <1>4, <2>2, QuietSteps
  <2> QED BY <2>1, <2>3 DEF SlotInv, BasicInv
<1>5. CASE FirstRead
  <2>1. BasicInv'
    BY <1>1, <1>5, FirstReadBasic
  <2>2. Reading' => Reading
    BY <1>3, <1>5 DEF FirstRead, Reading
  <2>3. Reading' => FileInv'
    BY <1>1, <1>5, <2>2, FirstReadFile
  <2> QED BY <2>1, <2>3 DEF SlotInv, BasicInv
<1>6. ASSUME ChooseSlots \/ GrabSlot \/ ShowSlots PROVE Reading /\ FileInv
  <2>1. pc \in {"window", "grab"}
    BY <1>6 DEF ChooseSlots, GrabSlot, ShowSlots
  <2>2. Wanted /\ lockstart >= 0
    BY <1>1, <2>1, WantedWhen DEF Phases
  <2>3. Reading
    BY <1>1, <2>1, <2>2, NumbersAre DEF Reading
  <2> QED BY <1>1, <2>3
<1>7. CASE ChooseSlots
  <2>1. FileInv' /\ n2' \in 0 .. Slots
    BY <1>1, <1>6, <1>7, ChooseSlotsFile
  <2>2. BasicInv'
    BY <1>1, <1>7, <2>1, ChooseSlotsBasic
  <2> QED BY <2>1, <2>2 DEF SlotInv, BasicInv
<1>8. CASE GrabSlot
  BY <1>1, <1>6, <1>8, GrabSlotBasic, GrabSlotFile DEF SlotInv, BasicInv
<1>9. CASE ShowSlots
  BY <1>1, <1>6, <1>9, ShowSlotsBasic, ShowSlotsFile DEF SlotInv, BasicInv
<1> QED BY <1>0, <1>4, <1>5, <1>7, <1>8, <1>9

\* Steps of vdifmux and after it.
LEMMA MuxStep ==
    ASSUME mishaps' = {}, SlotInv,
           \/ MuxFails
           \/ pc = "mux" /\ \E used \in Uses : \/ MuxToEnd(used) \/ MuxOutOfRing(used)
                                               \/ MuxAllOfRing(used) \/ MuxOn(used)
           \/ RestartRing
    PROVE  SlotInv'
<1>1. BasicInv /\ TypeOK /\ Phases /\ (Reading => FileInv)
  BY DEF SlotInv, BasicInv
<1>2. pc \in {"mux", "wrap"}
  BY DEF MuxFails, RestartRing
<1>3. Wanted /\ lockstart >= 0
  BY <1>1, <1>2, WantedWhen DEF Phases
<1>4. Reading /\ FileInv
  <2>1. Reading
    BY <1>1, <1>2, <1>3, NumbersAre DEF Reading
  <2> QED BY <1>1, <2>1
<1>5. ~MuxFails /\ \A used \in Uses : ~MuxOutOfRing(used)
  BY DEF MuxFails, MuxOutOfRing, Mishap
<1>6. CASE RestartRing
  BY <1>1, <1>4, <1>6, RestartRingBasic, RestartRingFile DEF SlotInv, BasicInv
<1>7. ASSUME pc = "mux", NEW used \in Uses, MuxToEnd(used) \/ MuxAllOfRing(used) \/ MuxOn(used)
      PROVE  SlotInv'
  <2>1. CASE MuxToEnd(used)
    <3>1. BasicInv'
      BY <1>1, <1>4, <1>7, <2>1, MuxToEndBasic
    <3>2. ~Reading'
      BY <2>1 DEF MuxToEnd, Reading
    <3> QED BY <3>1, <3>2 DEF SlotInv, BasicInv
  <2>2. CASE MuxAllOfRing(used)
    <3>1. BasicInv' /\ FileInv'
      BY <1>1, <1>4, <1>7, <2>2, MuxAllOfRingBasic, MuxAllOfRingFile
    <3> QED BY <3>1 DEF SlotInv, BasicInv
  <2>3. CASE MuxOn(used)
    <3>1. BasicInv'
      BY <1>1, <1>4, <1>7, <2>3, MuxOnBasic
    <3>2. FileInv'
      BY <1>1, <1>4, <1>7, <2>3, MuxOnMoves, MuxOnStays
    <3> QED BY <3>1, <3>2 DEF SlotInv, BasicInv
  <2> QED BY <1>7, <2>1, <2>2, <2>3
<1> QED BY <1>5, <1>6, <1>7

\* Steps after dataRead, and the order to stop.
LEMMA AfterStep ==
    ASSUME mishaps' = {}, SlotInv, KeepGoing \/ EndOfJob \/ JoinReader \/ StopReading
    PROVE  SlotInv'
<1>1. BasicInv /\ TypeOK /\ Phases /\ (Reading => FileInv)
  BY DEF SlotInv, BasicInv
<1>2. UNCHANGED <<files, file>>
  BY DEF KeepGoing, EndOfJob, JoinReader, StopReading
<1>3. Wanted' <=> Wanted
  BY <1>2, FileStays
<1>4. CASE KeepGoing \/ StopReading
  <2>1. BasicInv'
    BY <1>1, <1>4, KeepGoingBasic, StopReadingBasic
  <2>2. Reading' => Reading
    BY <1>3, <1>4 DEF KeepGoing, StopReading, Reading, locks
  <2>3. Reading' => FileInv'
    BY <1>1, <1>4, <2>2, QuietSteps
  <2> QED BY <2>1, <2>3 DEF SlotInv, BasicInv
<1>5. CASE EndOfJob
  <2>1. BasicInv'
    BY <1>1, <1>5, EndOfJobBasic
  <2>2. ~Reading'
    <3>1. lockstart' = lockstart /\ pc = "post" /\ (lockstart >= 0 => pc' = "join")
      BY <1>5 DEF EndOfJob
    <3>2. lockstart \in Int /\ lockstart # -1
      BY <1>1, <3>1, NumbersAre DEF Phases
    <3> QED BY <3>1, <3>2 DEF Reading
  <2> QED BY <2>1, <2>2 DEF SlotInv, BasicInv
<1>6. CASE JoinReader
  <2>1. BasicInv'
    BY <1>1, <1>6, JoinReaderBasic
  <2>2. ~Reading'
    BY <1>6 DEF JoinReader, Reading
  <2> QED BY <2>1, <2>2 DEF SlotInv, BasicInv
<1> QED BY <1>4, <1>5, <1>6
LEMMA SlotStep ==
    ASSUME mishaps' = {}, SlotInv, [Next]_vars
    PROVE  SlotInv'
<1>1. CASE Consumer
  BY <1>1, FileStep, ReadStep, MuxStep, AfterStep DEF Consumer
<1>2. CASE StopReading
  BY <1>2, AfterStep
<1>3. CASE \E f \in 1 .. NumFiles : Reader(f)
  BY <1>3, ReaderStep
<1>4. CASE UNCHANGED vars
  <2>1. UNCHANGED <<files, pc, file, numread, dataremaining, keepreading, muxindex, muxend, n2, taken,
                    lockstart, lockend, slotMutexOwner, lastslot, endindex, readbuffer,
                    readbufferwriteslot, reader, position>>
    BY <1>4 DEF vars, locks, ring
  <2>2. BasicInv /\ TypeOK /\ Readers /\ Consumers /\ Phases /\ AllTaken
    BY DEF SlotInv, BasicInv
  <2>3. Wanted' <=> Wanted
    BY <2>1, FileStays
  <2>4. TypeOK' /\ Consumers' /\ AllTaken'
    BY <2>1, <2>2 DEF TypeOK, NumFiles, Consumers, HasSlots, MutexOf, AllTaken, Units
  <2>5. Readers'
    BY <2>1, <2>2, ReadersKept
  <2>6. Phases'
    BY <2>1, <2>2, <2>3 DEF Phases, NumFiles
  <2>7. ASSUME Reading' PROVE FileInv'
    <3>1. Reading
      BY <2>1, <2>3, <2>7 DEF Reading
    <3>2. FileInv
      BY <3>1 DEF SlotInv
    <3>3. GoesOn'
      BY <2>1, <3>2, GoesOnStays DEF FileInv, ring
    <3>4. \A c, d \in Rounds : Where(c, d) => WindowAt(c, d)'
      <4> TAKE c, d \in Rounds
      <4> HAVE Where(c, d)
      <4>1. (AtEnd' <=> AtEnd) /\ (Active(file)' <=> Active(file)) /\ Held(file)' = Held(file)
        BY <2>1, ReaderKept
      <4> QED BY <2>1, <4>1 DEF Where, WindowAt, EndOfSlots, Place
    <3> QED BY <2>1, <3>2, <3>3, <3>4, QuietFile DEF locks, ring
  <2> QED BY <2>4, <2>5, <2>6, <2>7 DEF SlotInv
<1> QED BY <1>1, <1>2, <1>3, <1>4 DEF Next

LEMMA SlotInit ==
    ASSUME Init
    PROVE  SlotInv
<1> USE DEF Init
<1>1. NumFiles \in Nat
  <2>1. files \in Seq([units : Nat, skipped : SUBSET Nat, opens : BOOLEAN, past : BOOLEAN])
    BY InputsAssumption
  <2> QED BY <2>1 DEF NumFiles
<1>2. /\ Slots \in Nat /\ Slots >= 5 /\ SlotUnits \in Nat /\ BufferUnits \in Nat /\ BufferUnits >= 1
      /\ 0 \in Mutexes /\ 0 \in 0 .. SlotUnits
  <2>1. Slots \in Nat /\ Slots >= 5 /\ SlotUnits \in Nat /\ SlotUnits >= 2 /\ Slots - 1 \in Nat
    BY Sizes
  <2>2. Round \in Nat /\ BufferUnits = Round + SlotUnits
    BY RoundIs
  <2> QED BY <2>1, <2>2 DEF Mutexes
<1>3. TypeOK
  <2>1. file \in 0 .. NumFiles + 1 /\ muxindex \in 0 .. BufferUnits - 1 /\ endindex \in 0 .. BufferUnits - 1
           /\ n2 \in 0 .. Slots /\ lockstart \in -2 .. Slots - 1 /\ lockend \in -2 .. Slots
           /\ lastslot \in -2 .. Slots - 1 /\ readbufferwriteslot \in 1 .. Slots - 1
    BY <1>1, <1>2
  <2>2. /\ slotMutexOwner \in [Mutexes -> {0, 1, 2}] /\ DOMAIN readbuffer = 0 .. BufferUnits - 1
        /\ position \in Nat /\ numread \in 0 .. 3 /\ taken \in Nat /\ muxend \in Nat
    OBVIOUS
  <2>3. reader \in [1 .. NumFiles -> [at : {"none", "begin", "read", "short", "lock", "last", "sweep",
                                            "end"}, slot : Mutexes, got : 0 .. SlotUnits]]
    BY <1>2
  <2> QED BY <2>1, <2>2, <2>3 DEF TypeOK
<1>4. ~Wanted /\ ~Reading
  BY <1>1 DEF Wanted, Reading
<1>5. Readers
  BY DEF Readers, Active
<1>6. Consumers
  BY DEF Consumers, HasSlots
<1>7. Phases /\ AllTaken
  BY <1>1, <1>4 DEF Phases, AllTaken
<1> QED BY <1>3, <1>4, <1>5, <1>6, <1>7 DEF SlotInv

-------------------------------------------------------------------------------
(* What the invariant is for.                                                  *)

\* vdifmux looks only at slots that the consumer has locked, and a reader reads only
\* into one that it has locked.
LEMMA ShownLocked ==
    ASSUME SlotInv, pc = "mux", NEW f \in 1 .. NumFiles, reader[f].at = "read"
    PROVE  \/ (readbufferwriteslot + 1) * SlotUnits <= muxindex
           \/ readbufferwriteslot * SlotUnits >= muxend
<1>1. BasicInv /\ TypeOK /\ Phases /\ Readers /\ Consumers
  BY DEF SlotInv, BasicInv
<1>2. Wanted /\ lockstart >= 0
  BY <1>1, WantedWhen DEF Phases
<1>3. Reading /\ FileInv
  <2>1. Reading
    BY <1>1, <1>2, NumbersAre DEF Reading
  <2> QED BY <2>1 DEF SlotInv
<1>4. f = file
  BY <1>1, <1>3, Alone
<1>5. PICK c \in Rounds, d \in Rounds : Where(c, d)
  BY <1>3 DEF FileInv, Where
<1>6. ConsumerAt(c) /\ WindowAt(c, d)
  BY <1>5 DEF Where
<1>7. /\ muxindex \in Nat /\ muxend \in Nat /\ n2 \in Nat /\ lockend \in Int /\ lockstart \in Nat
      /\ readbufferwriteslot \in Nat
  BY <1>1, <1>2, NumbersAre
<1>8. n2 <= lockend /\ muxend = EndOfSlots /\ Place(lockstart) <= muxindex
  BY <1>2, <1>6 DEF WindowAt, ConsumerAt
<1>9. lastslot # n2
  <2> SUFFICES ASSUME lastslot = n2 PROVE FALSE
    OBVIOUS
  <2>1. AtEnd
    BY <1>3, <1>1, <1>5, <1>8, EndShown
  <2> QED BY <1>4, <2>1 DEF AtEnd
<1>10. muxend = Place(n2 + 1)
  BY <1>1, <1>8, <1>9, EndOfSlotsType
<1>11. slotMutexOwner[MutexOf(readbufferwriteslot)] = 2 /\ MutexOf(readbufferwriteslot) \in Mutexes
  BY <1>1, <1>7, MutexIs DEF Readers, Active, Held
<1>12. readbufferwriteslot \notin lockstart .. lockend
  <2>1. HasSlots
    BY <1>2 DEF HasSlots
  <2> QED BY <1>1, <1>11, <2>1 DEF Consumers
<1>13. CASE readbufferwriteslot < lockstart
  <2>1. Place(readbufferwriteslot + 1) <= Place(lockstart)
    <3>1. readbufferwriteslot + 1 \in Int /\ lockstart \in Int /\ readbufferwriteslot + 1 <= lockstart
      BY <1>7, <1>13
    <3> QED BY <3>1, PlaceUp
  <2>2. Place(readbufferwriteslot + 1) \in Nat /\ Place(lockstart) \in Nat
    BY <1>7, PlaceIs
  <2>3. Place(readbufferwriteslot + 1) <= muxindex
    BY <1>7, <1>8, <2>1, <2>2
  <2> QED BY <2>3 DEF Place
<1>14. CASE readbufferwriteslot > lockend
  <2>1. Place(n2 + 1) <= Place(readbufferwriteslot)
    <3>1. readbufferwriteslot \in Int /\ n2 + 1 \in Int /\ n2 + 1 <= readbufferwriteslot
      BY <1>7, <1>8, <1>14
    <3> QED BY <3>1, PlaceUp
  <2>2. Place(readbufferwriteslot) \in Nat /\ Place(n2 + 1) \in Nat
    BY <1>7, PlaceIs
  <2>3. Place(readbufferwriteslot) >= muxend
    BY <1>10, <2>1, <2>2
  <2> QED BY <2>3 DEF Place
<1> QED BY <1>7, <1>12, <1>13, <1>14

\* The mutexes that the consumer has are those of the slots it believes to have.
LEMMA LocksAreKnown ==
    ASSUME SlotInv
    PROVE  LocksKnown
<1>1. TypeOK /\ Phases /\ Consumers
  BY DEF SlotInv
<1> SUFFICES ASSUME lockstart >= 0, dataremaining
             PROVE  {m \in Mutexes : slotMutexOwner[m] = 1} = {MutexOf(slot) : slot \in lockstart .. lockend}
  BY DEF LocksKnown
<1>2. HasSlots
  BY <1>1 DEF Phases, HasSlots
<1>3. \A slot \in lockstart .. lockend : MutexOf(slot) \in Mutexes
  <2> TAKE slot \in lockstart .. lockend
  <2>1. slot \in Nat
    BY <1>1, NumbersAre
  <2> QED BY <2>1, MutexIs
<1>4. \A m \in Mutexes : slotMutexOwner[m] = 1 <=> \E slot \in lockstart .. lockend : m = MutexOf(slot)
  BY <1>1, <1>2 DEF Consumers
<1> QED BY <1>3, <1>4

-------------------------------------------------------------------------------
(* The theorems.                                                               *)

\* Once something has happened that the code has no protection against, it has happened.
LEMMA MishapsStay ==
    ASSUME [Next]_vars
    PROVE  mishaps \subseteq mishaps'
<1> USE DEF Mishap
<1>1. CASE Consumer
  <2>1. CASE OutOfFiles \/ OpenFails \/ openfile \/ startReaderThread \/ ReadsDone
    BY <2>1 DEF OutOfFiles, OpenFails, openfile, startReaderThread, ReadsDone
  <2>2. CASE \/ BeginRead \/ StrayRead \/ FirstRead \/ NextRead \/ ChooseSlots \/ GrabSlot
             \/ ShowSlots \/ NothingToShow \/ MuxFails
    BY <2>2 DEF BeginRead, StrayRead, FirstRead, NextRead, ChooseSlots, GrabSlot, ShowSlots,
                NothingToShow, MuxFails
  <2>3. CASE \E used \in Uses : \/ MuxToEnd(used) \/ MuxOutOfRing(used)
                               \/ MuxAllOfRing(used) \/ MuxOn(used)
    BY <2>3 DEF MuxToEnd, MuxOutOfRing, MuxAllOfRing, MuxOn, EndUnnoticed
  <2>4. CASE RestartRing \/ KeepGoing \/ EndOfJob \/ JoinReader
    BY <2>4 DEF RestartRing, KeepGoing, EndOfJob, JoinReader
  <2> QED BY <1>1, <2>1, <2>2, <2>3, <2>4 DEF Consumer
<1>2. CASE StopReading
  BY <1>2 DEF StopReading
<1>3. CASE \E f \in 1 .. NumFiles : Reader(f)
  BY <1>3 DEF Reader, BeginReading, ReadSlot, SetEnd, AdvanceSlot, Sweep
<1>4. CASE UNCHANGED vars
  BY <1>4 DEF vars
<1> QED BY <1>1, <1>2, <1>3, <1>4 DEF Next

\* As long as nothing has happened that the code has no protection against, the two
\* threads of a VDIF data stream keep the consumer, in the file's endless numbering of
\* slots, behind the reader by less than a round of the ring.
THEOREM SlotInvariant == Spec => [](Unharmed => SlotInv)
<1>1. Init => (Unharmed => SlotInv)
  BY SlotInit
<1>2. (Unharmed => SlotInv) /\ [Next]_vars => (Unharmed => SlotInv)'
  <2> SUFFICES ASSUME Unharmed => SlotInv, [Next]_vars, mishaps' = {} PROVE SlotInv'
    BY DEF Unharmed
  <2>1. mishaps \subseteq mishaps'
    BY MishapsStay
  <2>2. SlotInv
    BY <2>1 DEF Unharmed
  <2> QED BY <2>2, SlotStep
<1> QED BY <1>1, <1>2, PTL DEF Spec

\* As long as nothing has happened that the code has no protection against (Unharmed),
\* readthreadfunction reads only into a slot that is locked for it, dataRead has locked
\* what it believes to have locked, and vdifmux looks at nothing that is being read; for
\* any number and size of slots, any files, and whatever vdifmux uses of them.
THEOREM SlotsAreShared == Spec => []SlotsInv
<1>1. (Unharmed => SlotInv) => SlotsInv
  <2> SUFFICES ASSUME SlotInv PROVE TypeOK /\ WritesLocked /\ LocksKnown /\ ShownIsStable
    BY DEF SlotsInv
  <2>1. TypeOK /\ Readers
    BY DEF SlotInv
  <2>2. WritesLocked
    BY <2>1 DEF WritesLocked, Readers, Active, Held
  <2>3. LocksKnown
    BY LocksAreKnown
  <2>4. ShownIsStable
    BY ShownLocked DEF ShownIsStable
  <2> QED BY <2>1, <2>2, <2>3, <2>4
<1> QED BY <1>1, SlotInvariant, PTL

\* Under the same condition dataRead shows vdifmux the data of the file in order, from
\* where the last call stopped, however often the ring has been gone round and however
\* much of it vdifmux uses in each call.
THEOREM ShownIsInOrder == Spec => []ShownInOrder
<1>1. (Unharmed => SlotInv) => ShownInOrder
  <2> SUFFICES ASSUME SlotInv, pc = "mux", keepreading,
                      NEW x \in muxindex .. muxend - 1, ToShow(x)
               PROVE  x < BufferUnits /\ readbuffer[x] = [file |-> file, unit |-> taken + x - muxindex]
    BY DEF ShownInOrder, ToShow
  <2>1. BasicInv /\ TypeOK /\ Phases
    BY DEF SlotInv, BasicInv
  <2>2. Wanted /\ lockstart >= 0
    BY <2>1, WantedWhen DEF Phases
  <2>3. Reading
    BY <2>1, <2>2, NumbersAre DEF Reading
  <2>4. FileInv
    BY <2>3 DEF SlotInv
  <2> QED BY <2>1, <2>3, <2>4, ShownRight
<1> QED BY <1>1, SlotInvariant, PTL

\* Under the same condition dataRead takes the data of a file to be at its end only when
\* all of it has been multiplexed, but for what is not worth another call, and nothing
\* that is not of the file.
THEOREM NothingIsLeft == Spec => []NothingLeft
<1>1. (Unharmed => SlotInv) => NothingLeft
  BY DEF SlotInv, AllTaken, NothingLeft
<1> QED BY <1>1, SlotInvariant, PTL
===============================================================================
