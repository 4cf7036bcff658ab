---------------------------- MODULE DataMuxerProofs ----------------------------
(* Proofs about module DataMuxer, for every number of threads, size of a read   *)
(* and rate of frames, and for every loss and change of order in the file: the  *)
(* rings hold each frame at the place of its time and never mix two rounds, and *)
(* multiplex returns frames that follow each other in time.                     *)
EXTENDS DataMuxer, Induction, SequenceTheorems

-----------------------------------------------------------------------------
(* Sizes and headers.                                                          *)

\* What the constants are.
LEMMA Constants ==
    /\ numthreads \in Nat \ {0} /\ readframes \in Nat \ {0}
    /\ framespersecond \in Nat \ {0} /\ Window \in Nat \ {0} /\ LossEvery \in Nat \ {0}
    /\ FirstFrame \in Nat /\ MaxSlots \in Nat /\ MaxLost \in Nat /\ MaxUnwanted \in Nat
  BY SizeAssumption

\* A ring has room for four reads.
LEMMA Sizes ==
    /\ outputframes \in Nat \ {0}
    /\ numthreadbufframes \in Nat \ {0}
    /\ numthreadbufframes = 4 * outputframes
<1> DEFINE k == readframes \div numthreads
           n == (readframes * 4) \div numthreads
           r == (readframes * 4) % numthreads
<1>0. numthreads \in Nat \ {0} /\ readframes \in Nat \ {0} /\ readframes * 4 \in Nat
  BY Constants
<1>1. k \in Nat /\ readframes = numthreads * k + (readframes % numthreads)
  BY <1>0, Division
<1>2. readframes % numthreads = 0
  BY SizeAssumption
<1>3. n \in Nat /\ r \in 0 .. numthreads - 1 /\ readframes * 4 = numthreads * n + r
  BY <1>0, Division
<1>4. outputframes = k /\ numthreadbufframes = n
  BY DEF outputframes, numthreadbufframes, DEMUX_BUFFER_FACTOR
<1> HIDE DEF k, n, r
<1>5. readframes = numthreads * k
  BY <1>0, <1>1, <1>2
<1>6. k # 0
  BY <1>0, <1>5
<1>7. readframes * 4 = numthreads * (4 * k) + 0
  BY <1>0, <1>1, <1>5
<1>8. 4 * k \in Int /\ 0 \in 0 .. numthreads - 1
  BY <1>0, <1>1
<1>9. n = 4 * k
  BY <1>0, <1>3, <1>7, <1>8, OneDivision
<1> QED BY <1>1, <1>4, <1>6, <1>9

\* The header of a frame has its time.
LEMMA HeaderIs ==
    ASSUME NEW frame \in Nat
    PROVE  HeaderOf(frame) \in Header /\ FrameOf(HeaderOf(frame)) = frame
<1>1. /\ frame \div framespersecond \in Nat
      /\ frame % framespersecond \in 0 .. framespersecond - 1
      /\ frame = framespersecond * (frame \div framespersecond) + (frame % framespersecond)
  BY Constants, Division
<1>2. (frame \div framespersecond) * framespersecond
        = framespersecond * (frame \div framespersecond)
  BY <1>1, Constants
<1> QED BY <1>1, <1>2 DEF HeaderOf, FrameOf, Header

\* A header is not the mark of an empty place, and its time is a number.
LEMMA HeaderHasTime ==
    ASSUME NEW header \in Header
    PROVE  header # NotFull /\ FrameOf(header) \in Nat
<1>1. header.second \in Nat /\ header.number \in Nat
  BY Constants DEF Header
<1>2. NotFull.second = -1
  BY DEF NotFull
<1>3. header.second * framespersecond \in Nat
  BY <1>1, Constants
<1> QED BY <1>1, <1>2, <1>3 DEF FrameOf

\* The next header is that of the next time, also at the end of a second.
LEMMA NextHeaderIs ==
    ASSUME NEW header \in Header
    PROVE  NextHeader(header) \in Header /\ FrameOf(NextHeader(header)) = FrameOf(header) + 1
<1>1. /\ header.second \in Nat /\ header.number \in 0 .. framespersecond - 1
      /\ header = [second |-> header.second, number |-> header.number]
  BY DEF Header
<1>2. CASE header.number + 1 = framespersecond
  <2>1. NextHeader(header) = [second |-> header.second + 1, number |-> 0]
    BY <1>2 DEF NextHeader
  <2>2. (header.second + 1) * framespersecond
          = header.second * framespersecond + framespersecond
    BY <1>1, Constants
  <2>3. header.second * framespersecond \in Nat
    BY <1>1, Constants
  <2> QED BY <1>1, <1>2, <2>1, <2>2, <2>3, Constants DEF FrameOf, Header
<1>3. CASE header.number + 1 # framespersecond
  <2>1. NextHeader(header) = [second |-> header.second, number |-> header.number + 1]
    BY <1>1, <1>3 DEF NextHeader
  <2>2. header.second * framespersecond \in Nat
    BY <1>1, Constants
  <2> QED BY <1>1, <1>3, <2>1, <2>2, Constants DEF FrameOf, Header
<1> QED BY <1>2, <1>3

\* Time and thread of a slot are what they are to be.
LEMMA SlotIs ==
    ASSUME NEW slot \in Nat
    PROVE  FrameOfSlot(slot) \in Nat /\ ThreadOf(slot) \in Threads
<1>1. slot \div numthreads \in Nat /\ slot % numthreads \in 0 .. numthreads - 1
  BY Constants, Division
<1> QED BY <1>1, Constants DEF FrameOfSlot, ThreadOf, Threads
-----------------------------------------------------------------------------
(* Reading the file.                                                           *)

\* A slot that may come next.
LEMMA ComingIs ==
    ASSUME TypeOK, NEW slot \in Coming
    PROVE  slot \in Nat /\ slot \in firstslot .. firstslot + Window - 1 /\ slot < MaxSlots
  BY Constants DEF TypeOK, Coming

\* Passing a slot: the first slot not passed stays within the file, and the slots
\* passed after it stay within the window.
LEMMA PassIs ==
    ASSUME TypeOK, FileOK, NEW slot \in Coming, Pass(slot)
    PROVE  /\ firstslot' \in 0 .. MaxSlots /\ passed' \subseteq firstslot' .. MaxSlots
           /\ FileOK'
<1> DEFINE all == passed \cup {slot}
           Right(s) == s \notin all /\ \A r \in firstslot .. s - 1 : r \in all
           first == CHOOSE s \in firstslot .. firstslot + Window : Right(s)
           T == {s \in Nat : s >= firstslot /\ s \notin all}
<1>1. firstslot \in Nat /\ firstslot <= MaxSlots /\ Window \in Nat \ {0} /\ MaxSlots \in Nat
  BY Constants DEF TypeOK
<1>2. \A s \in all : s \in firstslot .. firstslot + Window - 1 /\ s < MaxSlots
  BY <1>1, ComingIs DEF FileOK
<1>3. firstslot' = first /\ passed' = {s \in all : s > first}
  BY DEF Pass
<1> HIDE DEF all
<1>4. firstslot + Window \in T
  BY <1>1, <1>2
<1>5. PICK x \in T : \A y \in T : x <= y
  BY <1>4, NatLeast
<1>6. x \in firstslot .. firstslot + Window
  BY <1>1, <1>4, <1>5
<1>7. Right(x)
  <2>1. ASSUME NEW r \in firstslot .. x - 1 PROVE r \in all
    BY <1>1, <1>5, <1>6
  <2> QED BY <1>5, <2>1
<1> HIDE DEF Right
<1>8. first \in firstslot .. firstslot + Window /\ Right(first)
  BY <1>6, <1>7
<1> HIDE DEF first
<1> USE DEF Right
<1>9. first <= MaxSlots
  <2>1. CASE first = firstslot
    BY <1>1, <2>1
  <2>2. CASE first # firstslot
    <3>1. first - 1 \in firstslot .. first - 1
      BY <1>1, <1>8, <2>2
    <3> QED BY <1>1, <1>2, <1>8, <3>1
  <2> QED BY <2>1, <2>2
<1>10. \A s \in passed' : s \in first + 1 .. first + Window - 1 /\ s < MaxSlots
  BY <1>1, <1>2, <1>3, <1>8
<1>11. FileOK'
  BY <1>3, <1>10 DEF FileOK
<1>12. passed' \subseteq first .. MaxSlots
  BY <1>1, <1>8, <1>10
<1> QED BY <1>1, <1>3, <1>8, <1>9, <1>11, <1>12
-----------------------------------------------------------------------------
(* What multiplex returns.                                                     *)

Frames == Seq([header : Header, valid : BOOLEAN])

\* The frames follow each other up to one of a time
InOrderTo(frames, last) ==
    /\ frames \in Frames
    /\ \A i \in 1 .. Len(frames) - 1 :
          FrameOf(frames[i + 1].header) = FrameOf(frames[i].header) + 1
    /\ frames # <<>> => /\ ref # NotFull
                        /\ FrameOf(frames[Len(frames)].header) - FrameOf(ref) = last

\* The last frame has a header.
LEMMA LastHeader ==
    ASSUME NEW frames \in Frames, frames # <<>>
    PROVE  frames[Len(frames)].header \in Header
<1> DEFINE S == [header : Header, valid : BOOLEAN]
<1>1. frames \in Seq(S)
  BY DEF Frames
<1> HIDE DEF S
<1>2. Len(frames) \in Nat \ {0} /\ frames \in [1 .. Len(frames) -> S]
  BY <1>1, EmptySeq, LenProperties
<1>3. frames[Len(frames)] \in S
  BY <1>2
<1> QED BY <1>3 DEF S

\* A thread that has a frame has its header.
LEMMA HavingIs ==
    ASSUME TypeOK, NEW frame \in Nat, NEW t \in Having(frame)
    PROVE  /\ t \in Threads /\ frame % numthreadbufframes \in Places
           /\ threadbuffers[t][frame % numthreadbufframes] \in Header
<1>1. frame % numthreadbufframes \in Places
  BY Sizes, Division DEF Places
<1>2. t \in Threads /\ threadbuffers[t][frame % numthreadbufframes] # NotFull
  BY DEF Having
<1>3. threadbuffers[t][frame % numthreadbufframes] \in Header \cup {NotFull}
  BY <1>1, <1>2 DEF TypeOK
<1> QED BY <1>1, <1>2, <1>3

\* It is the header of that time, if the frame is among the next that are taken.
LEMMA HavingIsOfTime ==
    ASSUME MuxInv, NEW t, NEW frame \in processframenumber .. processframenumber + numthreadbufframes - 1,
           t \in Having(frame)
    PROVE  /\ ref # NotFull
           /\ FrameOf(threadbuffers[t][frame % numthreadbufframes]) - FrameOf(ref) = frame
<1> DEFINE p == frame % numthreadbufframes
           current == FrameOf(threadbuffers[t][p]) - FrameOf(ref)
<1>1. TypeOK /\ RingsInWindow /\ ReferenceOK /\ processframenumber \in Nat /\ frame \in Nat
  BY Sizes DEF MuxInv, RingsRight, TypeOK
<1>2. t \in Threads /\ p \in Places /\ threadbuffers[t][p] # NotFull
  BY <1>1, HavingIs DEF Having
<1>3. ref # NotFull
  BY <1>1, <1>2 DEF ReferenceOK
<1>4. /\ current % numthreadbufframes = p
      /\ current \in processframenumber .. processframenumber + numthreadbufframes - 1
  BY <1>1, <1>2 DEF RingsInWindow
<1> HIDE DEF current
<1>5. current % numthreadbufframes = frame % numthreadbufframes
  BY <1>4
<1>6. current = frame
  BY <1>1, <1>4, <1>5, Sizes, SamePlace
<1> QED BY <1>3, <1>6 DEF current

\* One frame is appended, or none if there was none.
LEMMA OneMoreIs ==
    ASSUME NEW before, NEW frame
    PROVE  \/ /\ Having(frame) # {}
              /\ \E t \in Having(frame) :
                    OneMore(before, frame)
                      = Append(before, [header |-> threadbuffers[t][frame % numthreadbufframes],
                                        valid |-> Having(frame) = Threads])
           \/ /\ before # <<>>
              /\ OneMore(before, frame)
                   = Append(before, [header |-> NextHeader(before[Len(before)].header),
                                     valid |-> FALSE])
           \/ before = <<>> /\ OneMore(before, frame) = <<>>
<1> DEFINE t == CHOOSE t \in Having(frame) : \A u \in Having(frame) : t <= u
<1>1. CASE Having(frame) # {}
  <2>1. t \in Having(frame)
    <3>1. Having(frame) \subseteq Nat
      BY DEF Having, Threads
    <3>2. \E x \in Having(frame) : \A u \in Having(frame) : x <= u
      BY <1>1, <3>1, NatLeast
    <3> QED BY <3>2
  <2>2. OneMore(before, frame)
          = Append(before, [header |-> threadbuffers[t][frame % numthreadbufframes],
                            valid |-> Having(frame) = Threads])
    BY <1>1 DEF OneMore
  <2> HIDE DEF t
  <2> QED BY <1>1, <2>1, <2>2
<1>2. CASE Having(frame) = {}
  BY <1>2 DEF OneMore
<1> QED BY <1>1, <1>2

\* What is returned stays a sequence of frames.
LEMMA OneMoreType ==
    ASSUME TypeOK, NEW before \in Frames, NEW frame \in Nat
    PROVE  OneMore(before, frame) \in Frames
<1>1. CASE \E t \in Having(frame) :
             OneMore(before, frame)
               = Append(before, [header |-> threadbuffers[t][frame % numthreadbufframes],
                                 valid |-> Having(frame) = Threads])
  <2>1. PICK t \in Having(frame) :
             OneMore(before, frame)
               = Append(before, [header |-> threadbuffers[t][frame % numthreadbufframes],
                                 valid |-> Having(frame) = Threads])
    BY <1>1
  <2>2. threadbuffers[t][frame % numthreadbufframes] \in Header
    BY HavingIs
  <2> QED BY <2>1, <2>2 DEF Frames
<1>2. CASE /\ before # <<>>
           /\ OneMore(before, frame)
                = Append(before, [header |-> NextHeader(before[Len(before)].header),
                                  valid |-> FALSE])
  <2>1. before[Len(before)].header \in Header
    BY <1>2, LastHeader
  <2>2. NextHeader(before[Len(before)].header) \in Header
    BY <2>1, NextHeaderIs
  <2> QED BY <1>2, <2>2 DEF Frames
<1>3. CASE OneMore(before, frame) = <<>>
  BY <1>3 DEF Frames
<1> QED BY <1>1, <1>2, <1>3, OneMoreIs

\* Appending the frame of the next time
LEMMA AppendInOrder ==
    ASSUME NEW before, NEW last \in Int, InOrderTo(before, last), NEW frame,
           frame \in [header : Header, valid : BOOLEAN],
           ref \in Header, FrameOf(frame.header) - FrameOf(ref) = last + 1
    PROVE  InOrderTo(Append(before, frame), last + 1)
<1> DEFINE after == Append(before, frame)
<1>1. before \in Frames /\ Len(before) \in Nat
  BY DEF InOrderTo, Frames
<1>2. /\ after \in Frames /\ Len(after) = Len(before) + 1 /\ after # <<>>
      /\ after[Len(before) + 1] = frame
      /\ \A i \in 1 .. Len(before) : after[i] = before[i]
  BY <1>1 DEF Frames
<1> HIDE DEF after
<1>3. ASSUME NEW i \in 1 .. Len(after) - 1
      PROVE  FrameOf(after[i + 1].header) = FrameOf(after[i].header) + 1
  <2>1. i \in 1 .. Len(before)
    BY <1>1, <1>2
  <2>2. CASE i = Len(before)
    <3>1. before # <<>> /\ after[i] = before[Len(before)] /\ after[i + 1] = frame
      BY <1>1, <1>2, <2>1, <2>2
    <3>2. FrameOf(after[i].header) - FrameOf(ref) = last
      BY <3>1 DEF InOrderTo
    <3>3. after[i].header \in Header
      BY <1>1, <3>1, LastHeader
    <3>4. FrameOf(after[i].header) \in Nat /\ FrameOf(frame.header) \in Nat /\ FrameOf(ref) \in Nat
      BY <3>3, HeaderHasTime
    <3> QED BY <3>1, <3>2, <3>4
  <2>3. CASE i # Len(before)
    <3>1. i \in 1 .. Len(before) - 1 /\ i + 1 \in 1 .. Len(before)
      BY <1>1, <2>1, <2>3
    <3>2. after[i] = before[i] /\ after[i + 1] = before[i + 1]
      BY <1>2, <3>1
    <3> QED BY <3>1, <3>2 DEF InOrderTo
  <2> QED BY <2>2, <2>3
<1>4. ref # NotFull
  BY HeaderHasTime
<1>5. InOrderTo(after, last + 1)
  BY <1>2, <1>3, <1>4 DEF InOrderTo
<1> QED BY <1>5 DEF after

\* Each frame that multiplex adds follows the one before.
LEMMA OneMoreInOrder ==
    ASSUME MuxInv, NEW before,
           NEW frame \in processframenumber .. processframenumber + numthreadbufframes - 1,
           InOrderTo(before, frame - 1)
    PROVE  InOrderTo(OneMore(before, frame), frame)
<1>0. TypeOK /\ frame \in Nat /\ before \in Frames /\ frame - 1 \in Int /\ (frame - 1) + 1 = frame
  BY Sizes DEF MuxInv, RingsRight, TypeOK, InOrderTo
<1>1. CASE \E t \in Having(frame) :
             OneMore(before, frame)
               = Append(before, [header |-> threadbuffers[t][frame % numthreadbufframes],
                                 valid |-> Having(frame) = Threads])
  <2>1. PICK t \in Having(frame) :
             OneMore(before, frame)
               = Append(before, [header |-> threadbuffers[t][frame % numthreadbufframes],
                                 valid |-> Having(frame) = Threads])
    BY <1>1
  <2> DEFINE new == [header |-> threadbuffers[t][frame % numthreadbufframes],
                     valid |-> Having(frame) = Threads]
  <2>2. threadbuffers[t][frame % numthreadbufframes] \in Header
    BY <1>0, HavingIs
  <2>3. new \in [header : Header, valid : BOOLEAN]
        /\ new.header = threadbuffers[t][frame % numthreadbufframes]
    BY <2>2
  <2> HIDE DEF new
  <2>4. ref # NotFull /\ FrameOf(new.header) - FrameOf(ref) = (frame - 1) + 1
    BY <1>0, <2>3, HavingIsOfTime
  <2>5. ref \in Header
    BY <1>0, <2>4 DEF TypeOK
  <2>6. InOrderTo(Append(before, new), (frame - 1) + 1)
    BY <1>0, <2>3, <2>4, <2>5, AppendInOrder
  <2> QED BY <1>0, <2>1, <2>6 DEF new
<1>2. CASE /\ before # <<>>
           /\ OneMore(before, frame)
                = Append(before, [header |-> NextHeader(before[Len(before)].header),
                                  valid |-> FALSE])
  <2> DEFINE old == before[Len(before)].header
             new == [header |-> NextHeader(old), valid |-> FALSE]
  <2>1. old \in Header
    BY <1>0, <1>2, LastHeader
  <2>2. ref # NotFull /\ FrameOf(old) - FrameOf(ref) = frame - 1
    BY <1>2 DEF InOrderTo
  <2> HIDE DEF old
  <2>3. ref \in Header
    BY <1>0, <2>2 DEF TypeOK
  <2>4. NextHeader(old) \in Header /\ FrameOf(NextHeader(old)) = FrameOf(old) + 1
    BY <2>1, NextHeaderIs
  <2>5. FrameOf(old) \in Nat /\ FrameOf(ref) \in Nat
    BY <2>1, <2>3, HeaderHasTime
  <2>6. new \in [header : Header, valid : BOOLEAN] /\ new.header = NextHeader(old)
    BY <2>4
  <2> HIDE DEF new
  <2>7. FrameOf(new.header) - FrameOf(ref) = (frame - 1) + 1
    BY <1>0, <2>2, <2>4, <2>5, <2>6
  <2>8. InOrderTo(Append(before, new), (frame - 1) + 1)
    BY <1>0, <2>3, <2>6, <2>7, AppendInOrder
  <2> QED BY <1>0, <1>2, <2>8 DEF new, old
<1>3. CASE before = <<>> /\ OneMore(before, frame) = <<>>
  BY <1>3 DEF InOrderTo, Frames
<1> QED BY <1>1, <1>2, <1>3, OneMoreIs
\* The recursion of multiplex: the first frames of a call, one more at a time.
LEMMA MultiplexedIs ==
    ASSUME TypeOK
    PROVE  /\ Multiplexed[0] = <<>>
           /\ \A n \in 0 .. outputframes - 1 :
                 Multiplexed[n + 1] = OneMore(Multiplexed[n], processframenumber + n)
<1> DEFINE V == Frames
           F == [n \in Nat |-> [s \in V |-> OneMore(s, processframenumber + n)]]
           Def(g) == [n \in 0 .. outputframes |->
                        IF n = 0 THEN <<>> ELSE OneMore(g[n - 1], processframenumber + n - 1)]
<1>0. processframenumber \in Nat /\ outputframes \in Nat
  BY Sizes DEF TypeOK
<1>1. StepsIn(F, V) /\ <<>> \in V
  <2>1. \A n \in Nat, s \in V : OneMore(s, processframenumber + n) \in V
    BY <1>0, OneMoreType
  <2>2. <<>> \in V
    BY DEF Frames
  <2> QED BY <2>1, <2>2 DEF StepsIn
<1>2. PICK f : f \in [Nat -> V] /\ f[0] = <<>>
               /\ \A n \in Nat : f[n + 1] = OneMore(f[n], processframenumber + n)
  <2> DEFINE z == <<>>
  <2>0. z \in V
    BY <1>1
  <2>1. PICK f : FollowsSteps(f, V, z, F)
    <3> HIDE DEF V, F, z
    <3> QED BY <1>1, <2>0, Recursion, Zenon
  <2>2. f \in [Nat -> V] /\ f[0] = z /\ \A n \in Nat : f[n + 1] = F[n][f[n]]
    BY <2>1 DEF FollowsSteps
  <2> QED BY <2>2
<1> DEFINE g0 == [n \in 0 .. outputframes |-> f[n]]
<1>3. g0 = Def(g0)
  <2>1. ASSUME NEW n \in 0 .. outputframes
        PROVE  g0[n] = IF n = 0 THEN <<>> ELSE OneMore(g0[n - 1], processframenumber + n - 1)
    <3>1. CASE n = 0
      BY <1>2, <3>1
    <3>2. CASE n # 0
      <4>1. /\ n - 1 \in Nat /\ n - 1 \in 0 .. outputframes /\ (n - 1) + 1 = n
            /\ processframenumber + (n - 1) = processframenumber + n - 1
        BY <1>0, <3>2
      <4>2. f[(n - 1) + 1] = OneMore(f[n - 1], processframenumber + (n - 1))
        BY <1>2, <4>1
      <4> QED BY <3>2, <4>1, <4>2
    <3> QED BY <3>1, <3>2
  <2> QED BY <2>1
<1>4. Multiplexed = CHOOSE g : g = Def(g)
  BY DEF Multiplexed
<1> HIDE DEF g0
<1>5. Multiplexed = Def(Multiplexed)
  <2> HIDE DEF Def
  <2> QED BY <1>3, <1>4
<1>6. \A n \in 0 .. outputframes :
         Multiplexed[n] = IF n = 0 THEN <<>>
                          ELSE OneMore(Multiplexed[n - 1], processframenumber + n - 1)
  BY <1>5
<1>7. ASSUME NEW n \in 0 .. outputframes - 1
      PROVE  Multiplexed[n + 1] = OneMore(Multiplexed[n], processframenumber + n)
  <2>1. /\ n + 1 \in 0 .. outputframes /\ n + 1 # 0 /\ (n + 1) - 1 = n
        /\ processframenumber + (n + 1) - 1 = processframenumber + n
    BY <1>0
  <2> QED BY <1>6, <2>1
<1> QED BY <1>0, <1>6, <1>7

\* What multiplex returns is in order up to the last frame of the call.
LEMMA MultiplexedInOrder ==
    ASSUME MuxInv
    PROVE  InOrderTo(Multiplexed[outputframes], processframenumber + outputframes - 1)
<1> DEFINE S == {n \in Nat : n <= outputframes =>
                    InOrderTo(Multiplexed[n], processframenumber + n - 1)}
<1>0. /\ TypeOK /\ processframenumber \in Nat /\ outputframes \in Nat
      /\ numthreadbufframes = 4 * outputframes
  BY Sizes DEF MuxInv, RingsRight, TypeOK
<1>1. 0 \in S
  <2>1. Multiplexed[0] = <<>>
    BY <1>0, MultiplexedIs
  <2>2. InOrderTo(Multiplexed[0], processframenumber + 0 - 1)
    BY <2>1 DEF InOrderTo, Frames
  <2> QED BY <2>2
<1>2. ASSUME NEW n \in Nat, n \in S PROVE n + 1 \in S
  <2> SUFFICES ASSUME n + 1 <= outputframes
               PROVE  InOrderTo(Multiplexed[n + 1], processframenumber + (n + 1) - 1)
    OBVIOUS
  <2> DEFINE frame == processframenumber + n
  <2>1. /\ n \in 0 .. outputframes - 1 /\ n <= outputframes
        /\ frame \in processframenumber .. processframenumber + numthreadbufframes - 1
        /\ processframenumber + (n + 1) - 1 = frame
    BY <1>0
  <2>2. InOrderTo(Multiplexed[n], frame - 1)
    <3>1. InOrderTo(Multiplexed[n], processframenumber + n - 1)
      BY <1>2, <2>1
    <3>2. frame - 1 = processframenumber + n - 1
      BY <1>0
    <3> HIDE DEF frame
    <3> QED BY <3>1, <3>2
  <2>3. Multiplexed[n + 1] = OneMore(Multiplexed[n], frame)
    BY <1>0, <2>1, MultiplexedIs
  <2> HIDE DEF frame
  <2>4. InOrderTo(OneMore(Multiplexed[n], frame), frame)
    BY <2>1, <2>2, OneMoreInOrder
  <2> QED BY <2>1, <2>3, <2>4
<1>3. Nat \subseteq S
  BY <1>1, <1>2, SetInduction
<1> QED BY <1>0, <1>3

-----------------------------------------------------------------------------
(* The invariant, step by step.                                                *)

\* The invariant holds at the start.
LEMMA InitMux == Init => MuxInv
<1> SUFFICES ASSUME Init PROVE MuxInv
  OBVIOUS
<1>1. TypeOK
  BY Constants, Sizes DEF Init, TypeOK
<1>2. RingsInWindow /\ ReferenceOK
  BY DEF Init, RingsInWindow, ReferenceOK
<1>3. OutputInOrder /\ FileOK
  BY DEF Init, OutputInOrder, FileOK
<1> QED BY <1>1, <1>2, <1>3 DEF MuxInv, RingsRight

\* Steps that leave the rings and the output alone.
LEMMA SameRings ==
    ASSUME MuxInv, TypeOK', FileOK', UNCHANGED <<rings, output>>
    PROVE  MuxInv'
<1>1. RingsInWindow' /\ ReferenceOK'
  BY DEF MuxInv, RingsRight, RingsInWindow, ReferenceOK, rings
<1>2. OutputInOrder'
  BY DEF MuxInv, OutputInOrder, rings
<1> QED BY <1>1, <1>2 DEF MuxInv, RingsRight

\* A slot that is lost.
LEMMA LoseSlotStep ==
    ASSUME MuxInv, NEW slot \in Coming, LoseSlot(slot)
    PROVE  MuxInv'
<1>1. TypeOK /\ FileOK
  BY DEF MuxInv, RingsRight
<1>2. /\ firstslot' \in 0 .. MaxSlots /\ passed' \subseteq firstslot' .. MaxSlots
      /\ FileOK'
  BY <1>1, PassIs DEF LoseSlot
<1>3. TypeOK'
  BY <1>1, <1>2, Constants DEF LoseSlot, TypeOK, rings
<1> QED BY <1>2, <1>3, SameRings DEF LoseSlot

\* A read is left out, starts or ends, or meets a frame of another thread.
LEMMA OtherStep ==
    ASSUME MuxInv, SkipRead \/ StartRead \/ UnwantedFrame \/ ReadDone \/ UNCHANGED vars
    PROVE  MuxInv'
<1>1. TypeOK /\ FileOK
  BY DEF MuxInv, RingsRight
<1>2. UNCHANGED <<rings, output, firstslot, passed>>
  BY DEF SkipRead, StartRead, UnwantedFrame, ReadDone, vars, file
<1>3. FileOK'
  BY <1>1, <1>2 DEF FileOK
<1>4. TypeOK'
  <2>1. CASE SkipRead
    BY <1>1, <2>1 DEF SkipRead, AfterRead, TypeOK, file, rings
  <2>2. CASE StartRead
    BY <1>1, <2>2, Constants DEF StartRead, TypeOK, rings
  <2>3. CASE UnwantedFrame
    BY <1>1, <2>3, Constants DEF UnwantedFrame, TypeOK, rings
  <2>4. CASE ReadDone
    BY <1>1, <2>4 DEF ReadDone, AfterRead, TypeOK, file, rings
  <2>5. CASE UNCHANGED vars
    BY <1>1, <2>5 DEF vars, TypeOK, file, rings
  <2> QED BY <2>1, <2>2, <2>3, <2>4, <2>5
<1> QED BY <1>2, <1>3, <1>4, SameRings

\* deinterlace: a frame is put at the place of its time, in the round that is
\* taken next.
LEMMA DeinterlaceStep ==
    ASSUME MuxInv, NEW slot \in Coming, Deinterlace(slot)
    PROVE  MuxInv'
<1> DEFINE t == ThreadOf(slot)
           header == HeaderOf(FrameOfSlot(slot))
           current == FrameOf(header) - FrameOf(Reference(header))
           frameoffset == current - processframenumber
           place == current % numthreadbufframes
<1>1. TypeOK /\ FileOK /\ RingsInWindow /\ OutputInOrder /\ ReferenceOK
  BY DEF MuxInv, RingsRight
<1>2. /\ firstslot' \in 0 .. MaxSlots /\ passed' \subseteq firstslot' .. MaxSlots
      /\ FileOK'
  BY <1>1, PassIs DEF Deinterlace
<1>3. FrameOfSlot(slot) \in Nat /\ t \in Threads
  BY <1>1, ComingIs, SlotIs
<1>4. header \in Header
  BY <1>3, HeaderIs
<1>5. ref' = Reference(header) /\ ref' \in Header /\ (ref # NotFull => ref' = ref)
  BY <1>1, <1>4 DEF Deinterlace, Reference, TypeOK
<1>6. current \in Int /\ frameoffset = current - processframenumber /\ processframenumber \in Nat
      /\ processframenumber' = processframenumber /\ output' = output
      /\ current = FrameOf(header) - FrameOf(ref')
  BY <1>1, <1>4, <1>5, HeaderHasTime DEF Deinterlace, TypeOK
<1>7. \/ UNCHANGED <<threadbuffers, threadbufferfree>>
      \/ /\ current >= 0 /\ frameoffset \in 0 .. numthreadbufframes - 1
         /\ threadbuffers' = [threadbuffers EXCEPT ![t][place] = header]
         /\ threadbufferfree' = [threadbufferfree EXCEPT ![t] = numthreadbufframes - frameoffset]
  BY DEF Deinterlace
<1>8. pc' \in {pc, "abort"} /\ count' = count + 1 /\ count < readframes
      /\ UNCHANGED <<reads, lost, unwanted>>
  BY DEF Deinterlace
<1>9. ref' # NotFull
  BY <1>5, HeaderHasTime
<1> HIDE DEF t, header, current, frameoffset, place
<1>10. OutputInOrder' /\ ReferenceOK'
  <2>1. OutputInOrder'
    <3>1. CASE ref = NotFull
      <4>1. output' = <<>>
        BY <1>1, <1>6, <3>1 DEF ReferenceOK
      <4> QED BY <4>1 DEF OutputInOrder
    <3>2. CASE ref # NotFull
      BY <1>1, <1>5, <1>6, <3>2 DEF OutputInOrder
    <3> QED BY <3>1, <3>2
  <2> QED BY <1>9, <2>1 DEF ReferenceOK
<1>11. CASE UNCHANGED <<threadbuffers, threadbufferfree>>
  <2>1. TypeOK'
    BY <1>1, <1>2, <1>5, <1>6, <1>8, <1>11, Constants DEF TypeOK
  <2>2. RingsInWindow'
    <3>1. CASE ref = NotFull
      BY <1>1, <1>11, <3>1 DEF ReferenceOK, RingsInWindow
    <3>2. CASE ref # NotFull
      BY <1>1, <1>5, <1>6, <1>11, <3>2 DEF RingsInWindow
    <3> QED BY <3>1, <3>2
  <2> QED BY <1>2, <1>10, <2>1, <2>2 DEF MuxInv, RingsRight
<1>12. CASE /\ current >= 0 /\ frameoffset \in 0 .. numthreadbufframes - 1
            /\ threadbuffers' = [threadbuffers EXCEPT ![t][place] = header]
            /\ threadbufferfree' = [threadbufferfree EXCEPT ![t] = numthreadbufframes - frameoffset]
  <2>0. place \in Places /\ current % numthreadbufframes = place
    BY <1>6, <1>12, Sizes, Division DEF Places, place
  <2>1. TypeOK'
    <3>1. threadbuffers' \in [Threads -> [Places -> Header \cup {NotFull}]]
      BY <1>1, <1>3, <1>4, <1>12, <2>0 DEF TypeOK
    <3>2. numthreadbufframes - frameoffset \in Nat
      BY <1>12, Sizes
    <3>3. threadbufferfree' \in [Threads -> Nat]
      BY <1>1, <1>12, <3>2 DEF TypeOK
    <3> QED BY <1>1, <1>2, <1>5, <1>6, <1>8, <3>1, <3>3, Constants DEF TypeOK
  <2>2. RingsInWindow'
    <3> SUFFICES ASSUME NEW u \in Threads, NEW p \in Places, threadbuffers'[u][p] # NotFull
                 PROVE  LET now == FrameOf(threadbuffers'[u][p]) - FrameOf(ref')
                        IN  /\ now % numthreadbufframes = p
                            /\ now \in processframenumber' ..
                                         processframenumber' + numthreadbufframes - 1
      BY DEF RingsInWindow
    <3>1. CASE u = t /\ p = place
      <4>1. threadbuffers'[u][p] = header
        BY <1>1, <1>3, <1>12, <3>1 DEF TypeOK
      <4>2. current \in processframenumber .. processframenumber + numthreadbufframes - 1
        BY <1>6, <1>12, Sizes
      <4> QED BY <1>6, <2>0, <3>1, <4>1, <4>2
    <3>2. CASE ~(u = t /\ p = place)
      <4>1. threadbuffers'[u][p] = threadbuffers[u][p]
        BY <1>1, <1>3, <1>12, <3>2 DEF TypeOK
      <4>2. ref' = ref
        BY <1>1, <1>5, <4>1 DEF ReferenceOK
      <4> QED BY <1>1, <1>6, <4>1, <4>2 DEF RingsInWindow
    <3> QED BY <3>1, <3>2
  <2> QED BY <1>2, <1>10, <2>1, <2>2 DEF MuxInv, RingsRight
<1> QED BY <1>7, <1>11, <1>12

\* multiplex: the places that are taken are those of the frames before the next
\* round.
LEMMA MultiplexStep ==
    ASSUME MuxInv, multiplex
    PROVE  MuxInv'
<1>1. TypeOK /\ FileOK /\ RingsInWindow /\ ReferenceOK
  BY DEF MuxInv, RingsRight
<1> DEFINE next == processframenumber + outputframes
<1>2. /\ processframenumber \in Nat /\ outputframes \in Nat \ {0}
      /\ numthreadbufframes \in Nat \ {0} /\ outputframes <= numthreadbufframes
      /\ processframenumber' = next /\ next \in Nat
      /\ ref' = ref /\ UNCHANGED <<firstslot, passed>>
  BY <1>1, Sizes DEF TypeOK, multiplex, file
<1>3. InOrderTo(Multiplexed[outputframes], processframenumber + outputframes - 1)
  BY MultiplexedInOrder
<1>4. InOrderTo(output', next - 1)
  <2>1. output' = Multiplexed[outputframes]
    BY DEF multiplex
  <2>2. next - 1 = processframenumber + outputframes - 1
    BY <1>2
  <2> QED BY <1>3, <2>1, <2>2 DEF InOrderTo
<1> HIDE DEF next
<1>5. OutputInOrder'
  BY <1>2, <1>4 DEF OutputInOrder, InOrderTo
<1>6. \A t \in Threads, p \in Places :
         threadbuffers'[t][p] = IF p \in Taken THEN NotFull ELSE threadbuffers[t][p]
  BY DEF multiplex
<1>7. TypeOK'
  <2>1. threadbuffers' \in [Threads -> [Places -> Header \cup {NotFull}]]
    BY <1>1 DEF TypeOK, multiplex
  <2>2. threadbufferfree' \in [Threads -> Nat]
    BY <1>1, <1>2 DEF TypeOK, multiplex
  <2>3. output' \in Seq([header : Header, valid : BOOLEAN])
    BY <1>4 DEF InOrderTo, Frames
  <2> QED BY <1>1, <1>2, <2>1, <2>2, <2>3 DEF TypeOK, multiplex, file
<1>8. FileOK'
  BY <1>1, <1>2 DEF FileOK
<1>9. ReferenceOK'
  <2> SUFFICES ASSUME ref = NotFull
               PROVE  output' = <<>> /\ \A t \in Threads, p \in Places : threadbuffers'[t][p] = NotFull
    BY <1>2 DEF ReferenceOK
  <2>1. output' = <<>>
    BY <1>4 DEF InOrderTo
  <2> QED BY <1>1, <1>6, <2>1 DEF ReferenceOK
<1>10. RingsInWindow'
  <2> SUFFICES ASSUME NEW t \in Threads, NEW p \in Places, threadbuffers'[t][p] # NotFull
               PROVE  LET now == FrameOf(threadbuffers'[t][p]) - FrameOf(ref')
                      IN  /\ now % numthreadbufframes = p
                          /\ now \in processframenumber' ..
                                       processframenumber' + numthreadbufframes - 1
    BY DEF RingsInWindow
  <2> DEFINE now == FrameOf(threadbuffers[t][p]) - FrameOf(ref)
  <2>1. threadbuffers'[t][p] = threadbuffers[t][p] /\ p \notin Taken
    BY <1>6
  <2>2. /\ now % numthreadbufframes = p
        /\ now \in processframenumber .. processframenumber + numthreadbufframes - 1
    BY <1>1, <2>1 DEF RingsInWindow
  <2> HIDE DEF now
  <2>3. now \notin processframenumber .. processframenumber + outputframes - 1
    BY <2>1, <2>2 DEF Taken
  <2>4. now \in next .. next + numthreadbufframes - 1
    BY <1>2, <2>2, <2>3 DEF next
  <2> QED BY <1>2, <2>1, <2>2, <2>4 DEF now
<1> QED BY <1>5, <1>7, <1>8, <1>9, <1>10 DEF MuxInv, RingsRight

\* Every step of the read thread keeps the invariant.
LEMMA MuxStep ==
    ASSUME MuxInv, [Next]_vars
    PROVE  MuxInv'
<1>1. ASSUME NEW slot \in Coming, LoseSlot(slot) PROVE MuxInv'
  BY <1>1, LoseSlotStep
<1>2. ASSUME NEW slot \in Coming, Deinterlace(slot) PROVE MuxInv'
  BY <1>2, DeinterlaceStep
<1>3. CASE multiplex
  BY <1>3, MultiplexStep
<1>4. CASE SkipRead \/ StartRead \/ UnwantedFrame \/ ReadDone \/ UNCHANGED vars
  BY <1>4, OtherStep
<1> QED BY <1>1, <1>2, <1>3, <1>4 DEF Next

\* The read thread of the muxer keeps the inductive invariant: frames in the rings and
\* frames returned agree with processframenumber and the reference frame.
THEOREM MuxInvariant == Spec => []MuxInv
<1>1. Init => MuxInv
  BY InitMux
<1>2. MuxInv /\ [Next]_vars => MuxInv'
  BY MuxStep
<1> QED BY <1>1, <1>2, PTL DEF Spec

\* deinterlace and multiplex keep every frame at the place of its time, in the
\* round of the ring that is taken next.
THEOREM RingsAreRight == Spec => []RingsRight
<1>1. MuxInv => RingsRight
  BY DEF MuxInv
<1> QED BY <1>1, MuxInvariant, PTL

\* The frames that a call of multiplex returns follow each other in time.
THEOREM OutputIsInOrder == Spec => []OutputInOrder
<1>1. MuxInv => OutputInOrder
  BY DEF MuxInv
<1> QED BY <1>1, MuxInvariant, PTL
==============================================================================
