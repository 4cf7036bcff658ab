---------------------------- MODULE CoreRingProofs ----------------------------
(* Proofs about the Core's ring, for any number of process threads and any     *)
(* number of subintegrations: the types, the mutexes of the ring, which are    *)
(* held where the code says so, and that the main thread and the process       *)
(* threads never work in the same slot; that a Core returns the whole result   *)
(* of every subintegration, in the order of dispatch, and that CoreRing        *)
(* implements CoreSpec.                                                        *)
EXTENDS CoreRing, TLAPS

\* A slot index is one of the ring's slots.
LEMMA SlotOfType == ASSUME NEW k \in Nat PROVE SlotOf(k) \in Slots
BY DEF SlotOf, Slots, RECEIVE_RING_LENGTH

TypeInv == TypeOK /\ PhaseOK

-------------------------------------------------------------------------------
(* Steps that several actions share.                                          *)

\* Taking or releasing a mutex leaves the ownership table well formed.
LEMMA OwnerType ==
    ASSUME TypeOK, NEW s \in Slots, NEW t \in Threads,
           NEW who \in {"free", "main", "thread"},
           owner' = [owner EXCEPT ![s][t] = who]
    PROVE  owner' \in [Slots -> [Threads -> {"free", "main", "thread"}]]
BY DEF TypeOK

\* A round of a loop over the threads keeps its variable a thread.
LEMMA LoopType ==
    ASSUME TypeOK, NEW to \in MainSteps, Loop(to)
    PROVE  mi' \in Threads /\ pc' \in MainSteps
BY NumThreadsAssumption DEF TypeOK, Loop, Threads

\* There is at least one process thread.
LEMMA ZeroThread == 0 \in Threads
BY NumThreadsAssumption DEF Threads

\* A step of a thread that runs leaves the main thread's phase alone.
LEMMA PhaseStep ==
    ASSUME TypeInv, NEW t \in Threads, NEW from, NEW to, Step(t, from, to),
           from # "none", to # "none",
           UNCHANGED <<pc, mi, di, numreceived, terminate>>
    PROVE  PhaseOK'
<1>1. \A u \in Threads : tpc'[u] = "none" <=> tpc[u] = "none"
  BY DEF Step, TypeInv, TypeOK
<1>2. Launched' <=> Launched
  BY <1>1, ZeroThread DEF Launched
<1> QED BY <1>1, <1>2 DEF TypeInv, PhaseOK, ShortJob, Countdown

-------------------------------------------------------------------------------
(* Type correctness.  The types are inductive together with PhaseOK, which    *)
(* bounds the counters of the main thread's loops.                            *)

\* The constructor leaves every variable well formed.
LEMMA TypeInit == Init => TypeInv
<1> SUFFICES ASSUME Init PROVE TypeInv
  OBVIOUS
<1> USE NumThreadsAssumption, MaxSubintsAssumption DEF Init
<1>1. TypeOK
  <2>1. /\ pc \in MainSteps /\ mi \in Threads /\ di \in 1 .. RECEIVE_RING_LENGTH
        /\ numreceived \in 0 .. MaxSubints
    BY DEF MainSteps, Threads, RECEIVE_RING_LENGTH
  <2>2. owner \in [Slots -> [Threads -> {"free", "main", "thread"}]] /\ terminate \in BOOLEAN
    OBVIOUS
  <2>3. /\ offsets \in [Slots -> Nat] /\ configindex \in [Slots -> Configs]
        /\ keepprocessing \in [Slots -> BOOLEAN]
        /\ results \in [Slots -> SUBSET Entries]
    BY ConfigAssumption
  <2>4. /\ tpc \in [Threads -> ThreadSteps] /\ numprocessed \in [Threads -> Nat]
        /\ lastconfigindex \in [Threads -> Configs]
        /\ initialised \in [Threads -> BOOLEAN]
        /\ freedconfig \in [Threads -> Configs \cup {None}]
    BY ConfigAssumption DEF ThreadSteps
  <2>5. sent \in Seq(SUBSET Entries)
    OBVIOUS
  <2> QED BY <2>1, <2>2, <2>3, <2>4, <2>5 DEF TypeOK
<1>2. PhaseOK
  BY DEF PhaseOK, Threads, RECEIVE_RING_LENGTH, Launched, Filling, Starting,
         Draining, ShortJob, Countdown
<1> QED BY <1>1, <1>2 DEF TypeInv

\* No step of execute() breaks a type or the phase.
LEMMA TypeMain == TypeInv /\ (Main \/ SpuriousWakeup) => TypeInv'
<1> SUFFICES ASSUME TypeInv, Main \/ SpuriousWakeup PROVE TypeInv'
  OBVIOUS
<1> USE NumThreadsAssumption, MaxSubintsAssumption, ConfigAssumption, SlotOfType
    DEF TypeInv, slotvars, threadvars
<1>1. CASE ReceiveSubint
  <2>1. TypeOK'
    <3>1. offsets' \in [Slots -> Nat]
      BY <1>1 DEF ReceiveSubint, TypeOK, Here
    <3>2. configindex' \in [Slots -> Configs]
      BY <1>1 DEF ReceiveSubint, TypeOK, Here
    <3> QED BY <1>1, <3>1, <3>2, ZeroThread DEF ReceiveSubint, TypeOK, Goto, MainSteps
  <2>2. PhaseOK'
    BY <1>1 DEF ReceiveSubint, Goto, Loop, TypeOK, PhaseOK, Threads, Filling, Starting, Draining,
                Launched, ShortJob, Countdown, RECEIVE_RING_LENGTH
  <2> QED BY <2>1, <2>2
<1>2. CASE LockNext
  <2>1. owner' \in [Slots -> [Threads -> {"free", "main", "thread"}]]
    BY <1>2, OwnerType DEF LockNext, TypeOK, Take, Ahead
  <2>2. mi' \in Threads /\ pc' \in MainSteps
    BY <1>2, LoopType DEF LockNext, MainSteps
  <2>3. TypeOK'
    BY <1>2, <2>1, <2>2 DEF LockNext, TypeOK, Loop
  <2>4. PhaseOK'
    BY <1>2 DEF LockNext, Goto, Loop, TypeOK, PhaseOK, Threads, Filling, Starting, Draining,
                Launched, ShortJob, Countdown, RECEIVE_RING_LENGTH
  <2> QED BY <2>3, <2>4
<1>3. CASE UnlockPrev
  <2>1. owner' \in [Slots -> [Threads -> {"free", "main", "thread"}]]
    BY <1>3, OwnerType DEF UnlockPrev, TypeOK, Release, Here
  <2>2. TypeOK'
    <3>1. CASE mi = NumThreads - 1
      <4>1. numreceived' = numreceived + 1 /\ numreceived < MaxSubints
        BY <1>3, <3>1 DEF UnlockPrev, PhaseOK
      <4>2. numreceived' \in 0 .. MaxSubints
        BY <4>1 DEF TypeOK
      <4>3. mi' \in Threads /\ pc' \in MainSteps
        BY <1>3, <3>1, ZeroThread DEF UnlockPrev, MainSteps
      <4> QED BY <1>3, <2>1, <4>2, <4>3 DEF UnlockPrev, TypeOK
    <3>2. CASE mi # NumThreads - 1
      <4>1. mi' = mi + 1 /\ UNCHANGED <<numreceived, pc>>
        BY <1>3, <3>2 DEF UnlockPrev
      <4>2. mi' \in Threads
        BY <3>2, <4>1 DEF TypeOK, Threads
      <4> QED BY <1>3, <2>1, <4>1, <4>2 DEF UnlockPrev, TypeOK
    <3> QED BY <3>1, <3>2
  <2>3. PhaseOK'
    <3>1. CASE mi = NumThreads - 1
      <4>1. /\ mi' = 0 /\ numreceived' = numreceived + 1
            /\ pc' = IF Launched THEN "ssend"
                     ELSE IF numreceived' = 3 THEN "launch" ELSE "recv"
            /\ UNCHANGED <<tpc, di, terminate>>
        BY <1>3, <3>1 DEF UnlockPrev, RECEIVE_RING_LENGTH
      <4>2. /\ ~terminate /\ di = 1 /\ numreceived \in Nat
            /\ Launched <=> ~(numreceived < 3)
        BY <1>3 DEF UnlockPrev, TypeOK, PhaseOK, Filling, ShortJob, Draining, RECEIVE_RING_LENGTH
      <4>3. Launched' <=> Launched
        BY <4>1 DEF Launched
      <4> QED BY <4>1, <4>2, <4>3 DEF PhaseOK, Filling, Starting, Draining, ShortJob,
                                      Countdown, RECEIVE_RING_LENGTH
    <3>2. CASE mi # NumThreads - 1
      BY <1>3, <3>2 DEF UnlockPrev, PhaseOK, Filling, Starting, Draining, Launched,
                        ShortJob, Countdown
    <3> QED BY <3>1, <3>2
  <2> QED BY <2>2, <2>3
<1>4. CASE ReceiveTerminate
  <2>1. TypeOK'
    BY <1>4 DEF ReceiveTerminate, TypeOK, PhaseOK, Here, MainSteps
  <2>2. PhaseOK'
    <3>1. /\ pc = "recv" /\ pc' = (IF Launched THEN "unlockheld" ELSE "launch") /\ terminate' = TRUE
          /\ UNCHANGED <<mi, di, numreceived, tpc>>
      BY <1>4 DEF ReceiveTerminate, threadvars
    <3>2. Launched' <=> Launched
      BY <3>1 DEF Launched
    <3>3. /\ mi = 0 /\ di = 1 /\ (Launched <=> ~ShortJob) /\ numreceived \in Nat
          /\ \A t \in Threads : (tpc[t] = "none") <=> ~Launched
      BY <3>1 DEF PhaseOK, Filling, Draining, TypeOK
    <3>4. ShortJob' <=> ShortJob
      BY <3>1 DEF ShortJob
    <3>5. /\ ~Launched => numreceived < 3
          /\ Launched => numreceived > 0
      BY <3>3 DEF ShortJob, RECEIVE_RING_LENGTH
    <3>6. CASE Launched
      BY <3>1, <3>2, <3>3, <3>4, <3>5, <3>6
         DEF PhaseOK, Filling, Starting, Draining, RECEIVE_RING_LENGTH
    <3>7. CASE ~Launched
      BY <3>1, <3>2, <3>3, <3>4, <3>5, <3>7
         DEF PhaseOK, Filling, Starting, Draining, RECEIVE_RING_LENGTH
    <3> QED BY <3>6, <3>7
  <2> QED BY <2>1, <2>2
<1>5. CASE ReturnQuietly
  <2>1. TypeOK'
    BY <1>5 DEF ReturnQuietly, TypeOK, PhaseOK, Goto, MainSteps, Threads, Slots, RECEIVE_RING_LENGTH
  <2>2. PhaseOK'
    BY <1>5 DEF ReturnQuietly, Goto, Loop, TypeOK, PhaseOK, Threads, Filling, Starting, Draining,
                Launched, ShortJob, Countdown, RECEIVE_RING_LENGTH
  <2> QED BY <2>1, <2>2
<1>6. CASE Launch
  <2>1. TypeOK'
    BY <1>6 DEF Launch, TypeOK, PhaseOK, Goto, MainSteps, ThreadSteps, Threads, Slots, RECEIVE_RING_LENGTH
  <2>2. PhaseOK'
    BY <1>6 DEF Launch, Goto, Loop, TypeOK, PhaseOK, Threads, Filling, Starting, Draining,
                Launched, ShortJob, Countdown, RECEIVE_RING_LENGTH
  <2> QED BY <2>1, <2>2
<1>7. CASE InitCheck
  <2>1. owner' \in [Slots -> [Threads -> {"free", "main", "thread"}]]
    <3>1. CASE initialised[mi]
      BY <1>7, <3>1 DEF InitCheck, TypeOK
    <3>2. CASE ~initialised[mi]
      BY <1>7, <3>2, OwnerType DEF InitCheck, TypeOK, Release, End, Slots, RECEIVE_RING_LENGTH
    <3> QED BY <3>1, <3>2
  <2>2. mi' \in Threads /\ pc' \in MainSteps
    BY <1>7, LoopType DEF InitCheck, TypeOK, MainSteps
  <2>3. TypeOK'
    BY <1>7, <2>1, <2>2 DEF InitCheck, Loop, TypeOK
  <2>4. PhaseOK'
    BY <1>7 DEF InitCheck, Goto, Loop, TypeOK, PhaseOK, Threads, Filling, Starting, Draining,
                Launched, ShortJob, Countdown, RECEIVE_RING_LENGTH
  <2> QED BY <2>3, <2>4
<1>8. CASE InitWake
  <2>1. owner' \in [Slots -> [Threads -> {"free", "main", "thread"}]]
    BY <1>8, OwnerType DEF InitWake, TypeOK, Take, End, Slots, RECEIVE_RING_LENGTH
  <2>2. TypeOK'
    BY <1>8, <2>1 DEF InitWake, TypeOK, PhaseOK, MainSteps
  <2>3. PhaseOK'
    BY <1>8 DEF InitWake, Goto, Loop, TypeOK, PhaseOK, Threads, Filling, Starting, Draining,
                Launched, ShortJob, Countdown, RECEIVE_RING_LENGTH
  <2> QED BY <2>2, <2>3
<1>9. CASE UnlockSecond
  <2>1. owner' \in [Slots -> [Threads -> {"free", "main", "thread"}]]
    BY <1>9, OwnerType DEF UnlockSecond, TypeOK, Release, Slots, RECEIVE_RING_LENGTH
  <2>2. mi' \in Threads /\ pc' \in MainSteps
    BY <1>9, LoopType DEF UnlockSecond, MainSteps
  <2>3. TypeOK'
    BY <1>9, <2>1, <2>2 DEF UnlockSecond, TypeOK, Loop
  <2>4. PhaseOK'
    BY <1>9 DEF UnlockSecond, Goto, Loop, TypeOK, PhaseOK, Threads, Filling, Starting, Draining,
                Launched, ShortJob, Countdown, RECEIVE_RING_LENGTH
  <2> QED BY <2>3, <2>4
<1>10. CASE SendResults
  <2>1. TypeOK'
    <3>1. results[Here] \in SUBSET Entries
      BY DEF TypeOK, Here
    <3>2. sent' \in Seq(SUBSET Entries)
      <4>1. sent' = Append(sent, results[Here]) /\ sent \in Seq(SUBSET Entries)
        BY <1>10 DEF SendResults, TypeOK
      <4> QED BY <3>1, <4>1
    <3>3. results' \in [Slots -> SUBSET Entries]
      BY <1>10 DEF SendResults, TypeOK
    <3> QED BY <1>10, <3>2, <3>3 DEF SendResults, TypeOK, MainSteps
  <2>2. PhaseOK'
    BY <1>10 DEF SendResults, Goto, Loop, TypeOK, PhaseOK, Threads, Filling, Starting, Draining,
                Launched, ShortJob, Countdown, RECEIVE_RING_LENGTH
  <2> QED BY <2>1, <2>2
<1>11. CASE UnlockHeld
  <2>1. owner' \in [Slots -> [Threads -> {"free", "main", "thread"}]]
    BY <1>11, OwnerType DEF UnlockHeld, TypeOK, Release, ToUnlock, Here, Slots, RECEIVE_RING_LENGTH
  <2>2. mi' \in Threads /\ pc' \in MainSteps
    BY <1>11, LoopType DEF UnlockHeld, MainSteps
  <2>3. TypeOK'
    BY <1>11, <2>1, <2>2 DEF UnlockHeld, TypeOK, Loop
  <2>4. PhaseOK'
    <3>1. /\ pc' \in {"unlockheld", "drainlock"}
          /\ UNCHANGED <<di, numreceived, terminate, tpc>>
      BY <1>11 DEF UnlockHeld, Loop
    <3>2. Launched /\ terminate /\ numreceived > 0 /\ di = 1 /\ numreceived \in Nat
      BY <1>11 DEF UnlockHeld, TypeOK, PhaseOK, Draining
    <3>3. Countdown >= 1 /\ Countdown' = Countdown /\ (Launched' <=> Launched)
      BY <3>1, <3>2 DEF Countdown, ShortJob, Launched, RECEIVE_RING_LENGTH
    <3> QED BY <3>1, <3>2, <3>3 DEF PhaseOK, Filling, Starting, Draining
  <2> QED BY <2>3, <2>4
<1>12. CASE DrainLock
  <2>1. owner' \in [Slots -> [Threads -> {"free", "main", "thread"}]]
    BY <1>12, OwnerType DEF DrainLock, TypeOK, Take, DrainSlot, Adjust, ShortJob, RECEIVE_RING_LENGTH
  <2>2. TypeOK'
    BY <1>12, <2>1 DEF DrainLock, TypeOK, PhaseOK, MainSteps
  <2>3. PhaseOK'
    BY <1>12 DEF DrainLock, Goto, Loop, TypeOK, PhaseOK, Threads, Filling, Starting, Draining,
                Launched, ShortJob, Countdown, RECEIVE_RING_LENGTH
  <2> QED BY <2>2, <2>3
<1>13. CASE DrainUnlock
  <2>1. owner' \in [Slots -> [Threads -> {"free", "main", "thread"}]]
    BY <1>13, OwnerType DEF DrainUnlock, TypeOK, Release, DrainSlot, Adjust, ShortJob, RECEIVE_RING_LENGTH
  <2>2. TypeOK'
    <3>1. mi' \in Threads /\ pc' \in MainSteps
      <4>1. CASE mi = NumThreads - 1
        BY <1>13, <4>1, ZeroThread DEF DrainUnlock, MainSteps
      <4>2. CASE mi # NumThreads - 1
        <5>1. mi' = mi + 1 /\ pc' = "drainlock"
          BY <1>13, <4>2 DEF DrainUnlock
        <5> QED BY <4>2, <5>1 DEF TypeOK, MainSteps, Threads
      <4> QED BY <4>1, <4>2
    <3> QED BY <1>13, <2>1, <3>1 DEF DrainUnlock, TypeOK
  <2>3. PhaseOK'
    BY <1>13 DEF DrainUnlock, Goto, Loop, TypeOK, PhaseOK, Threads, Filling, Starting, Draining,
                Launched, ShortJob, Countdown, RECEIVE_RING_LENGTH
  <2> QED BY <2>2, <2>3
<1>14. CASE DrainSend
  <2>1. TypeOK'
    <3>1. DrainSlot \in Slots
      BY DEF TypeOK, DrainSlot, Adjust, ShortJob, RECEIVE_RING_LENGTH
    <3>2. sent' \in Seq(SUBSET Entries)
      BY <1>14, <3>1 DEF DrainSend, TypeOK
    <3>3. di' \in 1 .. RECEIVE_RING_LENGTH
      BY <1>14 DEF DrainSend, TypeOK, PhaseOK, Draining, Countdown, ShortJob, RECEIVE_RING_LENGTH
    <3> QED BY <1>14, <3>2, <3>3 DEF DrainSend, TypeOK, MainSteps
  <2>2. PhaseOK'
    <3>1. /\ di' = di + 1 /\ UNCHANGED <<mi, numreceived, terminate, tpc>>
          /\ pc' = IF di = Countdown THEN "join" ELSE "drainlock"
      BY <1>14 DEF DrainSend
    <3>2. /\ Launched /\ terminate /\ numreceived > 0 /\ di <= Countdown
          /\ di \in Nat /\ numreceived \in Nat
      BY <1>14 DEF DrainSend, TypeOK, PhaseOK, Draining
    <3>3. Countdown \in Nat /\ Countdown' = Countdown /\ (Launched' <=> Launched)
      BY <3>1, <3>2 DEF Countdown, ShortJob, Launched, RECEIVE_RING_LENGTH
    <3>4. /\ pc' = "join" => di' = Countdown + 1
          /\ pc' = "drainlock" => di' <= Countdown
      BY <3>1, <3>2, <3>3
    <3> QED BY <3>1, <3>2, <3>3, <3>4 DEF PhaseOK, Filling, Starting, Draining
  <2> QED BY <2>1, <2>2
<1>15. CASE Join
  <2>1. mi' \in Threads /\ pc' \in MainSteps
    BY <1>15, LoopType DEF Join, MainSteps
  <2>2. TypeOK'
    BY <1>15, <2>1 DEF Join, TypeOK, Loop
  <2>3. PhaseOK'
    BY <1>15 DEF Join, Goto, Loop, TypeOK, PhaseOK, Threads, Filling, Starting, Draining,
                Launched, ShortJob, Countdown, RECEIVE_RING_LENGTH
  <2> QED BY <2>2, <2>3
<1>16. CASE SpuriousWakeup
  <2>1. TypeOK'
    BY <1>16 DEF SpuriousWakeup, TypeOK, PhaseOK, MainSteps
  <2>2. PhaseOK'
    BY <1>16 DEF SpuriousWakeup, Goto, Loop, TypeOK, PhaseOK, Threads, Filling, Starting, Draining,
                Launched, ShortJob, Countdown, RECEIVE_RING_LENGTH
  <2> QED BY <2>1, <2>2
<1> QED BY <1>1, <1>2, <1>3, <1>4, <1>5, <1>6, <1>7, <1>8, <1>9, <1>10, <1>11, <1>12, <1>13, <1>14, <1>15, <1>16 DEF Main

\* No step of loopprocess() breaks a type or the phase.
LEMMA TypeThread == ASSUME NEW t \in Threads, TypeInv, Thread(t) PROVE TypeInv'
<1> USE NumThreadsAssumption, MaxSubintsAssumption, ConfigAssumption, SlotOfType
    DEF TypeInv, mainvars, slotvars, threadvars
<1>1. CASE LockEnd(t)
  <2>1. owner' \in [Slots -> [Threads -> {"free", "main", "thread"}]]
    BY <1>1, OwnerType DEF LockEnd, TypeOK, Take, End, Slots, RECEIVE_RING_LENGTH
  <2>2. TypeOK'
    BY <1>1, <2>1 DEF LockEnd, Step, TypeOK, ThreadSteps
  <2>3. PhaseOK'
    BY <1>1, PhaseStep DEF LockEnd
  <2> QED BY <2>2, <2>3
<1>2. CASE LockFirst(t)
  <2>1. owner' \in [Slots -> [Threads -> {"free", "main", "thread"}]]
    BY <1>2, OwnerType DEF LockFirst, TypeOK, Take, Slots, RECEIVE_RING_LENGTH
  <2>2. TypeOK'
    BY <1>2, <2>1 DEF LockFirst, Step, TypeOK, ThreadSteps
  <2>3. PhaseOK'
    BY <1>2, PhaseStep DEF LockFirst
  <2> QED BY <2>2, <2>3
<1>3. CASE UnlockEnd(t)
  <2>1. owner' \in [Slots -> [Threads -> {"free", "main", "thread"}]]
    BY <1>3, OwnerType DEF UnlockEnd, TypeOK, Release, End, Slots, RECEIVE_RING_LENGTH
  <2>2. TypeOK'
    BY <1>3, <2>1 DEF UnlockEnd, Step, TypeOK, ThreadSteps
  <2>3. PhaseOK'
    BY <1>3, PhaseStep DEF UnlockEnd
  <2> QED BY <2>2, <2>3
<1>4. CASE SetInitialised(t)
  <2>1. TypeOK'
    BY <1>4 DEF SetInitialised, Step, TypeOK, ThreadSteps
  <2>2. PhaseOK'
    BY <1>4, PhaseStep DEF SetInitialised
  <2> QED BY <2>1, <2>2
<1>5. CASE Signal(t)
  <2>1. TypeOK'
    BY <1>5 DEF Signal, Step, TypeOK, MainSteps, ThreadSteps
  <2>2. PhaseOK'
    <3>1. \A u \in Threads : tpc'[u] = "none" <=> tpc[u] = "none"
      BY <1>5 DEF Signal, Step, TypeOK
    <3>2. Launched' <=> Launched
      BY <3>1, ZeroThread DEF Launched
    <3> QED BY <1>5, <3>1, <3>2 DEF Signal, PhaseOK, Starting, Filling, Draining,
                                     ShortJob, Countdown
  <2> QED BY <2>1, <2>2
<1>6. CASE Check(t)
  <2>1. TypeOK'
    BY <1>6 DEF Check, Step, TypeOK, ThreadSteps
  <2>2. PhaseOK'
    BY <1>6, PhaseStep DEF Check
  <2> QED BY <2>1, <2>2
<1>7. CASE ProcessData(t)
  <2>1. TypeOK'
    <3>1. /\ At(t) \in Slots
          /\ <<numprocessed[t], t, offsets[At(t)], lastconfigindex[t]>> \in Entries
      BY DEF TypeOK, At, Entries
    <3>2. results' \in [Slots -> SUBSET Entries]
      BY <1>7, <3>1 DEF ProcessData, TypeOK
    <3>3. tpc' \in [Threads -> ThreadSteps]
      BY <1>7 DEF ProcessData, Step, TypeOK, ThreadSteps
    <3> QED BY <1>7, <3>2, <3>3 DEF ProcessData, TypeOK
  <2>2. PhaseOK'
    BY <1>7, PhaseStep DEF ProcessData
  <2> QED BY <2>1, <2>2
<1>8. CASE LockNextSlot(t)
  <2>1. owner' \in [Slots -> [Threads -> {"free", "main", "thread"}]]
    BY <1>8, OwnerType DEF LockNextSlot, TypeOK, Take, After
  <2>2. TypeOK'
    BY <1>8, <2>1 DEF LockNextSlot, Step, TypeOK, ThreadSteps
  <2>3. PhaseOK'
    BY <1>8, PhaseStep DEF LockNextSlot
  <2> QED BY <2>2, <2>3
<1>9. CASE UnlockSlot(t)
  <2>1. owner' \in [Slots -> [Threads -> {"free", "main", "thread"}]]
    BY <1>9, OwnerType DEF UnlockSlot, TypeOK, Release, At
  <2>2. TypeOK'
    <3>1. numprocessed' \in [Threads -> Nat]
      <4>1. numprocessed \in [Threads -> Nat]
        BY DEF TypeOK
      <4>2. numprocessed' = [numprocessed EXCEPT ![t] = @ + 1]
        BY <1>9 DEF UnlockSlot
      <4> QED BY <4>1, <4>2
    <3> QED BY <1>9, <2>1, <3>1 DEF UnlockSlot, Step, TypeOK, ThreadSteps
  <2>3. PhaseOK'
    BY <1>9, PhaseStep DEF UnlockSlot
  <2> QED BY <2>2, <2>3
<1>10. CASE ChangeConfig(t)
  <2>1. TypeOK'
    BY <1>10 DEF ChangeConfig, Step, TypeOK, At, ThreadSteps
  <2>2. PhaseOK'
    BY <1>10, PhaseStep DEF ChangeConfig
  <2> QED BY <2>1, <2>2
<1>11. CASE ExitUnlock(t)
  <2>1. owner' \in [Slots -> [Threads -> {"free", "main", "thread"}]]
    BY <1>11, OwnerType DEF ExitUnlock, TypeOK, Release, At
  <2>2. TypeOK'
    BY <1>11, <2>1 DEF ExitUnlock, Step, TypeOK, ThreadSteps
  <2>3. PhaseOK'
    BY <1>11, PhaseStep DEF ExitUnlock
  <2> QED BY <2>2, <2>3
<1>12. CASE FreeSpace(t)
  <2>1. TypeOK'
    <3>1. configindex[After(t)] \in Configs
      BY DEF TypeOK, After
    <3>2. freedconfig' \in [Threads -> Configs \cup {None}]
      BY <1>12, <3>1 DEF FreeSpace, TypeOK
    <3> QED BY <1>12, <3>2 DEF FreeSpace, Step, TypeOK, ThreadSteps
  <2>2. PhaseOK'
    BY <1>12, PhaseStep DEF FreeSpace
  <2> QED BY <2>1, <2>2
<1> QED BY <1>1, <1>2, <1>3, <1>4, <1>5, <1>6, <1>7, <1>8, <1>9, <1>10, <1>11, <1>12 DEF Thread

\* The variables of the Core keep the types of core.h in every behaviour.
THEOREM TypeCorrect == Spec => []TypeOK
<1>1. Init => TypeInv
  BY TypeInit
<1>2. TypeInv /\ [Next]_vars => TypeInv'
  <2> SUFFICES ASSUME TypeInv, [Next]_vars PROVE TypeInv'
    OBVIOUS
  <2>1. CASE Main \/ SpuriousWakeup
    BY <2>1, TypeMain
  <2>2. CASE \E t \in Threads : Thread(t)
    BY <2>2, TypeThread
  <2>3. CASE UNCHANGED vars
    BY <2>3 DEF TypeInv, TypeOK, PhaseOK, vars, mainvars, slotvars, threadvars,
                Launched, ShortJob, Countdown
  <2> QED BY <2>1, <2>2, <2>3 DEF Next, Finished
<1>3. TypeInv => TypeOK
  BY DEF TypeInv
<1> QED BY <1>1, <1>2, <1>3, PTL DEF Spec

-------------------------------------------------------------------------------
(* The mutexes.                                                                *)

Inv == TypeInv /\ RingInv

-------------------------------------------------------------------------------
(* The ring of slots.                                                          *)

\* Subintegrations less than a ring apart are in different slots.
LEMMA SlotSame ==
    ASSUME NEW a \in Nat, NEW b \in Nat, SlotOf(a) = SlotOf(b), a < b + 4, b < a + 4
    PROVE  a = b
BY DEF SlotOf, RECEIVE_RING_LENGTH

\* A ring later, the slot is the same.
LEMMA SlotLap == ASSUME NEW a \in Nat PROVE SlotOf(a + 4) = SlotOf(a)
BY DEF SlotOf, RECEIVE_RING_LENGTH

\* The slot after a slot is another one.
LEMMA SlotNext == ASSUME NEW a \in Nat PROVE SlotOf(a + 1) # SlotOf(a)
BY DEF SlotOf, RECEIVE_RING_LENGTH

\* The first subintegrations, and the slots, by number.
LEMMA SlotSmall == /\ SlotOf(0) = 0 /\ SlotOf(1) = 1 /\ SlotOf(2) = 2 /\ SlotOf(3) = 3
                   /\ Slots = 0 .. 3 /\ End = 3
BY DEF SlotOf, Slots, End, RECEIVE_RING_LENGTH

-------------------------------------------------------------------------------
(* Steps that change one mutex, or none.                                       *)

\* Locking or unlocking one mutex keeps LockOK if it changes who should hold that
\* mutex and no other.
LEMMA LockChange ==
    ASSUME TypeOK, LockOK,
           NEW s \in Slots, NEW t \in Threads, NEW who \in {"free", "main", "thread"},
           owner' = [owner EXCEPT ![s][t] = who],
           MainHolds(s, t)' <=> who = "main",
           ThreadHolds(s, t)' <=> who = "thread",
           \A r \in Slots, u \in Threads : r # s \/ u # t =>
                /\ MainHolds(r, u)' <=> MainHolds(r, u)
                /\ ThreadHolds(r, u)' <=> ThreadHolds(r, u)
    PROVE  LockOK'
<1> SUFFICES ASSUME NEW r \in Slots, NEW u \in Threads
             PROVE  /\ owner'[r][u] = "main" <=> MainHolds(r, u)'
                    /\ owner'[r][u] = "thread" <=> ThreadHolds(r, u)'
  BY DEF LockOK
<1>1. CASE r = s /\ u = t
  <2>1. owner'[r][u] = who
    BY <1>1 DEF TypeOK
  <2> QED BY <1>1, <2>1
<1>2. CASE r # s \/ u # t
  <2>1. owner'[r][u] = owner[r][u]
    BY <1>2 DEF TypeOK
  <2> QED BY <1>2, <2>1 DEF LockOK
<1> QED BY <1>1, <1>2

\* A step that touches no mutex must not change who should hold one.
LEMMA LockSame ==
    ASSUME LockOK, UNCHANGED owner,
           \A r \in Slots, u \in Threads :
                /\ MainHolds(r, u)' <=> MainHolds(r, u)
                /\ ThreadHolds(r, u)' <=> ThreadHolds(r, u)
    PROVE  LockOK'
BY DEF LockOK

\* What a process thread holds depends on where it is only.
LEMMA ThreadKeeps ==
    ASSUME UNCHANGED <<tpc, numprocessed>>, NEW r \in Slots, NEW u \in Threads
    PROVE  ThreadHolds(r, u)' <=> ThreadHolds(r, u)
BY DEF ThreadHolds, At, After

\* What the main thread holds depends on where it is only.
LEMMA MainKeeps ==
    ASSUME UNCHANGED <<pc, mi, di, numreceived>>, NEW r \in Slots, NEW u \in Threads
    PROVE  MainHolds(r, u)' <=> MainHolds(r, u)
BY DEF MainHolds, Here, Ahead, ToUnlock, DrainSlot, Adjust, ShortJob

\* Every step of execute() takes and releases mutexes as MainHolds says.
LEMMA MainLocks == Inv /\ (Main \/ SpuriousWakeup) => LockOK'
<1> SUFFICES ASSUME Inv, Main \/ SpuriousWakeup PROVE LockOK'
  OBVIOUS
<1> USE NumThreadsAssumption, SlotOfType
    DEF Inv, RingInv, TypeInv, slotvars, threadvars
<1>0. /\ numreceived \in Nat /\ mi \in Threads /\ di \in 1 .. 4
      /\ Here \in Slots /\ Ahead \in Slots /\ Here # Ahead
      /\ Threads = 0 .. NumThreads - 1
  BY SlotNext DEF TypeOK, Here, Ahead, Threads, RECEIVE_RING_LENGTH
<1>h. PICK h \in Slots : h = Here
  BY <1>0
<1>a. PICK a \in Slots : a = Ahead
  BY <1>0
<1>m. PICK m \in Threads : m = mi
  BY <1>0
<1>t. UNCHANGED <<tpc, numprocessed>> =>
        \A r \in Slots, u \in Threads : ThreadHolds(r, u)' <=> ThreadHolds(r, u)
  BY ThreadKeeps
<1>1. CASE ReceiveSubint
  <2>1. \A r \in Slots, u \in Threads : MainHolds(r, u)' <=> MainHolds(r, u)
    BY <1>0, <1>1 DEF ReceiveSubint, Goto, MainHolds, Here, Ahead
  <2> QED BY <1>1, <2>1, <1>t, LockSame DEF ReceiveSubint
<1>2. CASE LockNext
  <2>1. ~MainHolds(a, m) /\ ~ThreadHolds(a, m)
    BY <1>a, <1>m, <1>2 DEF LockNext, Free, LockOK
  <2>2. pc = "locknext" /\ Here' = h /\ Ahead' = a
    BY <1>h, <1>a, <1>2 DEF LockNext, Loop, Here, Ahead
  <2>3. MainHolds(a, m)' /\ \A r \in Slots, u \in Threads :
            r # a \/ u # m => (MainHolds(r, u)' <=> MainHolds(r, u))
    <3>1. CASE mi = NumThreads - 1
      <4>1. pc' = "unlockprev" /\ mi' = 0
        BY <1>2, <3>1 DEF LockNext, Loop
      <4> QED BY <1>0, <1>h, <1>a, <1>m, <2>2, <3>1, <4>1 DEF MainHolds
    <3>2. CASE mi # NumThreads - 1
      <4>1. pc' = "locknext" /\ mi' = mi + 1
        BY <1>2, <3>2 DEF LockNext, Loop
      <4> QED BY <1>0, <1>h, <1>a, <1>m, <2>2, <3>2, <4>1 DEF MainHolds
    <3> QED BY <3>1, <3>2
  <2>4. owner' = [owner EXCEPT ![a][m] = "main"] /\ UNCHANGED <<tpc, numprocessed>>
    BY <1>a, <1>m, <1>2 DEF LockNext, Take
  <2> QED BY <2>1, <2>3, <2>4, <1>t, LockChange
<1>3. CASE UnlockPrev
  <2>1. ~ThreadHolds(h, m)
    BY <1>h, <1>m, <1>0, <1>3 DEF UnlockPrev, LockOK, MainHolds
  <2>2. ~MainHolds(h, m)' /\ \A r \in Slots, u \in Threads :
            r # h \/ u # m => (MainHolds(r, u)' <=> MainHolds(r, u))
    <3>1. CASE mi = NumThreads - 1
      <4>1. pc' \in {"ssend", "launch", "recv"} /\ Here' = a
        BY <1>a, <1>3, <3>1 DEF UnlockPrev, Here, Ahead
      <4> QED BY <1>0, <1>h, <1>a, <1>m, <1>3, <3>1, <4>1 DEF MainHolds, UnlockPrev
    <3>2. CASE mi # NumThreads - 1
      <4>1. pc' = pc /\ mi' = mi + 1 /\ Here' = h /\ Ahead' = a
        BY <1>h, <1>a, <1>3, <3>2 DEF UnlockPrev, Here, Ahead
      <4> QED BY <1>0, <1>h, <1>a, <1>m, <1>3, <3>2, <4>1 DEF MainHolds, UnlockPrev
    <3> QED BY <3>1, <3>2
  <2>3. owner' = [owner EXCEPT ![h][m] = "free"] /\ UNCHANGED <<tpc, numprocessed>>
    BY <1>h, <1>m, <1>3 DEF UnlockPrev, Release
  <2> QED BY <2>1, <2>2, <2>3, <1>t, LockChange
<1>4. CASE ReceiveTerminate
  <2>1. \A r \in Slots, u \in Threads : MainHolds(r, u)' <=> MainHolds(r, u)
    <3>1. mi = 0 /\ mi' = mi /\ Here' = Here /\ pc = "recv"
      BY <1>4 DEF ReceiveTerminate, PhaseOK, Here
    <3>2. CASE Launched
      <4>1. pc' = "unlockheld" /\ ToUnlock' = Here
        BY <1>4, <3>2 DEF ReceiveTerminate, PhaseOK, Filling, ToUnlock, ShortJob, Here
      <4> QED BY <1>0, <3>1, <4>1 DEF MainHolds
    <3>3. CASE ~Launched
      <4>1. pc' = "launch"
        BY <1>4, <3>3 DEF ReceiveTerminate
      <4> QED BY <1>0, <3>1, <4>1 DEF MainHolds
    <3> QED BY <3>2, <3>3
  <2> QED BY <1>4, <2>1, <1>t, LockSame DEF ReceiveTerminate
<1>5. CASE ReturnQuietly
  <2>1. /\ pc' = "done" /\ Here = 0 /\ pc = "launch"
        /\ owner' = [owner EXCEPT ![0] = [u \in Threads |-> "free"]]
        /\ UNCHANGED <<tpc, numprocessed>>
    BY <1>5, SlotSmall DEF ReturnQuietly, Goto, Here
  <2>2. \A r \in Slots, u \in Threads : ~ThreadHolds(r, u) /\ ~ThreadHolds(r, u)'
    BY <2>1 DEF PhaseOK, ThreadHolds, Holding
  <2>3. \A r \in Slots, u \in Threads : owner'[r][u] = IF r = 0 THEN "free" ELSE owner[r][u]
    BY <2>1 DEF TypeOK
  <2>4. \A r \in Slots, u \in Threads : ~MainHolds(r, u)' /\ (MainHolds(r, u) <=> r = 0)
    BY <2>1 DEF MainHolds
  <2> QED BY <2>2, <2>3, <2>4 DEF LockOK
<1>6. CASE Launch
  <2>1. /\ pc' = "initcheck" /\ \A u \in Threads : tpc'[u] = "lockend"
        /\ \A r \in Slots, u \in Threads : owner'[r][u] = IF r \in {2, 3} THEN "main" ELSE "free"
    BY <1>6 DEF Launch, Goto, RECEIVE_RING_LENGTH
  <2>2. \A r \in Slots, u \in Threads : ~ThreadHolds(r, u)'
    BY <2>1 DEF ThreadHolds, Holding
  <2>3. \A r \in Slots, u \in Threads : MainHolds(r, u)' <=> r \in {2, 3}
    BY <2>1 DEF MainHolds, End, RECEIVE_RING_LENGTH
  <2> QED BY <2>1, <2>2, <2>3 DEF LockOK
<1>7. CASE InitCheck
  <2>0. 3 \in Slots /\ End = 3
    BY SlotSmall
  <2>1. CASE initialised[mi]
    <3>1. \A r \in Slots, u \in Threads : MainHolds(r, u)' <=> MainHolds(r, u)
      BY <1>0, <1>7, <2>0, <2>1 DEF InitCheck, Loop, MainHolds, RECEIVE_RING_LENGTH
    <3> QED BY <1>7, <2>1, <3>1, <1>t, LockSame DEF InitCheck
  <2>2. CASE ~initialised[mi]
    <3>1. /\ pc = "initcheck" /\ pc' = "initwait" /\ mi' = m
          /\ owner' = [owner EXCEPT ![3][m] = "free"] /\ UNCHANGED <<tpc, numprocessed>>
      BY <1>m, <1>7, <2>0, <2>2 DEF InitCheck, Release
    <3>2. ~MainHolds(3, m)' /\ \A r \in Slots, u \in Threads :
                r # 3 \/ u # m => (MainHolds(r, u)' <=> MainHolds(r, u))
      BY <2>0, <3>1 DEF MainHolds, RECEIVE_RING_LENGTH
    <3>3. ~ThreadHolds(3, m)
      BY <2>0, <3>1 DEF LockOK, MainHolds
    <3> QED BY <2>0, <3>1, <3>2, <3>3, <1>t, LockChange
  <2> QED BY <2>1, <2>2
<1>8. CASE InitWake
  <2>0. 3 \in Slots /\ End = 3
    BY SlotSmall
  <2>1. /\ pc = "initwake" /\ pc' = "initcheck" /\ mi = m /\ mi' = m /\ owner[3][m] = "free"
        /\ owner' = [owner EXCEPT ![3][m] = "main"] /\ UNCHANGED <<tpc, numprocessed>>
    BY <1>m, <1>8, <2>0 DEF InitWake, Take, Free
  <2>2. MainHolds(3, m)' /\ \A r \in Slots, u \in Threads :
            r # 3 \/ u # m => (MainHolds(r, u)' <=> MainHolds(r, u))
    BY <2>0, <2>1 DEF MainHolds, RECEIVE_RING_LENGTH
  <2>3. ~ThreadHolds(3, m)
    BY <2>0, <2>1 DEF LockOK
  <2>4. /\ ~ThreadHolds(3, m)'
        /\ \A r \in Slots, u \in Threads : ThreadHolds(r, u)' <=> ThreadHolds(r, u)
    BY <2>0, <2>1, <2>3, <1>t
  <2>5. TypeOK /\ LockOK /\ owner' = [owner EXCEPT ![3][m] = "main"]
    BY <2>1
  <2> QED BY <2>0, <2>2, <2>4, <2>5, LockChange
<1>9. CASE UnlockSecond
  <2>0. 2 \in Slots /\ 3 \in Slots /\ End = 3 /\ RECEIVE_RING_LENGTH = 4
    BY SlotSmall DEF RECEIVE_RING_LENGTH
  <2>1. /\ pc = "unlocksecond" /\ mi = m /\ owner' = [owner EXCEPT ![2][m] = "free"]
        /\ UNCHANGED <<tpc, numprocessed, numreceived>>
    BY <1>m, <1>9, <2>0 DEF UnlockSecond, Release, Loop
  <2>2. ~MainHolds(2, m)' /\ \A r \in Slots, u \in Threads :
            r # 2 \/ u # m => (MainHolds(r, u)' <=> MainHolds(r, u))
    <3>1. CASE mi # NumThreads - 1
      <4>1. pc' = "unlocksecond" /\ mi' = mi + 1
        BY <1>9, <3>1 DEF UnlockSecond, Loop
      <4> QED BY <1>0, <2>0, <2>1, <3>1, <4>1 DEF MainHolds
    <3>2. CASE mi = NumThreads - 1 /\ terminate
      <4>1. pc' = "unlockheld" /\ mi' = 0
        BY <1>9, <3>2 DEF UnlockSecond, Loop
      <4>2. ToUnlock' = 3
        BY <2>0, <2>1, <3>2 DEF PhaseOK, Starting, ToUnlock, ShortJob
      <4> QED BY <1>0, <2>0, <2>1, <3>2, <4>1, <4>2 DEF MainHolds
    <3>3. CASE mi = NumThreads - 1 /\ ~terminate
      <4>1. pc' = "recv"
        BY <1>9, <3>3 DEF UnlockSecond, Loop
      <4>2. numreceived = 3
        BY <1>0, <2>0, <2>1, <3>3 DEF PhaseOK, Starting, ShortJob
      <4>3. Here' = 3
        BY <2>1, <4>2, SlotSmall DEF Here
      <4> QED BY <1>0, <2>0, <2>1, <3>3, <4>1, <4>3 DEF MainHolds
    <3> QED BY <3>1, <3>2, <3>3
  <2>3. ~ThreadHolds(2, m)
    BY <1>0, <2>0, <2>1 DEF LockOK, MainHolds
  <2> QED BY <2>0, <2>1, <2>2, <2>3, <1>t, LockChange
<1>10. CASE SendResults
  <2>1. \A r \in Slots, u \in Threads : MainHolds(r, u)' <=> MainHolds(r, u)
    BY <1>10 DEF SendResults, MainHolds, Here
  <2> QED BY <1>10, <2>1, <1>t, LockSame DEF SendResults
<1>11. CASE UnlockHeld
  <2>0. PICK s \in Slots : s = ToUnlock
    BY <1>0, SlotSmall DEF ToUnlock, RECEIVE_RING_LENGTH
  <2>1. /\ pc = "unlockheld" /\ mi = m /\ owner' = [owner EXCEPT ![s][m] = "free"]
        /\ UNCHANGED <<tpc, numprocessed>> /\ ToUnlock' = s
    BY <1>m, <1>11, <2>0 DEF UnlockHeld, Release, Loop, ToUnlock, ShortJob, Here
  <2>2. ~MainHolds(s, m)' /\ \A r \in Slots, u \in Threads :
            r # s \/ u # m => (MainHolds(r, u)' <=> MainHolds(r, u))
    BY <1>0, <1>11, <2>0, <2>1 DEF UnlockHeld, Loop, MainHolds
  <2>3. ~ThreadHolds(s, m)
    BY <1>0, <2>0, <2>1 DEF LockOK, MainHolds
  <2> QED BY <2>1, <2>2, <2>3, <1>t, LockChange
<1>d. PICK d \in Slots : d = DrainSlot
  BY <1>0 DEF DrainSlot, Adjust, ShortJob, RECEIVE_RING_LENGTH
<1>12. CASE DrainLock
  <2>1. /\ pc = "drainlock" /\ pc' = "drainunlock" /\ mi = m /\ mi' = m /\ DrainSlot' = d
        /\ owner[d][m] = "free" /\ owner' = [owner EXCEPT ![d][m] = "main"]
        /\ UNCHANGED <<tpc, numprocessed>>
    BY <1>m, <1>d, <1>12 DEF DrainLock, Take, Free, DrainSlot, Adjust, ShortJob
  <2>2. MainHolds(d, m)' /\ \A r \in Slots, u \in Threads :
            r # d \/ u # m => (MainHolds(r, u)' <=> MainHolds(r, u))
    BY <2>1 DEF MainHolds
  <2>3. ~ThreadHolds(d, m)
    BY <2>1 DEF LockOK
  <2> QED BY <2>1, <2>2, <2>3, <1>t, LockChange
<1>13. CASE DrainUnlock
  <2>1. /\ pc = "drainunlock" /\ pc' \in {"drainlock", "drainsend"} /\ mi = m
        /\ owner' = [owner EXCEPT ![d][m] = "free"] /\ UNCHANGED <<tpc, numprocessed>>
    BY <1>m, <1>d, <1>13 DEF DrainUnlock, Release
  <2>2. ~MainHolds(d, m)' /\ \A r \in Slots, u \in Threads :
            r # d \/ u # m => (MainHolds(r, u)' <=> MainHolds(r, u))
    BY <1>d, <2>1 DEF MainHolds
  <2>3. ~ThreadHolds(d, m)
    BY <1>d, <2>1 DEF LockOK, MainHolds
  <2> QED BY <2>1, <2>2, <2>3, <1>t, LockChange
<1>14. CASE DrainSend
  <2>1. \A r \in Slots, u \in Threads : MainHolds(r, u)' <=> MainHolds(r, u)
    BY <1>14 DEF DrainSend, MainHolds
  <2> QED BY <1>14, <2>1, <1>t, LockSame DEF DrainSend
<1>15. CASE Join
  <2>1. \A r \in Slots, u \in Threads : MainHolds(r, u)' <=> MainHolds(r, u)
    BY <1>15 DEF Join, Loop, MainHolds
  <2> QED BY <1>15, <2>1, <1>t, LockSame DEF Join
<1>16. CASE SpuriousWakeup
  <2>1. \A r \in Slots, u \in Threads : MainHolds(r, u)' <=> MainHolds(r, u)
    BY <1>16 DEF SpuriousWakeup, MainHolds
  <2> QED BY <1>16, <2>1, <1>t, LockSame DEF SpuriousWakeup
<1> QED BY <1>1, <1>2, <1>3, <1>4, <1>5, <1>6, <1>7, <1>8, <1>9, <1>10, <1>11, <1>12,
           <1>13, <1>14, <1>15, <1>16 DEF Main

\* The same for a step of process thread t: it changes one of its own mutexes.
LEMMA ThreadChange ==
    ASSUME TypeOK, LockOK, UNCHANGED <<pc, mi, di, numreceived>>,
           NEW s \in Slots, NEW t \in Threads, NEW who \in {"free", "thread"},
           owner' = [owner EXCEPT ![s][t] = who],
           ~MainHolds(s, t),
           ThreadHolds(s, t)' <=> who = "thread",
           \A r \in Slots : r # s => (ThreadHolds(r, t)' <=> ThreadHolds(r, t)),
           \A u \in Threads : u # t =>
                tpc'[u] = tpc[u] /\ numprocessed'[u] = numprocessed[u]
    PROVE  LockOK'
<1>1. \A r \in Slots, u \in Threads : MainHolds(r, u)' <=> MainHolds(r, u)
  BY MainKeeps
<1>2. \A r \in Slots, u \in Threads : u # t => (ThreadHolds(r, u)' <=> ThreadHolds(r, u))
  BY DEF ThreadHolds, At, After
<1>3. who \in {"free", "main", "thread"} /\ (MainHolds(s, t)' <=> who = "main")
  BY <1>1
<1>4. \A r \in Slots, u \in Threads : r # s \/ u # t =>
            /\ MainHolds(r, u)' <=> MainHolds(r, u)
            /\ ThreadHolds(r, u)' <=> ThreadHolds(r, u)
  BY <1>1, <1>2
<1> QED BY <1>3, <1>4, LockChange

\* The same for a step of process thread t that touches no mutex.
LEMMA ThreadSame ==
    ASSUME LockOK, UNCHANGED <<pc, mi, di, numreceived, owner>>, NEW t \in Threads,
           \A r \in Slots : ThreadHolds(r, t)' <=> ThreadHolds(r, t),
           \A u \in Threads : u # t =>
                tpc'[u] = tpc[u] /\ numprocessed'[u] = numprocessed[u]
    PROVE  LockOK'
<1>1. \A r \in Slots, u \in Threads : MainHolds(r, u)' <=> MainHolds(r, u)
  BY MainKeeps
<1>2. \A r \in Slots, u \in Threads : u # t => (ThreadHolds(r, u)' <=> ThreadHolds(r, u))
  BY DEF ThreadHolds, At, After
<1> QED BY <1>1, <1>2, LockSame

\* Every step of loopprocess() takes and releases mutexes as ThreadHolds says.
LEMMA ThreadLocks == ASSUME NEW t \in Threads, Inv, Thread(t) PROVE LockOK'
<1> USE SlotOfType DEF Inv, RingInv, TypeInv, mainvars, slotvars, threadvars
<1>n. numprocessed[t] \in Nat /\ tpc[t] \in ThreadSteps
  BY DEF TypeOK
<1>0. At(t) \in Slots /\ After(t) \in Slots /\ At(t) # After(t)
  BY <1>n, SlotNext DEF At, After
<1>p. PICK p \in Slots : p = At(t)
  BY <1>0
<1>q. PICK q \in Slots : q = After(t)
  BY <1>0
<1>e. 3 \in Slots /\ 0 \in Slots /\ End = 3
  BY SlotSmall
<1>s. ASSUME NEW from, NEW to, Step(t, from, to), UNCHANGED numprocessed
      PROVE  /\ tpc[t] = from /\ tpc'[t] = to /\ At(t)' = p /\ After(t)' = q
             /\ \A u \in Threads : u # t =>
                    tpc'[u] = tpc[u] /\ numprocessed'[u] = numprocessed[u]
  BY <1>p, <1>q, <1>s DEF Step, TypeOK, At, After
<1>1. CASE LockEnd(t)
  <2>1. /\ Step(t, "lockend", "lockfirst") /\ UNCHANGED numprocessed
        /\ UNCHANGED <<pc, mi, di, numreceived>>
        /\ owner[3][t] = "free" /\ owner' = [owner EXCEPT ![3][t] = "thread"]
    BY <1>1, <1>e DEF LockEnd, Free, Take
  <2>2. ~MainHolds(3, t)
    BY <1>e, <2>1 DEF LockOK
  <2>3. \A r \in Slots : ThreadHolds(r, t)' <=> (r = 3 \/ ThreadHolds(r, t))
    BY <1>s, <1>e, <2>1 DEF ThreadHolds, Holding
  <2>4. \A u \in Threads : u # t => tpc'[u] = tpc[u] /\ numprocessed'[u] = numprocessed[u]
    BY <1>s, <2>1
  <2>5. ThreadHolds(3, t)' /\ \A r \in Slots : r # 3 => (ThreadHolds(r, t)' <=> ThreadHolds(r, t))
    BY <1>e, <2>3
  <2> QED BY <1>e, <2>1, <2>2, <2>4, <2>5, ThreadChange
<1>2. CASE LockFirst(t)
  <2>1. /\ Step(t, "lockfirst", "unlockend") /\ UNCHANGED numprocessed
        /\ UNCHANGED <<pc, mi, di, numreceived>>
        /\ owner[0][t] = "free" /\ owner' = [owner EXCEPT ![0][t] = "thread"]
    BY <1>2, <1>e DEF LockFirst, Free, Take
  <2>2. ~MainHolds(0, t)
    BY <1>e, <2>1 DEF LockOK
  <2>3. p = 0
    BY <1>s, <1>p, <2>1, SlotSmall DEF StartOK, At
  <2>4. \A r \in Slots : ThreadHolds(r, t)' <=> (r = 0 \/ ThreadHolds(r, t))
    BY <1>s, <1>e, <2>1, <2>3 DEF ThreadHolds, Holding
  <2> QED BY <1>s, <1>e, <2>1, <2>2, <2>4, ThreadChange
<1>3. CASE UnlockEnd(t)
  <2>1. /\ Step(t, "unlockend", "setinit") /\ UNCHANGED numprocessed
        /\ UNCHANGED <<pc, mi, di, numreceived>>
        /\ owner' = [owner EXCEPT ![3][t] = "free"]
    BY <1>3, <1>e DEF UnlockEnd, Release
  <2>2. ThreadHolds(3, t)
    BY <1>s, <1>e, <2>1 DEF ThreadHolds
  <2>3. ~MainHolds(3, t)
    BY <1>e, <2>2 DEF LockOK
  <2>4. p = 0
    BY <1>s, <1>p, <2>1, SlotSmall DEF StartOK, At
  <2>5. \A r \in Slots : ThreadHolds(r, t)' <=> (r # 3 /\ ThreadHolds(r, t))
    BY <1>s, <1>e, <1>p, <2>1, <2>4 DEF ThreadHolds, Holding
  <2>6. \A u \in Threads : u # t => tpc'[u] = tpc[u] /\ numprocessed'[u] = numprocessed[u]
    BY <1>s, <2>1
  <2>7. ~ThreadHolds(3, t)' /\ \A r \in Slots : r # 3 => (ThreadHolds(r, t)' <=> ThreadHolds(r, t))
    BY <1>e, <2>5
  <2> QED BY <1>e, <2>1, <2>3, <2>6, <2>7, ThreadChange
<1>4. ASSUME NEW from \in Holding \ {"unlockend", "unlockslot"},
             NEW to \in Holding \ {"unlockend", "unlockslot"},
             Step(t, from, to), UNCHANGED <<pc, mi, di, numreceived, owner, numprocessed>>
      PROVE  LockOK'
  <2>1. \A r \in Slots : ThreadHolds(r, t)' <=> ThreadHolds(r, t)
    BY <1>s, <1>p, <1>4 DEF ThreadHolds, Holding
  <2> QED BY <1>s, <1>4, <2>1, ThreadSame
<1>5. CASE SetInitialised(t)
  BY <1>4, <1>5 DEF SetInitialised, Holding
<1>6. CASE Signal(t)
  <2>1. Step(t, "signal", "check") /\ UNCHANGED <<mi, di, numreceived, owner, numprocessed>>
    BY <1>6 DEF Signal
  <2>2. pc' = pc \/ (pc = "initwait" /\ pc' = "initwake")
    BY <1>6 DEF Signal
  <2>3. \A r \in Slots, u \in Threads : MainHolds(r, u)' <=> MainHolds(r, u)
    BY <2>1, <2>2 DEF MainHolds, Here, Ahead, ToUnlock, DrainSlot, Adjust, ShortJob
  <2>4. \A r \in Slots, u \in Threads : ThreadHolds(r, u)' <=> ThreadHolds(r, u)
    <3>1. \A r \in Slots : ThreadHolds(r, t)' <=> ThreadHolds(r, t)
      BY <1>s, <1>p, <2>1 DEF ThreadHolds, Holding
    <3>2. \A r \in Slots, u \in Threads : u # t => (ThreadHolds(r, u)' <=> ThreadHolds(r, u))
      BY <1>s, <2>1 DEF ThreadHolds, At, After
    <3> QED BY <3>1, <3>2
  <2> QED BY <2>1, <2>3, <2>4, LockSame
<1>7. CASE Check(t)
  BY <1>4, <1>7 DEF Check, Holding
<1>8. CASE ProcessData(t)
  BY <1>4, <1>8 DEF ProcessData, Holding
<1>9. CASE LockNextSlot(t)
  <2>1. /\ Step(t, "locknextslot", "unlockslot") /\ UNCHANGED numprocessed
        /\ UNCHANGED <<pc, mi, di, numreceived>>
        /\ owner[q][t] = "free" /\ owner' = [owner EXCEPT ![q][t] = "thread"]
    BY <1>9, <1>q DEF LockNextSlot, Free, Take
  <2>2. ~MainHolds(q, t)
    BY <2>1 DEF LockOK
  <2>3. \A r \in Slots : ThreadHolds(r, t)' <=> (r = q \/ ThreadHolds(r, t))
    BY <1>s, <1>p, <2>1 DEF ThreadHolds, Holding
  <2> QED BY <1>s, <2>1, <2>2, <2>3, ThreadChange
<1>10. CASE UnlockSlot(t)
  <2>1. /\ tpc[t] = "unlockslot" /\ tpc'[t] = "config" /\ At(t)' = q
        /\ UNCHANGED <<pc, mi, di, numreceived>>
        /\ \A u \in Threads : u # t =>
                tpc'[u] = tpc[u] /\ numprocessed'[u] = numprocessed[u]
        /\ owner' = [owner EXCEPT ![p][t] = "free"]
    BY <1>10, <1>p, <1>q DEF UnlockSlot, Step, Release, TypeOK, At, After
  <2>2. \A r \in Slots : /\ ThreadHolds(r, t)' <=> r = q
                         /\ ThreadHolds(r, t) <=> r \in {p, q}
    BY <1>p, <1>q, <2>1 DEF ThreadHolds, Holding
  <2>3. ~MainHolds(p, t)
    BY <2>2 DEF LockOK
  <2>4. /\ ~ThreadHolds(p, t)'
        /\ \A r \in Slots : r # p => (ThreadHolds(r, t)' <=> ThreadHolds(r, t))
    <3>1. p # q
      BY <1>0, <1>p, <1>q
    <3> QED BY <3>1, <2>2
  <2> QED BY <2>1, <2>3, <2>4, ThreadChange
<1>11. CASE ChangeConfig(t)
  BY <1>4, <1>11 DEF ChangeConfig, Holding
<1>12. CASE ExitUnlock(t)
  <2>1. /\ Step(t, "exit", "free") /\ UNCHANGED numprocessed
        /\ UNCHANGED <<pc, mi, di, numreceived>>
        /\ owner' = [owner EXCEPT ![p][t] = "free"]
    BY <1>12, <1>p DEF ExitUnlock, Release
  <2>2. \A r \in Slots : ~ThreadHolds(r, t)' /\ (ThreadHolds(r, t) <=> r = p)
    BY <1>s, <1>p, <2>1 DEF ThreadHolds, Holding
  <2>3. ~MainHolds(p, t)
    BY <2>2 DEF LockOK
  <2> QED BY <1>s, <2>1, <2>2, <2>3, ThreadChange
<1>13. CASE FreeSpace(t)
  <2>1. Step(t, "free", "exited") /\ UNCHANGED <<pc, mi, di, numreceived, owner, numprocessed>>
    BY <1>13 DEF FreeSpace
  <2>2. \A r \in Slots : ~ThreadHolds(r, t)' /\ ~ThreadHolds(r, t)
    BY <1>s, <2>1 DEF ThreadHolds, Holding
  <2> QED BY <1>s, <2>1, <2>2, ThreadSame
<1> QED BY <1>1, <1>2, <1>3, <1>5, <1>6, <1>7, <1>8, <1>9, <1>10, <1>11, <1>12, <1>13
        DEF Thread

-------------------------------------------------------------------------------
(* Main thread and process threads.                                            *)

\* The main thread makes the process threads and does not touch them otherwise.
LEMMA MainLeavesThreads ==
    ASSUME Main \/ SpuriousWakeup, ~Launch PROVE UNCHANGED threadvars
BY DEF Main, ReceiveSubint, LockNext, UnlockPrev, ReceiveTerminate, ReturnQuietly,
       InitCheck, InitWake, UnlockSecond, SendResults, UnlockHeld, DrainLock,
       DrainUnlock, DrainSend, Join, SpuriousWakeup, threadvars

\* A process thread touches the main thread only by waking it up.
LEMMA ThreadLeavesMain ==
    ASSUME NEW t \in Threads, Thread(t)
    PROVE  /\ UNCHANGED <<mi, di, numreceived, terminate, keepprocessing>>
           /\ pc' = pc \/ (pc = "initwait" /\ pc' = "initwake")
BY DEF Thread, LockEnd, LockFirst, UnlockEnd, SetInitialised, Signal, Check,
       ProcessData, LockNextSlot, UnlockSlot, ChangeConfig, ExitUnlock, FreeSpace,
       mainvars, slotvars

\* A thread that was initialised holds its slot until it stops.
LEMMA RunningHolds ==
    ASSUME Inv, NEW t \in Threads, initialised[t]
    PROVE  tpc[t] \in {"free", "exited"} \/ owner[At(t)][t] = "thread"
<1>1. tpc[t] \in Holding \cup {"free", "exited"}
  BY DEF Inv, RingInv, TypeInv, TypeOK, StartOK, ThreadSteps, Holding
<1>2. At(t) \in Slots
  BY SlotOfType DEF Inv, TypeInv, TypeOK, At
<1> QED BY <1>1, <1>2 DEF Inv, RingInv, LockOK, ThreadHolds

-------------------------------------------------------------------------------
(* Starting: the wait for the process threads leaves none behind.              *)

\* execute() goes on only when the thread it waits for has set its flag.
LEMMA StartMain == Inv /\ (Main \/ SpuriousWakeup) => StartOK'
<1> SUFFICES ASSUME Inv, Main \/ SpuriousWakeup PROVE StartOK'
  OBVIOUS
<1> USE NumThreadsAssumption, ZeroThread
    DEF Inv, RingInv, TypeInv, threadvars
<1>0. mi \in 0 .. NumThreads - 1 /\ Threads = 0 .. NumThreads - 1
  BY DEF TypeOK, Threads
<1>1. CASE Launch
  <2>1. \A t \in Threads : tpc[t] = "none" /\ numprocessed[t] = 0 /\ initialised[t] = FALSE
    BY <1>1 DEF Launch, PhaseOK, StartOK, TypeOK
  <2>2. /\ pc' = "initcheck" /\ mi' = 0 /\ tpc' = [t \in Threads |-> "lockend"]
        /\ UNCHANGED <<numprocessed, initialised>>
    BY <1>1 DEF Launch, Goto
  <2> QED BY <1>0, <2>1, <2>2 DEF StartOK, Launched
<1>2. CASE ~Launch
  <2>1. UNCHANGED threadvars
    BY <1>2, MainLeavesThreads
  <2>2. Launched' <=> Launched
    BY <2>1 DEF Launched
  <2>3. SUFFICES ASSUME NEW t \in Threads
                 PROVE  /\ pc' \in {"initcheck", "initwait", "initwake"} /\ t < mi'
                                => initialised[t]
                        /\ Launched /\ pc' \notin {"initcheck", "initwait", "initwake"}
                                => initialised[t]
    BY <2>1, <2>2 DEF StartOK
  <2>4. CASE pc \notin {"initcheck", "initwait", "initwake"}
    <3>1. pc' \notin {"initcheck", "initwait", "initwake"}
      BY <1>2, <2>4 DEF Main, ReceiveSubint, LockNext, UnlockPrev, ReceiveTerminate,
         ReturnQuietly, InitCheck, InitWake, UnlockSecond, SendResults, UnlockHeld,
         DrainLock, DrainUnlock, DrainSend, Join, SpuriousWakeup, Goto, Loop
    <3> QED BY <2>4, <3>1 DEF StartOK
  <2>5. CASE InitCheck
    BY <1>0, <2>5 DEF InitCheck, Loop, StartOK
  <2>6. CASE InitWake \/ SpuriousWakeup
    BY <2>6 DEF InitWake, SpuriousWakeup, StartOK
  <2> QED BY <1>2, <2>4, <2>5, <2>6 DEF Main, ReceiveSubint, LockNext, UnlockPrev,
         ReceiveTerminate, ReturnQuietly, UnlockSecond, SendResults, UnlockHeld,
         DrainLock, DrainUnlock, DrainSend, Join
<1> QED BY <1>1, <1>2

\* A process thread sets its flag after it has its first slot.
LEMMA StartThread == ASSUME NEW t \in Threads, Inv, Thread(t) PROVE StartOK'
<1> USE DEF Inv, RingInv, TypeInv, threadvars
<1>1. UNCHANGED mi /\ (pc' = pc \/ (pc = "initwait" /\ pc' = "initwake"))
  BY ThreadLeavesMain
<1>2. /\ \A u \in Threads : u # t => /\ tpc'[u] = tpc[u] /\ initialised'[u] = initialised[u]
                                     /\ numprocessed'[u] = numprocessed[u]
      /\ tpc[t] # "none" /\ tpc'[t] # "none"
  BY DEF Thread, LockEnd, LockFirst, UnlockEnd, SetInitialised, Signal, Check,
         ProcessData, LockNextSlot, UnlockSlot, ChangeConfig, ExitUnlock, FreeSpace,
         Step, TypeOK
<1>3. Launched' <=> Launched
  BY <1>2, ZeroThread DEF Launched
<1>4. initialised[t] => initialised'[t]
  BY DEF Thread, LockEnd, LockFirst, UnlockEnd, SetInitialised, Signal, Check,
         ProcessData, LockNextSlot, UnlockSlot, ChangeConfig, ExitUnlock, FreeSpace, TypeOK
<1>5. /\ tpc'[t] \in {"none", "lockend", "lockfirst", "unlockend", "setinit", "signal"}
            => numprocessed'[t] = 0
      /\ initialised'[t] =>
            tpc'[t] \notin {"none", "lockend", "lockfirst", "unlockend", "setinit"}
  BY DEF Thread, LockEnd, LockFirst, UnlockEnd, SetInitialised, Signal, Check,
         ProcessData, LockNextSlot, UnlockSlot, ChangeConfig, ExitUnlock, FreeSpace,
         Step, TypeOK, StartOK
<1> QED BY <1>1, <1>2, <1>3, <1>4, <1>5 DEF StartOK

-------------------------------------------------------------------------------
(* Stopping: where keepprocessing is cleared, and who stops there.             *)

\* execute() clears keepprocessing only in the slot it has reached.
LEMMA StopMain == Inv /\ (Main \/ SpuriousWakeup) => StopOK'
<1> SUFFICES ASSUME Inv, Main \/ SpuriousWakeup PROVE StopOK'
  OBVIOUS
<1> USE SlotOfType DEF Inv, RingInv, TypeInv, slotvars, threadvars
<1>0. numreceived \in Nat /\ Here \in Slots
  BY DEF TypeOK, Here
<1>1. CASE ReceiveTerminate
  <2>1. /\ ~terminate /\ terminate' /\ Here' = Here /\ pc = "recv"
        /\ UNCHANGED <<tpc, numprocessed, numreceived>>
        /\ keepprocessing' = [keepprocessing EXCEPT ![Here] = FALSE]
    BY <1>1 DEF ReceiveTerminate, PhaseOK, Filling, Here
  <2>2. \A s \in Slots : keepprocessing'[s] <=> ~(terminate' /\ s = Here')
    BY <1>0, <2>1 DEF StopOK, TypeOK
  <2>3. \A t \in Threads : tpc[t] # "none" => numprocessed[t] # numreceived
    BY <2>1 DEF PaceOK, PhaseOK, TypeOK
  <2> QED BY <2>1, <2>2, <2>3 DEF StopOK
<1>2. CASE UnlockPrev
  <2>1. /\ ~terminate /\ ~terminate'
        /\ UNCHANGED <<tpc, numprocessed, keepprocessing>>
    BY <1>2 DEF UnlockPrev, PhaseOK, Filling
  <2> QED BY <2>1 DEF StopOK
<1>3. CASE Launch
  <2>1. /\ tpc' = [t \in Threads |-> "lockend"]
        /\ UNCHANGED <<terminate, numreceived, keepprocessing>>
    BY <1>3 DEF Launch, Goto
  <2> QED BY <2>1 DEF StopOK, Here
<1>4. CASE UNCHANGED <<terminate, numreceived, keepprocessing, tpc, numprocessed>>
  BY <1>4 DEF StopOK, Here
<1> QED BY <1>1, <1>2, <1>3, <1>4 DEF Main, ReceiveSubint, LockNext, ReturnQuietly,
        InitCheck, InitWake, UnlockSecond, SendResults, UnlockHeld, DrainLock,
        DrainUnlock, DrainSend, Join, SpuriousWakeup, Goto, Loop

\* A thread whose slot is the one the main thread reached has caught up with it.
LEMMA CaughtUp ==
    ASSUME Inv, NEW t \in Threads, Launched, At(t) = Here
    PROVE  numprocessed[t] = numreceived
<1>1. numprocessed[t] \in Nat /\ numreceived \in Nat /\ numprocessed[t] <= numreceived
  BY DEF Inv, RingInv, TypeInv, TypeOK, PaceOK
<1>2. numprocessed[t] >= numreceived - 3
  BY <1>1 DEF Inv, RingInv, TypeInv, PaceOK, PhaseOK, Starting, RECEIVE_RING_LENGTH
<1> QED BY <1>1, <1>2, SlotSame DEF At, Here

\* A process thread stops only in that slot, having processed all before it.
LEMMA StopThread == ASSUME NEW t \in Threads, Inv, Thread(t) PROVE StopOK'
<1> USE SlotOfType DEF Inv, RingInv, TypeInv, mainvars, slotvars
<1>1. UNCHANGED <<numreceived, terminate, keepprocessing>>
  BY ThreadLeavesMain
<1>2. /\ \A u \in Threads : u # t => /\ tpc'[u] = tpc[u]
                                     /\ numprocessed'[u] = numprocessed[u]
      /\ tpc[t] # "none" /\ tpc'[t] # "none"
  BY DEF Thread, LockEnd, LockFirst, UnlockEnd, SetInitialised, Signal, Check,
         ProcessData, LockNextSlot, UnlockSlot, ChangeConfig, ExitUnlock, FreeSpace,
         Step, TypeOK
<1>3. Launched
  BY <1>2 DEF PhaseOK
<1>4. /\ tpc'[t] \in {"process", "locknextslot", "unlockslot"} /\ terminate
            => numprocessed'[t] # numreceived
      /\ tpc'[t] \in {"exit", "free", "exited"} => terminate /\ numprocessed'[t] = numreceived
  <2>1. CASE Check(t)
    <3>1. /\ tpc[t] = "check" /\ UNCHANGED numprocessed
          /\ tpc'[t] = IF keepprocessing[At(t)] THEN "process" ELSE "exit"
      BY <2>1 DEF Check, Step, TypeOK
    <3>2. keepprocessing[At(t)] <=> ~(terminate /\ At(t) = Here)
      BY DEF StopOK, TypeOK, At
    <3>3. At(t) = Here <=> numprocessed[t] = numreceived
      BY <1>3, CaughtUp DEF At, Here
    <3> QED BY <3>1, <3>2, <3>3
  <2>2. CASE LockEnd(t) \/ LockFirst(t) \/ UnlockEnd(t) \/ SetInitialised(t) \/ Signal(t)
    BY <2>2 DEF LockEnd, LockFirst, UnlockEnd, SetInitialised, Signal, Step, TypeOK
  <2>3. CASE ProcessData(t) \/ LockNextSlot(t)
    BY <2>3 DEF ProcessData, LockNextSlot, Step, TypeOK, StopOK
  <2>4. CASE UnlockSlot(t) \/ ChangeConfig(t)
    BY <2>4 DEF UnlockSlot, ChangeConfig, Step, TypeOK
  <2>5. CASE ExitUnlock(t) \/ FreeSpace(t)
    BY <2>5 DEF ExitUnlock, FreeSpace, Step, TypeOK, StopOK
  <2> QED BY <2>1, <2>2, <2>3, <2>4, <2>5 DEF Thread
<1> QED BY <1>1, <1>2, <1>4 DEF StopOK, Here

-------------------------------------------------------------------------------
(* Pace: a process thread follows the main thread by less than the ring.       *)

\* The main thread gets a mutex only once its process thread has left the slot.
LEMMA FreeMeansGone ==
    ASSUME Inv, NEW t \in Threads, initialised[t], Free(At(t), t)
    PROVE  tpc[t] \in {"free", "exited"}
BY RunningHolds DEF Free

\* execute() does not lap a process thread: it would have to get a mutex the
\* thread holds.
LEMMA PaceMain == Inv /\ (Main \/ SpuriousWakeup) => PaceOK'
<1> SUFFICES ASSUME Inv, Main \/ SpuriousWakeup PROVE PaceOK'
  OBVIOUS
<1> USE NumThreadsAssumption, ZeroThread
    DEF Inv, RingInv, TypeInv, threadvars, RECEIVE_RING_LENGTH
<1>0. /\ mi \in 0 .. NumThreads - 1 /\ Threads = 0 .. NumThreads - 1
      /\ numreceived \in Nat /\ di \in 1 .. 4 /\ pc \in MainSteps
      /\ numprocessed \in [Threads -> Nat]
  BY DEF TypeOK, Threads
<1>l. ASSUME UNCHANGED threadvars PROVE Launched' <=> Launched
  BY <1>l DEF Launched
<1>a. ASSUME UNCHANGED numreceived PROVE Adjust' = Adjust
  BY <1>a DEF Adjust, ShortJob
<1>1. CASE ReceiveSubint
  BY <1>0, <1>1, <1>l DEF ReceiveSubint, Goto, PaceOK, PhaseOK, Starting, Draining
<1>2. CASE LockNext
  <2>0. /\ pc = "locknext" /\ UNCHANGED <<numreceived, threadvars>> /\ ~terminate
        /\ Free(Ahead, mi) /\ pc' \in {"locknext", "unlockprev"}
        /\ IF mi = NumThreads - 1 THEN pc' = "unlockprev" /\ mi' = 0
                                  ELSE pc' = "locknext" /\ mi' = mi + 1
    BY <1>2 DEF LockNext, Loop, PhaseOK, Filling
  <2>1. Launched => numprocessed[mi] >= numreceived - 2
    <3> SUFFICES ASSUME Launched, numprocessed[mi] = numreceived - 3 PROVE FALSE
      BY <1>0, <2>0 DEF PaceOK, Starting
    <3>1. Ahead = At(mi)
      <4>1. numreceived + 1 = numprocessed[mi] + 4
        BY <1>0
      <4> QED BY <1>0, <4>1, SlotLap DEF Ahead, At
    <3>2. initialised[mi]
      BY <1>0, <2>0 DEF StartOK
    <3>3. tpc[mi] \notin {"free", "exited"}
      BY <1>0, <2>0 DEF StopOK
    <3> QED BY <1>0, <2>0, <3>1, <3>2, <3>3, FreeMeansGone
  <2> QED BY <1>0, <2>0, <2>1, <1>l DEF PaceOK, Starting, Draining
<1>3. CASE UnlockPrev
  <2>1. CASE mi # NumThreads - 1
    BY <1>0, <1>3, <2>1, <1>l DEF UnlockPrev, PaceOK, Starting, Draining
  <2>2. CASE mi = NumThreads - 1
    BY <1>0, <1>3, <2>2, <1>l DEF UnlockPrev, PaceOK, Starting, Draining
  <2> QED BY <2>1, <2>2
<1>4. CASE ReceiveTerminate
  BY <1>0, <1>4, <1>l DEF ReceiveTerminate, PaceOK, Starting, Draining
<1>5. CASE ReturnQuietly
  BY <1>5, <1>l DEF ReturnQuietly, Goto, PaceOK, PhaseOK
<1>6. CASE Launch
  <2>1. /\ \A t \in Threads : numprocessed[t] = 0
        /\ pc' = "initcheck" /\ mi' = 0 /\ numreceived > 0
        /\ UNCHANGED <<numprocessed, numreceived>>
    BY <1>6 DEF Launch, Goto, PhaseOK, StartOK
  <2> QED BY <1>0, <2>1 DEF PaceOK, Starting, Draining
<1>7. CASE InitCheck
  <2>1. /\ pc = "initcheck" /\ pc' \in {"initcheck", "initwait", "unlocksecond"}
        /\ UNCHANGED <<numreceived, threadvars>>
    BY <1>7 DEF InitCheck, Loop
  <2> QED BY <1>0, <2>1, <1>l DEF PaceOK, Starting, Draining
<1>8. CASE InitWake \/ SpuriousWakeup
  BY <1>0, <1>8, <1>l DEF InitWake, SpuriousWakeup, PaceOK, Starting, Draining
<1>9. CASE UnlockSecond
  <2>1. /\ pc = "unlocksecond" /\ Launched /\ UNCHANGED <<numreceived, threadvars>>
        /\ numreceived < 4 /\ (terminate <=> numreceived < 3)
    BY <1>9 DEF UnlockSecond, Loop, PhaseOK, Starting, ShortJob
  <2>2. CASE mi # NumThreads - 1
    BY <1>0, <1>9, <2>1, <2>2, <1>l DEF UnlockSecond, Loop, PaceOK, Starting, Draining
  <2>3. CASE mi = NumThreads - 1
    BY <1>0, <1>9, <2>1, <2>3, <1>l DEF UnlockSecond, Loop, PaceOK, Starting, Draining
  <2> QED BY <2>2, <2>3
<1>10. CASE SendResults
  BY <1>0, <1>10, <1>l DEF SendResults, PaceOK, Starting, Draining
<1>11. CASE UnlockHeld
  <2>1. /\ pc = "unlockheld" /\ di = 1 /\ UNCHANGED <<di, numreceived, threadvars>>
        /\ \/ pc' = "drainlock" /\ mi' = 0
           \/ pc' = "unlockheld"
    BY <1>0, <1>11 DEF UnlockHeld, Loop, PhaseOK, Draining
  <2>2. Launched => \A t \in Threads : numprocessed[t] + 4 >= numreceived + di + Adjust
    BY <1>0, <2>1 DEF PaceOK, Starting, Adjust, ShortJob
  <2>3. CASE pc' = "drainlock" /\ mi' = 0
    BY <1>0, <2>1, <2>2, <2>3, <1>l, <1>a DEF PaceOK, Starting, Draining
  <2>4. CASE pc' = "unlockheld"
    BY <1>0, <2>1, <2>2, <2>4, <1>l, <1>a DEF PaceOK, Starting, Draining
  <2> QED BY <2>1, <2>3, <2>4
<1>12. CASE DrainLock
  <2>1. /\ pc = "drainlock" /\ pc' = "drainunlock" /\ Launched /\ Free(DrainSlot, mi)
        /\ UNCHANGED <<mi, di, numreceived, threadvars>>
    BY <1>12 DEF DrainLock, PhaseOK, Draining
  <2>2. numprocessed[mi] + 4 > numreceived + di + Adjust
    <3>0. Adjust \in Nat
      BY <1>0 DEF Adjust, ShortJob
    <3> SUFFICES ASSUME numprocessed[mi] + 4 = numreceived + di + Adjust PROVE FALSE
      BY <1>0, <2>1, <3>0 DEF PaceOK, Draining
    <3>1. DrainSlot = At(mi)
      BY <1>0, SlotLap DEF DrainSlot, At
    <3>2. initialised[mi]
      BY <1>0, <2>1 DEF StartOK
    <3>3. tpc[mi] \in {"free", "exited"}
      BY <1>0, <2>1, <3>1, <3>2, FreeMeansGone
    <3>4. numprocessed[mi] = numreceived
      BY <1>0, <3>3 DEF StopOK
    <3>5. di <= Countdown
      BY <2>1 DEF PhaseOK, Draining
    <3>6. di <= 3 /\ (ShortJob => di <= numreceived)
      BY <1>0, <3>5 DEF Countdown, ShortJob
    <3>7. Adjust = IF ShortJob THEN 3 - numreceived ELSE 0
      BY DEF Adjust
    <3> QED BY <1>0, <3>4, <3>6, <3>7
  <2> QED BY <1>0, <2>1, <2>2, <1>l, <1>a DEF PaceOK, Starting, Draining
<1>13. CASE DrainUnlock
  <2>1. /\ pc = "drainunlock" /\ UNCHANGED <<di, numreceived, threadvars>>
        /\ IF mi = NumThreads - 1 THEN pc' = "drainsend" /\ mi' = 0
                                  ELSE pc' = "drainlock" /\ mi' = mi + 1
    BY <1>13 DEF DrainUnlock
  <2>2. /\ Launched' <=> Launched
        /\ Adjust' = Adjust /\ UNCHANGED <<numprocessed, di, numreceived>>
    BY <2>1, <1>l, <1>a DEF threadvars
  <2>3. CASE mi = NumThreads - 1
    <3>1. pc' = "drainsend" /\ \A t \in Threads : t <= mi
      BY <1>0, <2>1, <2>3 DEF Threads
    <3> QED BY <1>0, <2>1, <2>2, <3>1 DEF PaceOK, Starting, Draining
  <2>4. CASE mi # NumThreads - 1
    <3>1. pc' = "drainlock" /\ mi' = mi + 1 /\ \A t \in Threads : t < mi' => t <= mi
      BY <1>0, <2>1, <2>4 DEF Threads
    <3> QED BY <1>0, <2>1, <2>2, <3>1 DEF PaceOK, Starting, Draining
  <2> QED BY <2>3, <2>4
<1>14. CASE DrainSend
  <2>1. /\ pc = "drainsend" /\ pc' \in {"drainlock", "join"} /\ mi = 0 /\ mi' = 0
        /\ di' = di + 1 /\ UNCHANGED <<numreceived, threadvars>>
    BY <1>14 DEF DrainSend, PhaseOK
  <2>2. Adjust \in Nat
    BY <1>0 DEF Adjust, ShortJob
  <2> QED BY <1>0, <2>1, <2>2, <1>l, <1>a DEF PaceOK, Starting, Draining
<1>15. CASE Join
  <2>1. pc = "join" /\ pc' \in {"join", "done"} /\ UNCHANGED <<numreceived, threadvars>>
    BY <1>15 DEF Join, Loop
  <2> QED BY <1>0, <2>1, <1>l DEF PaceOK, Starting, Draining
<1> QED BY <1>1, <1>2, <1>3, <1>4, <1>5, <1>6, <1>7, <1>8, <1>9, <1>10, <1>11, <1>12,
           <1>13, <1>14, <1>15 DEF Main

\* A process thread does not overtake execute(), which holds the slot ahead.
LEMMA PaceThread == ASSUME NEW t \in Threads, Inv, Thread(t) PROVE PaceOK'
<1> USE SlotOfType DEF Inv, RingInv, TypeInv, RECEIVE_RING_LENGTH
<1>0. /\ mi \in Threads /\ Threads = 0 .. NumThreads - 1 /\ numreceived \in Nat
      /\ di \in 1 .. 4 /\ numprocessed \in [Threads -> Nat] /\ pc \in MainSteps
      /\ Adjust \in Nat
  BY DEF TypeOK, Threads, Adjust, ShortJob
<1>1. /\ UNCHANGED <<mi, di, numreceived, terminate>> /\ Adjust' = Adjust
      /\ pc' = pc \/ (pc = "initwait" /\ pc' = "initwake")
  BY ThreadLeavesMain DEF Adjust, ShortJob
<1>2. tpc[t] # "none" /\ Launched
  BY DEF Thread, LockEnd, LockFirst, UnlockEnd, SetInitialised, Signal, Check,
         ProcessData, LockNextSlot, UnlockSlot, ChangeConfig, ExitUnlock, FreeSpace,
         Step, PhaseOK
<1>3. CASE UNCHANGED numprocessed
  BY <1>0, <1>1, <1>2, <1>3 DEF PaceOK, Starting, Draining
<1>4. CASE UnlockSlot(t)
  <2>1. /\ tpc[t] = "unlockslot" /\ UNCHANGED pc
        /\ numprocessed' = [numprocessed EXCEPT ![t] = @ + 1]
    BY <1>4 DEF UnlockSlot, Step, mainvars
  <2>2. After(t) \in Slots /\ ~MainHolds(After(t), t)
    <3>1. After(t) \in Slots /\ ThreadHolds(After(t), t)
      BY <1>0, <2>1 DEF ThreadHolds, After
    <3> QED BY <3>1 DEF LockOK
  <2>3. /\ pc \in {"initcheck", "initwait", "initwake"} => numprocessed[t] + 1 <= 1
        /\ pc = "unlocksecond" => numprocessed[t] + 1 <= 2
    <3>1. pc \in {"initcheck", "initwait", "initwake"} => numprocessed[t] # 1
      BY <1>0, <2>2, SlotSmall DEF MainHolds, After
    <3>2. pc = "unlocksecond" => numprocessed[t] # 2
      BY <1>0, <2>2, SlotSmall DEF MainHolds, After
    <3> QED BY <1>0, <1>2, <3>1, <3>2 DEF PaceOK
  <2>4. pc \in {"recv", "ssend", "locknext"} \/ (pc = "unlockprev" /\ t >= mi)
            => numprocessed[t] + 1 < numreceived
    <3>1. pc \in {"recv", "ssend", "locknext"} \/ (pc = "unlockprev" /\ t >= mi)
            => numprocessed[t] + 1 # numreceived
      BY <2>2 DEF MainHolds, After, Here
    <3> QED BY <1>0, <1>2, <3>1 DEF PaceOK
  <2>5. numprocessed[t] + 1 <= numreceived
    <3> SUFFICES ASSUME numprocessed[t] = numreceived PROVE FALSE
      BY <1>0, <1>2 DEF PaceOK
    <3>1. ~terminate
      BY <2>1 DEF StopOK
    <3>2. pc # "unlockprev"
      BY <2>2, <1>0, <1>2 DEF MainHolds, After, Ahead
    <3>3. pc \notin Starting
      BY <1>0, <1>2, <3>1 DEF PaceOK, PhaseOK, Starting, ShortJob
    <3> QED BY <1>0, <1>2, <3>1, <3>2, <3>3
            DEF PaceOK, PhaseOK, MainSteps, Starting, Draining
  <2>6. \A u \in Threads : numprocessed'[u] = IF u = t THEN numprocessed[t] + 1
                                              ELSE numprocessed[u]
    BY <1>0, <2>1
  <2> QED BY <1>0, <1>1, <1>2, <2>1, <2>3, <2>4, <2>5, <2>6 DEF PaceOK, Starting, Draining
<1> QED BY <1>3, <1>4 DEF Thread, LockEnd, LockFirst, UnlockEnd, SetInitialised, Signal,
        Check, ProcessData, LockNextSlot, ChangeConfig, ExitUnlock, FreeSpace

-------------------------------------------------------------------------------
(* The inductive invariant and what follows from it.                           *)

\* The constructor leaves the first slot locked and nothing started.
LEMMA RingInit == Init => RingInv
<1> SUFFICES ASSUME Init PROVE RingInv
  OBVIOUS
<1> USE NumThreadsAssumption, SlotSmall, ZeroThread DEF Init
<1>1. LockOK
  BY DEF LockOK, MainHolds, ThreadHolds, Holding, Here
<1>2. StartOK /\ PaceOK
  BY DEF StartOK, PaceOK, Launched
<1>3. StopOK
  BY DEF StopOK
<1> QED BY <1>1, <1>2, <1>3 DEF RingInv

\* The invariant depends on the variables only.
LEMMA RingStutter == Inv /\ UNCHANGED vars => Inv'
<1> SUFFICES ASSUME Inv, UNCHANGED vars PROVE Inv'
  OBVIOUS
<1> USE DEF vars, mainvars, slotvars, threadvars, Inv, RingInv, TypeInv
<1>1. TypeOK' /\ PhaseOK'
  BY DEF TypeOK, PhaseOK, Launched, ShortJob, Countdown
<1>2. LockOK'
  BY LockSame, MainKeeps, ThreadKeeps
<1>3. StartOK' /\ StopOK' /\ PaceOK'
  BY DEF StartOK, StopOK, PaceOK, Launched, Here, Adjust, ShortJob
<1> QED BY <1>1, <1>2, <1>3

\* The invariant is inductive.
LEMMA RingNext == Inv /\ [Next]_vars => Inv'
<1> SUFFICES ASSUME Inv, [Next]_vars PROVE Inv'
  OBVIOUS
<1>1. CASE Main \/ SpuriousWakeup
  <2>1. TypeInv'
    BY <1>1, TypeMain DEF Inv
  <2> QED BY <1>1, <2>1, MainLocks, StartMain, StopMain, PaceMain DEF Inv, RingInv
<1>2. ASSUME NEW t \in Threads, Thread(t) PROVE Inv'
  <2>1. TypeInv'
    BY <1>2, TypeThread DEF Inv
  <2> QED BY <1>2, <2>1, ThreadLocks, StartThread, StopThread, PaceThread DEF Inv, RingInv
<1>3. CASE UNCHANGED vars
  BY <1>3, RingStutter
<1> QED BY <1>1, <1>2, <1>3 DEF Next, Finished

\* The mutexes of the ring are held exactly where the code says so, process
\* threads start, stop and keep their distance as planned.
THEOREM RingCorrect == Spec => []RingInv
<1>1. Init => Inv
  BY TypeInit, RingInit DEF Inv
<1>2. Inv => RingInv
  BY DEF Inv
<1> QED BY <1>1, <1>2, RingNext, PTL DEF Spec

\* An unlock in core.cpp is always done by the thread that holds the mutex.
THEOREM UnlocksAreOwn == Spec => []UnlocksOwn
<1>1. Inv => UnlocksOwn
  <2> SUFFICES ASSUME Inv PROVE UnlocksOwn
    OBVIOUS
  <2> USE SlotOfType, SlotSmall DEF Inv, RingInv, TypeInv
  <2>0. /\ mi \in Threads /\ Threads = 0 .. NumThreads - 1 /\ numreceived \in Nat
        /\ di \in 1 .. 4 /\ numprocessed \in [Threads -> Nat] /\ Adjust \in Nat
    BY DEF TypeOK, Threads, Adjust, ShortJob, RECEIVE_RING_LENGTH
  <2>1. Here \in Slots /\ ToUnlock \in Slots /\ DrainSlot \in Slots /\ 2 \in Slots
    BY <2>0 DEF Here, ToUnlock, DrainSlot, RECEIVE_RING_LENGTH
  <2>2. \A t \in Threads : At(t) \in Slots
    BY <2>0 DEF At
  <2>3. /\ pc = "unlockprev" => MainHolds(Here, mi)
        /\ pc = "initcheck" => MainHolds(End, mi)
        /\ pc = "unlocksecond" => MainHolds(2, mi)
        /\ pc = "unlockheld" => MainHolds(ToUnlock, mi)
        /\ pc = "drainunlock" => MainHolds(DrainSlot, mi)
    BY <2>0 DEF MainHolds, RECEIVE_RING_LENGTH
  <2>4. \A t \in Threads :
            /\ tpc[t] \in {"unlockslot", "exit"} => ThreadHolds(At(t), t)
            /\ tpc[t] = "unlockend" => ThreadHolds(End, t)
    BY DEF ThreadHolds, Holding
  <2> QED BY <2>0, <2>1, <2>2, <2>3, <2>4 DEF UnlocksOwn, LockOK, RECEIVE_RING_LENGTH
<1>2. Init => Inv
  BY TypeInit, RingInit DEF Inv
<1> QED BY <1>1, <1>2, RingNext, PTL DEF Spec

\* While the Core's main thread fills, sends or zeroes a slot, no process thread
\* is between the first and the last use of that slot in loopprocess().
THEOREM SlotsExclusive == Spec => []SlotExclusive
<1>1. Inv => SlotExclusive
  <2> SUFFICES ASSUME Inv, NEW t \in Threads, InSlot(t), Writes(At(t)) PROVE FALSE
    BY DEF SlotExclusive
  <2> USE SlotOfType DEF Inv, RingInv, TypeInv
  <2>0. /\ numreceived \in Nat /\ di \in 1 .. 4 /\ numprocessed[t] \in Nat
        /\ Adjust \in Nat /\ At(t) \in Slots
    BY DEF TypeOK, Adjust, ShortJob, RECEIVE_RING_LENGTH, At
  <2>1. CASE pc \in {"recv", "ssend"} /\ At(t) = Here
    <3>1. MainHolds(At(t), t) /\ ThreadHolds(At(t), t)
      BY <2>1 DEF MainHolds, ThreadHolds, Holding, InSlot
    <3> QED BY <2>0, <3>1 DEF LockOK
  <2>2. CASE pc = "drainsend" /\ At(t) = DrainSlot
    <3>1. /\ numprocessed[t] <= numreceived
          /\ numprocessed[t] + 4 > numreceived + di + Adjust
      BY <2>0, <2>2 DEF PaceOK, PhaseOK, Draining
    <3>2. numprocessed[t] = numreceived + di + Adjust
      BY <2>0, <2>2, <3>1, SlotSame DEF At, DrainSlot
    <3> QED BY <2>0, <3>1, <3>2
  <2> QED BY <2>1, <2>2 DEF Writes
<1>2. Init => Inv
  BY TypeInit, RingInit DEF Inv
<1> QED BY <1>1, <1>2, RingNext, PTL DEF Spec

ResultInv == Inv /\ DataInv

-------------------------------------------------------------------------------
(* Facts about the ring.                                                       *)

\* What has been returned is behind what was received by a ring at most.
LEMMA SentBounds ==
    ASSUME Inv, SentOK, sent \in Seq(SUBSET Entries)
    PROVE  /\ Len(sent) \in Nat /\ numreceived \in Nat
           /\ Len(sent) <= numreceived /\ numreceived <= Len(sent) + 4
           /\ pc # "ssend" => numreceived <= Len(sent) + 3
<1> USE DEF Inv, TypeInv, RECEIVE_RING_LENGTH
<1>1. Len(sent) \in Nat /\ numreceived \in Nat /\ di \in 1 .. 4 /\ pc \in MainSteps
  BY DEF TypeOK
<1>2. CASE ~Launched
  BY <1>1, <1>2 DEF SentOK, PhaseOK, MainSteps, Filling, Starting, Draining, ShortJob
<1>3. CASE Launched /\ pc \in Starting
  BY <1>1, <1>3 DEF SentOK, PhaseOK, MainSteps, Filling, Starting, Draining, ShortJob
<1>4. CASE Launched /\ pc \in Filling \cup {"ssend"}
  BY <1>1, <1>4 DEF SentOK, PhaseOK, MainSteps, Filling, Starting, Draining, ShortJob
<1>5. CASE Launched /\ pc \notin Filling \cup Starting \cup {"ssend"}
  <2>1. Len(sent) = numreceived - Countdown + di - 1
    BY <1>5 DEF SentOK
  <2>2. Countdown = IF numreceived < 3 THEN numreceived ELSE 3
    BY DEF Countdown, ShortJob
  <2>3. di <= Countdown + 1
    BY <1>1, <1>5, <2>2 DEF PhaseOK, MainSteps, Filling, Starting, Draining
  <2> QED BY <1>1, <2>1, <2>2, <2>3
<1> QED BY <1>2, <1>3, <1>4, <1>5

\* A thread that has not stopped is not behind what was returned.
LEMMA NotReturned ==
    ASSUME Inv, SentOK, JoinOK, Launched, NEW t \in Threads
    PROVE  numprocessed[t] >= Len(sent)
<1> USE DEF Inv, TypeInv, RingInv, RECEIVE_RING_LENGTH
<1>1. /\ numreceived \in Nat /\ di \in 1 .. 4 /\ pc \in MainSteps /\ numprocessed[t] \in Nat
      /\ Len(sent) \in Nat
  BY DEF TypeOK
<1>2. CASE pc \in Starting
  BY <1>1, <1>2 DEF SentOK
<1>3. CASE pc \in Filling \cup {"ssend"}
  BY <1>1, <1>3 DEF SentOK, PaceOK, Filling, Starting
<1>4. CASE pc \in Draining
  <2>1. Len(sent) = numreceived - Countdown + di - 1
    BY <1>4 DEF SentOK, Draining, Filling, Starting
  <2>2. numprocessed[t] + 4 >= numreceived + di + Adjust
    BY <1>4 DEF PaceOK
  <2> QED BY <1>1, <2>1, <2>2 DEF Countdown, Adjust
<1>5. CASE pc = "unlockheld"
  <2>1. Len(sent) = numreceived - Countdown /\ numprocessed[t] >= numreceived - 3
    BY <1>1, <1>5 DEF SentOK, Draining, Filling, Starting, PhaseOK, PaceOK, Countdown
  <2> QED BY <1>1, <2>1 DEF Countdown, ShortJob
<1>6. CASE pc \in {"join", "done"}
  <2>1. Len(sent) = numreceived
    BY <1>1, <1>6 DEF SentOK, PhaseOK, Countdown, Draining, Filling, Starting
  <2>2. numprocessed[t] = numreceived
    BY <1>6 DEF JoinOK, StopOK
  <2> QED BY <1>1, <2>1, <2>2
<1> QED BY <1>1, <1>2, <1>3, <1>4, <1>5, <1>6 DEF PhaseOK, MainSteps, Filling, Starting, Draining

\* Nobody has added anything to a result whose data has not come.
LEMMA NothingAdded ==
    ASSUME Inv, NEW t \in Threads, NEW k \in Nat, k >= numreceived, ~Filled(k)
    PROVE  ~Added(t, k)
<1> USE DEF Inv, TypeInv, RingInv, RECEIVE_RING_LENGTH
<1>1. numreceived \in Nat /\ pc \in MainSteps /\ numprocessed[t] \in Nat /\ mi \in Threads
  BY DEF TypeOK
<1>2. CASE ~Launched
  BY <1>1, <1>2 DEF Added, PhaseOK, StartOK
<1>3. CASE Launched
  <2>1. numprocessed[t] <= numreceived
    BY <1>3 DEF PaceOK
  <2> SUFFICES ASSUME k = numreceived, numprocessed[t] = numreceived,
                      tpc[t] \in {"locknextslot", "unlockslot"}
               PROVE  FALSE
    BY <1>1, <2>1 DEF Added
  <2>2. ~terminate
    BY DEF StopOK
  <2>3. pc \notin {"locknext", "unlockprev", "recv", "ssend"}
    BY <1>1, <1>3 DEF Filled, PaceOK
  <2>4. pc \notin Starting
    BY <1>1, <1>3, <2>2 DEF PaceOK, PhaseOK, Starting, ShortJob
  <2> QED BY <1>1, <1>3, <2>2, <2>3, <2>4 DEF PhaseOK, MainSteps, Starting, Draining
<1> QED BY <1>2, <1>3

\* A thread that is to process its slot finds the data there.
LEMMA DataThere ==
    ASSUME Inv, NEW t \in Threads, Launched, numprocessed[t] # numreceived \/ ~terminate
    PROVE  Filled(numprocessed[t])
<1> USE DEF Inv, TypeInv, RingInv, RECEIVE_RING_LENGTH
<1>1. /\ numreceived \in Nat /\ pc \in MainSteps /\ numprocessed[t] \in Nat /\ mi \in Threads
      /\ numprocessed[t] <= numreceived
  BY DEF TypeOK, PaceOK
<1> SUFFICES ASSUME numprocessed[t] = numreceived, ~terminate
             PROVE  pc = "unlockprev"
  BY <1>1 DEF Filled
<1>2. pc \notin {"recv", "ssend", "locknext"}
  BY <1>1 DEF PaceOK
<1>3. pc \notin Starting
  BY <1>1 DEF PaceOK, PhaseOK, Starting, ShortJob
<1> QED BY <1>1, <1>2, <1>3 DEF PhaseOK, MainSteps, Starting, Draining

-------------------------------------------------------------------------------
(* How many results have been returned.                                        *)

\* A process thread leaves what counts for the number of results alone.
LEMMA ThreadStep ==
    ASSUME NEW t \in Threads, Inv, Thread(t)
    PROVE  /\ UNCHANGED <<mi, di, numreceived, terminate, sent, offsets, configindex>>
           /\ pc' = pc \/ (pc = "initwait" /\ pc' = "initwake")
           /\ Launched /\ Launched'
           /\ \A u \in Threads : u # t => /\ tpc'[u] = tpc[u]
                                          /\ numprocessed'[u] = numprocessed[u]
                                          /\ lastconfigindex'[u] = lastconfigindex[u]
<1>1. /\ UNCHANGED <<mi, di, numreceived, terminate, sent, offsets, configindex>>
      /\ pc' = pc \/ (pc = "initwait" /\ pc' = "initwake")
  BY DEF Thread, LockEnd, LockFirst, UnlockEnd, SetInitialised, Signal, Check,
         ProcessData, LockNextSlot, UnlockSlot, ChangeConfig, ExitUnlock, FreeSpace,
         mainvars, slotvars
<1>2. /\ \A u \in Threads : u # t => /\ tpc'[u] = tpc[u]
                                     /\ numprocessed'[u] = numprocessed[u]
                                     /\ lastconfigindex'[u] = lastconfigindex[u]
      /\ tpc[t] # "none" /\ tpc'[t] # "none"
  BY DEF Thread, LockEnd, LockFirst, UnlockEnd, SetInitialised, Signal, Check,
         ProcessData, LockNextSlot, UnlockSlot, ChangeConfig, ExitUnlock, FreeSpace,
         Step, Inv, TypeInv, TypeOK
<1>3. Launched
  BY <1>2 DEF Inv, TypeInv, PhaseOK
<1>4. Launched'
  BY <1>2, <1>3, ZeroThread DEF Launched
<1> QED BY <1>1, <1>2, <1>3, <1>4

\* execute() sends a result for each that it receives, and the rest at the end.
LEMMA SentMain == ResultInv /\ (Main \/ SpuriousWakeup) => SentOK'
<1> SUFFICES ASSUME ResultInv, Main \/ SpuriousWakeup PROVE SentOK'
  OBVIOUS
<1> USE ZeroThread DEF ResultInv, DataInv, Inv, TypeInv, RECEIVE_RING_LENGTH
<1>0. /\ numreceived \in Nat /\ di \in 1 .. 4 /\ pc \in MainSteps /\ mi \in Threads
      /\ sent \in Seq(SUBSET Entries) /\ Len(sent) \in Nat
      /\ 0 \in Threads /\ tpc \in [Threads -> ThreadSteps]
  BY DEF TypeOK
<1>l. ASSUME UNCHANGED tpc PROVE Launched' <=> Launched
  BY <1>l DEF Launched
<1>c. ASSUME UNCHANGED numreceived PROVE Countdown' = Countdown
  BY <1>c DEF Countdown, ShortJob
<1>1. CASE ReceiveSubint \/ LockNext
  <2>1. /\ pc \in Filling /\ pc' \in Filling
        /\ UNCHANGED <<numreceived, di, sent, tpc>>
    BY <1>1 DEF ReceiveSubint, LockNext, Loop, Goto, Filling, threadvars
  <2> QED BY <2>1, <1>l DEF SentOK, Filling, Starting
<1>2. CASE UnlockPrev
  <2>1. /\ pc = "unlockprev" /\ UNCHANGED <<sent, tpc>>
        /\ \/ pc' = "unlockprev" /\ UNCHANGED numreceived
           \/ /\ numreceived' = numreceived + 1
              /\ pc' \in {"ssend", "recv", "launch"} /\ (Launched => pc' = "ssend")
    BY <1>2 DEF UnlockPrev, threadvars
  <2> QED BY <1>0, <2>1, <1>l DEF SentOK, Filling, Starting
<1>3. CASE ReceiveTerminate
  <2>1. /\ pc = "recv" /\ UNCHANGED <<sent, tpc, numreceived, di>> /\ di = 1
        /\ pc' = IF Launched THEN "unlockheld" ELSE "launch"
        /\ Launched => numreceived >= 3
    BY <1>0, <1>3 DEF ReceiveTerminate, threadvars, PhaseOK, Draining, Filling, ShortJob
  <2> QED BY <1>0, <2>1, <1>l, <1>c DEF SentOK, Filling, Starting, Countdown, ShortJob
<1>4. CASE ReturnQuietly
  <2>1. ~Launched /\ UNCHANGED <<sent, tpc>>
    BY <1>4 DEF ReturnQuietly, Goto, PhaseOK, threadvars
  <2> QED BY <2>1, <1>l DEF SentOK
<1>5. CASE Launch
  <2>1. ~Launched /\ UNCHANGED sent /\ pc' = "initcheck"
    BY <1>5 DEF Launch, Goto, PhaseOK
  <2> QED BY <2>1 DEF SentOK, Starting
<1>6. CASE InitCheck \/ InitWake \/ SpuriousWakeup
  <2>1. pc \in Starting /\ pc' \in Starting /\ UNCHANGED <<sent, tpc>>
    BY <1>6 DEF InitCheck, InitWake, SpuriousWakeup, Loop, Starting, threadvars
  <2> QED BY <2>1, <1>l DEF SentOK
<1>7. CASE UnlockSecond
  <2>1. /\ pc = "unlocksecond" /\ UNCHANGED <<sent, tpc, numreceived, di>> /\ di = 1
        /\ \/ pc' = "unlocksecond"
           \/ pc' = IF terminate THEN "unlockheld" ELSE "recv"
        /\ numreceived < 4 /\ (terminate <=> numreceived < 3)
    BY <1>7 DEF UnlockSecond, Loop, threadvars, PhaseOK, Starting, Draining, ShortJob
  <2> QED BY <1>0, <2>1, <1>l, <1>c DEF SentOK, Filling, Starting, Countdown, ShortJob
<1>8. CASE SendResults
  <2>1. /\ pc = "ssend" /\ pc' = "recv" /\ UNCHANGED <<tpc, numreceived>> /\ Launched
        /\ sent' = Append(sent, results[Here])
    BY <1>8 DEF SendResults, threadvars, PhaseOK
  <2>2. Len(sent') = Len(sent) + 1
    BY <1>0, <2>1
  <2> QED BY <1>0, <2>1, <2>2, <1>l DEF SentOK, Filling, Starting
<1>9. CASE UnlockHeld \/ DrainLock \/ DrainUnlock \/ Join
  <2>1. /\ pc \notin Filling \cup Starting \cup {"ssend"}
        /\ pc' \notin Filling \cup Starting \cup {"ssend"}
        /\ UNCHANGED <<sent, tpc, numreceived, di>>
    BY <1>9 DEF UnlockHeld, DrainLock, DrainUnlock, Join, Loop, threadvars, Filling, Starting
  <2> QED BY <2>1, <1>l, <1>c DEF SentOK
<1>10. CASE DrainSend
  <2>1. /\ pc = "drainsend" /\ pc' \in {"join", "drainlock"} /\ UNCHANGED <<tpc, numreceived>>
        /\ sent' = Append(sent, results[DrainSlot]) /\ di' = di + 1 /\ Launched
    BY <1>10 DEF DrainSend, threadvars, PhaseOK, Draining
  <2>2. Len(sent') = Len(sent) + 1
    BY <1>0, <2>1
  <2>3. Countdown \in Nat
    BY <1>0 DEF Countdown
  <2> QED BY <1>0, <2>1, <2>2, <2>3, <1>l, <1>c DEF SentOK, Filling, Starting
<1> QED BY <1>1, <1>2, <1>3, <1>4, <1>5, <1>6, <1>7, <1>8, <1>9, <1>10 DEF Main

\* A process thread sends nothing.
LEMMA SentThread == ASSUME NEW t \in Threads, ResultInv, Thread(t) PROVE SentOK'
<1>1. /\ UNCHANGED <<di, numreceived, sent>> /\ Launched /\ Launched'
      /\ pc' = pc \/ (pc = "initwait" /\ pc' = "initwake")
  BY ThreadStep DEF ResultInv
<1> QED BY <1>1 DEF ResultInv, DataInv, SentOK, Filling, Starting, Countdown, ShortJob

-------------------------------------------------------------------------------
(* The threads at the end.                                                     *)

\* execute() joins threads when every one is past the last slot it looked at.
LEMMA JoinMain == ResultInv /\ (Main \/ SpuriousWakeup) => JoinOK'
<1> SUFFICES ASSUME ResultInv, Main \/ SpuriousWakeup PROVE JoinOK'
  OBVIOUS
<1> USE ZeroThread DEF ResultInv, DataInv, Inv, TypeInv, RingInv, RECEIVE_RING_LENGTH
<1>0. /\ numreceived \in Nat /\ di \in 1 .. 4 /\ pc \in MainSteps
      /\ mi \in 0 .. NumThreads - 1 /\ Threads = 0 .. NumThreads - 1
      /\ numprocessed \in [Threads -> Nat]
  BY DEF TypeOK, Threads
<1>1. CASE Join
  <2>1. /\ pc = "join" /\ tpc[mi] = "exited" /\ UNCHANGED <<tpc, numprocessed, numreceived>>
        /\ IF mi = NumThreads - 1 THEN pc' = "done" ELSE pc' = "join" /\ mi' = mi + 1
    BY <1>1 DEF Join, Loop, threadvars
  <2> QED BY <1>0, <2>1, NumThreadsAssumption DEF JoinOK
<1>2. CASE DrainSend
  <2>1. /\ pc = "drainsend" /\ UNCHANGED <<tpc, numprocessed, numreceived, mi>> /\ mi = 0
        /\ pc' = IF di = Countdown THEN "join" ELSE "drainlock"
    BY <1>2 DEF DrainSend, threadvars, PhaseOK
  <2>2. ASSUME di = Countdown, NEW t \in Threads PROVE numprocessed[t] = numreceived
    <3>1. /\ numprocessed[t] <= numreceived
          /\ numprocessed[t] + 4 > numreceived + di + Adjust
      BY <2>1 DEF PaceOK, PhaseOK, Draining
    <3> QED BY <1>0, <2>2, <3>1 DEF Countdown, Adjust
  <2> QED BY <1>0, <2>1, <2>2 DEF JoinOK
<1>3. CASE ReturnQuietly
  <2>1. pc' = "done" /\ ~Launched' 
    BY <1>3 DEF ReturnQuietly, Goto, PhaseOK, threadvars, Launched
  <2> QED BY <2>1 DEF JoinOK
<1>4. CASE ~Join /\ ~DrainSend /\ ~ReturnQuietly
  <2>1. pc' \notin {"join", "done"}
    BY <1>4 DEF Main, ReceiveSubint, LockNext, UnlockPrev, ReceiveTerminate,
       Launch, InitCheck, InitWake, UnlockSecond, SendResults, UnlockHeld,
       DrainLock, DrainUnlock, SpuriousWakeup, Goto, Loop
  <2> QED BY <2>1 DEF JoinOK
<1> QED BY <1>1, <1>2, <1>3, <1>4

\* A thread that was joined, or is past the last subintegration, stays so.
LEMMA JoinThread == ASSUME NEW t \in Threads, ResultInv, Thread(t) PROVE JoinOK'
<1> USE DEF ResultInv, DataInv, Inv, TypeInv, RingInv
<1>1. /\ UNCHANGED <<mi, numreceived, terminate>> /\ Launched /\ Launched'
      /\ pc' = pc \/ (pc = "initwait" /\ pc' = "initwake")
      /\ \A u \in Threads : u # t => /\ tpc'[u] = tpc[u]
                                     /\ numprocessed'[u] = numprocessed[u]
  BY ThreadStep
<1>2. tpc[t] # "exited"
  BY DEF Thread, LockEnd, LockFirst, UnlockEnd, SetInitialised, Signal, Check,
         ProcessData, LockNextSlot, UnlockSlot, ChangeConfig, ExitUnlock, FreeSpace, Step
<1>3. pc = "join" => numprocessed'[t] = numreceived
  <2>1. pc = "join" => ~UnlockSlot(t)
    BY DEF UnlockSlot, Step, StopOK, JoinOK, PhaseOK
  <2>2. ~UnlockSlot(t) => UNCHANGED numprocessed
    BY DEF Thread, LockEnd, LockFirst, UnlockEnd, SetInitialised, Signal, Check,
         ProcessData, LockNextSlot, ChangeConfig, ExitUnlock, FreeSpace
  <2> QED BY <2>1, <2>2 DEF JoinOK
<1> QED BY <1>1, <1>2, <1>3 DEF JoinOK

-------------------------------------------------------------------------------
(* What is in the slots.                                                       *)

\* Steps that leave the slots, and what was returned, alone.
LEMMA ContentKeep ==
    ASSUME ContentOK, numreceived \in Nat, numreceived' \in Nat, Len(sent) \in Nat,
           UNCHANGED <<offsets, configindex, results, sent>>,
           \A k \in Nat : Filled(k)' => Filled(k),
           \A t \in Threads, k \in Nat : Added(t, k)' <=> Added(t, k),
           terminate => terminate' /\ numreceived' = numreceived
    PROVE  ContentOK'
<1>1. ASSUME NEW k \in Nat PROVE Share(k)' = Share(k)
  BY <1>1 DEF Share
<1>2. ASSUME NEW k \in Len(sent) .. numreceived', Filled(k)'
      PROVE  offsets[SlotOf(k)] = k /\ configindex[SlotOf(k)] = ConfigOf[k]
  <2>1. Filled(k) /\ k \in Len(sent) .. numreceived
    BY <1>2 DEF Filled
  <2> QED BY <2>1 DEF ContentOK
<1>3. ASSUME NEW k \in Len(sent) .. Len(sent) + RECEIVE_RING_LENGTH - 1,
             terminate' => k <= numreceived'
      PROVE  results[SlotOf(k)] = Share(k)'
  <2>1. k \in Nat /\ (terminate => k <= numreceived)
    BY <1>3 DEF RECEIVE_RING_LENGTH
  <2> QED BY <1>1, <2>1 DEF ContentOK
<1> QED BY <1>2, <1>3 DEF ContentOK

\* A result to which all threads have added is whole.
LEMMA AllAdded ==
    ASSUME NEW k, \A t \in Threads : Added(t, k) PROVE Share(k) = Whole(k)
<1>1. {u \in Threads : Added(u, k)} = Threads
  OBVIOUS
<1> QED BY <1>1 DEF Share, Whole

\* A result to which nobody has added is empty.
LEMMA NoneAdded ==
    ASSUME NEW k, \A t \in Threads : ~Added(t, k) PROVE Share(k) = {}
<1>1. {u \in Threads : Added(u, k)} = {}
  OBVIOUS
<1> QED BY <1>1 DEF Share

\* execute() fills the slot it has reached, whose result is empty.
LEMMA ContentReceive == ResultInv /\ ReceiveSubint => ContentOK'
<1> SUFFICES ASSUME ResultInv, ReceiveSubint PROVE ContentOK'
  OBVIOUS
<1> USE SlotOfType DEF ResultInv, DataInv, Inv, TypeInv
<1>0. /\ Len(sent) \in Nat /\ numreceived \in Nat /\ Len(sent) <= numreceived
      /\ numreceived <= Len(sent) + 3
  BY SentBounds DEF TypeOK, ReceiveSubint
<1>1. /\ pc = "recv" /\ pc' = "locknext" /\ ~terminate
      /\ UNCHANGED <<numreceived, terminate, sent, results, tpc, numprocessed>>
      /\ offsets' = [offsets EXCEPT ![Here] = numreceived]
      /\ configindex' = [configindex EXCEPT ![Here] = ConfigOf[numreceived]]
  BY DEF ReceiveSubint, Goto, threadvars, PhaseOK, Filling
<1>2. ASSUME NEW k \in Len(sent) .. numreceived
      PROVE  offsets'[SlotOf(k)] = k /\ configindex'[SlotOf(k)] = ConfigOf[k]
  <2>0. k \in Nat
    BY <1>0
  <2>1. CASE k = numreceived
    BY <1>0, <1>1, <2>1 DEF TypeOK, Here
  <2>2. CASE k < numreceived
    <3>1. SlotOf(k) # Here
      BY <1>0, <2>0, <2>2, SlotSame DEF Here
    <3>2. Filled(k)
      BY <2>2 DEF Filled
    <3> QED BY <1>0, <1>1, <2>0, <3>1, <3>2 DEF ContentOK, TypeOK
  <2> QED BY <1>0, <2>1, <2>2
<1>3. \A k \in Nat : Share(k)' = Share(k)
  BY <1>1 DEF Share, Added
<1>4. ASSUME NEW k \in Len(sent) .. Len(sent) + RECEIVE_RING_LENGTH - 1
      PROVE  results[SlotOf(k)] = Share(k)'
  BY <1>0, <1>1, <1>3 DEF ContentOK
<1> QED BY <1>1, <1>2, <1>4 DEF ContentOK

\* The main loop sends the oldest result and empties its slot.
LEMMA ContentSend == ResultInv /\ SendResults => ContentOK' /\ ResultsWhole'
<1> SUFFICES ASSUME ResultInv, SendResults PROVE ContentOK' /\ ResultsWhole'
  OBVIOUS
<1> USE SlotOfType DEF ResultInv, DataInv, Inv, TypeInv, RECEIVE_RING_LENGTH
<1>0. /\ Len(sent) \in Nat /\ numreceived \in Nat /\ sent \in Seq(SUBSET Entries)
      /\ numprocessed \in [Threads -> Nat] /\ results \in [Slots -> SUBSET Entries]
  BY DEF TypeOK
<1>1. /\ pc = "ssend" /\ pc' = "recv" /\ ~terminate /\ Launched
      /\ UNCHANGED <<numreceived, terminate, offsets, configindex, tpc, numprocessed>>
      /\ sent' = Append(sent, results[Here])
      /\ results' = [results EXCEPT ![Here] = {}]
  BY DEF SendResults, threadvars, PhaseOK
<1>2. /\ numreceived = Len(sent) + 4 /\ Len(sent') = Len(sent) + 1
      /\ Here = SlotOf(Len(sent)) /\ Here \in Slots
  BY <1>0, <1>1, SlotLap DEF SentOK, Starting, Here
<1>3. results[Here] = Whole(Len(sent))
  <2>1. \A t \in Threads : Added(t, Len(sent))
    BY <1>0, <1>1, <1>2 DEF PaceOK, RingInv, Starting, Added
  <2> QED BY <1>0, <1>1, <1>2, <2>1, AllAdded DEF ContentOK
<1>4. \A k \in Nat : Share(k)' = Share(k)
  BY <1>1 DEF Share, Added
<1>5. ASSUME NEW k \in Len(sent') .. numreceived', Filled(k)'
      PROVE  offsets'[SlotOf(k)] = k /\ configindex'[SlotOf(k)] = ConfigOf[k]
  <2>1. k \in Len(sent) .. numreceived /\ Filled(k)
    BY <1>0, <1>1, <1>2, <1>5 DEF Filled
  <2> QED BY <1>1, <2>1 DEF ContentOK
<1>6. ASSUME NEW k \in Len(sent') .. Len(sent') + 4 - 1
      PROVE  results'[SlotOf(k)] = Share(k)'
  <2>1. CASE k = numreceived
    <3>1. \A t \in Threads : ~Added(t, k)
      BY <1>0, <1>1, <2>1, NothingAdded DEF Filled
    <3> QED BY <1>0, <1>1, <1>2, <1>4, <2>1, <3>1, NoneAdded DEF Here
  <2>2. CASE k < numreceived
    <3>1. k \in Nat /\ k \in Len(sent) .. Len(sent) + 3 /\ SlotOf(k) # Here
      BY <1>0, <1>2, <2>2, SlotSame
    <3> QED BY <1>0, <1>1, <1>4, <3>1 DEF ContentOK
  <2> QED BY <1>0, <1>2, <2>1, <2>2
<1>7. ResultsWhole'
  BY <1>0, <1>1, <1>2, <1>3 DEF ResultsWhole, Whole
<1> QED BY <1>1, <1>5, <1>6, <1>7 DEF ContentOK

\* At the end, execute() sends the results that are left, the oldest first.
LEMMA ContentDrain == ResultInv /\ DrainSend => ContentOK' /\ ResultsWhole'
<1> SUFFICES ASSUME ResultInv, DrainSend PROVE ContentOK' /\ ResultsWhole'
  OBVIOUS
<1> USE SlotOfType DEF ResultInv, DataInv, Inv, TypeInv, RECEIVE_RING_LENGTH
<1>0. /\ Len(sent) \in Nat /\ numreceived \in Nat /\ sent \in Seq(SUBSET Entries)
      /\ numprocessed \in [Threads -> Nat] /\ di \in 1 .. 4
      /\ Len(sent) <= numreceived /\ numreceived <= Len(sent) + 3
  BY SentBounds DEF TypeOK, DrainSend
<1>1. /\ pc = "drainsend" /\ pc' \in {"join", "drainlock"} /\ terminate /\ Launched
      /\ UNCHANGED <<numreceived, terminate, offsets, configindex, results, tpc, numprocessed>>
      /\ sent' = Append(sent, results[DrainSlot])
  BY DEF DrainSend, threadvars, slotvars, PhaseOK, Draining
<1>2. /\ numreceived + di + Adjust = Len(sent) + 4 /\ Len(sent') = Len(sent) + 1
      /\ DrainSlot = SlotOf(Len(sent)) /\ Len(sent) < numreceived
  <2>1. Len(sent) = numreceived - Countdown + di - 1 /\ di <= Countdown
    BY <1>1 DEF SentOK, Starting, Filling, PhaseOK, Draining
  <2>2. numreceived + di + Adjust = Len(sent) + 4 /\ Len(sent) < numreceived
    BY <1>0, <2>1 DEF Countdown, Adjust
  <2>3. Len(sent') = Len(sent) + 1
    BY <1>0, <1>1
  <2> QED BY <1>0, <2>2, <2>3, SlotLap DEF DrainSlot
<1>3. results[DrainSlot] = Whole(Len(sent))
  <2>1. \A t \in Threads : Added(t, Len(sent))
    BY <1>0, <1>1, <1>2 DEF PaceOK, RingInv, Draining, Added
  <2> QED BY <1>0, <1>1, <1>2, <2>1, AllAdded DEF ContentOK
<1>4. \A k \in Nat : Share(k)' = Share(k)
  BY <1>1 DEF Share, Added
<1>5. ASSUME NEW k \in Len(sent') .. numreceived', Filled(k)'
      PROVE  offsets'[SlotOf(k)] = k /\ configindex'[SlotOf(k)] = ConfigOf[k]
  <2>1. k \in Len(sent) .. numreceived /\ Filled(k)
    BY <1>0, <1>1, <1>2, <1>5 DEF Filled
  <2> QED BY <1>1, <2>1 DEF ContentOK
<1>6. ASSUME NEW k \in Len(sent') .. Len(sent') + 4 - 1, k <= numreceived
      PROVE  results'[SlotOf(k)] = Share(k)'
  BY <1>0, <1>1, <1>2, <1>4, <1>6 DEF ContentOK
<1>7. ResultsWhole'
  <2>1. sent' = Append(sent, Whole(Len(sent)))
    BY <1>1, <1>3
  <2>2. sent'[Len(sent) + 1] = Whole(Len(sent)) /\ \A k \in 1 .. Len(sent) : sent'[k] = sent[k]
    BY <1>0, <2>1
  <2>3. \A k \in 1 .. Len(sent') : k # Len(sent) + 1 => k \in 1 .. Len(sent)
    BY <1>0, <1>2
  <2>4. Len(sent) + 1 - 1 = Len(sent)
    BY <1>0
  <2>5. \A k \in 1 .. Len(sent') : sent'[k] = Whole(k - 1)
    BY <2>2, <2>3, <2>4 DEF ResultsWhole
  <2> QED BY <2>5 DEF ResultsWhole, Whole
<1> QED BY <1>1, <1>5, <1>6, <1>7 DEF ContentOK

\* Where the main thread counts a subintegration it has been received before.
LEMMA FilledMain ==
    ASSUME Inv, Main \/ SpuriousWakeup, ~ReceiveSubint, NEW k \in Nat
    PROVE  Filled(k)' <=> Filled(k)
<1>0. numreceived \in Nat /\ pc \in MainSteps
  BY DEF Inv, TypeInv, TypeOK
<1>1. CASE LockNext
  <2>1. /\ pc = "locknext" /\ pc' \in {"locknext", "unlockprev"} /\ UNCHANGED numreceived
    BY <1>1 DEF LockNext, Loop
  <2> QED BY <2>1 DEF Filled
<1>2. CASE UnlockPrev
  <2>1. /\ pc = "unlockprev"
        /\ \/ pc' = "unlockprev" /\ UNCHANGED numreceived
           \/ numreceived' = numreceived + 1 /\ pc' \in {"ssend", "recv", "launch"}
    BY <1>2 DEF UnlockPrev
  <2> QED BY <1>0, <2>1 DEF Filled
<1>3. CASE ~LockNext /\ ~UnlockPrev
  <2>1. /\ UNCHANGED numreceived
        /\ pc \notin {"locknext", "unlockprev"} /\ pc' \notin {"locknext", "unlockprev"}
    BY <1>3 DEF Main, ReceiveTerminate, ReturnQuietly, Launch, InitCheck, InitWake,
       UnlockSecond, SendResults, UnlockHeld, DrainLock, DrainUnlock, DrainSend, Join,
       SpuriousWakeup, Goto, Loop
  <2> QED BY <2>1 DEF Filled
<1> QED BY <1>1, <1>2, <1>3

\* Creating the threads adds nothing to a result.
LEMMA AddedMain ==
    ASSUME Inv, Main \/ SpuriousWakeup, NEW t \in Threads, NEW k \in Nat
    PROVE  Added(t, k)' <=> Added(t, k)
<1>1. CASE Launch
  <2>1. /\ numprocessed' = numprocessed /\ tpc' = [u \in Threads |-> "lockend"]
        /\ tpc[t] = "none"
    BY <1>1 DEF Launch, Inv, TypeInv, PhaseOK
  <2> QED BY <2>1 DEF Added
<1>2. CASE ~Launch
  BY <1>2, MainLeavesThreads DEF Added, threadvars
<1> QED BY <1>1, <1>2

\* Every step of execute() keeps the slots and the results in order.
LEMMA ContentMain == ResultInv /\ (Main \/ SpuriousWakeup) => ContentOK' /\ ResultsWhole'
<1> SUFFICES ASSUME ResultInv, Main \/ SpuriousWakeup PROVE ContentOK' /\ ResultsWhole'
  OBVIOUS
<1> USE DEF ResultInv, DataInv
<1>0. Len(sent) \in Nat /\ numreceived \in Nat
  BY DEF Inv, TypeInv, TypeOK
<1>1. CASE ReceiveSubint
  <2>1. UNCHANGED sent
    BY <1>1 DEF ReceiveSubint, Goto
  <2> QED BY <1>1, <2>1, ContentReceive DEF ResultsWhole, Whole
<1>2. CASE SendResults
  BY <1>2, ContentSend
<1>3. CASE DrainSend
  BY <1>3, ContentDrain
<1>4. CASE ~ReceiveSubint /\ ~SendResults /\ ~DrainSend
  <2>1. UNCHANGED <<offsets, configindex, results, sent>>
    BY <1>4 DEF Main, LockNext, UnlockPrev, ReceiveTerminate, ReturnQuietly, Launch,
       InitCheck, InitWake, UnlockSecond, UnlockHeld, DrainLock, DrainUnlock, Join,
       SpuriousWakeup, Goto, Loop, slotvars
  <2>2. /\ numreceived' \in Nat
        /\ terminate => terminate' /\ numreceived' = numreceived
    BY <1>0, <1>4 DEF Main, LockNext, UnlockPrev, ReceiveTerminate, ReturnQuietly, Launch,
       InitCheck, InitWake, UnlockSecond, UnlockHeld, DrainLock, DrainUnlock, Join,
       SpuriousWakeup, Goto, Loop, Inv, TypeInv, PhaseOK, Filling
  <2>3. ContentOK'
    BY <1>0, <1>4, <2>1, <2>2, FilledMain, AddedMain, ContentKeep
  <2> QED BY <2>1, <2>3 DEF ResultsWhole, Whole
<1> QED BY <1>1, <1>2, <1>3, <1>4

\* processdata adds the thread's share, made with the data and the configuration
\* of its subintegration, to the result of that subintegration and no other.
LEMMA ContentProcess ==
    ASSUME NEW t \in Threads, ResultInv, ProcessData(t) PROVE ContentOK'
<1> USE SlotOfType DEF ResultInv, DataInv, Inv, TypeInv
<1>0. /\ Len(sent) \in Nat /\ numreceived \in Nat /\ numprocessed \in [Threads -> Nat]
      /\ tpc \in [Threads -> ThreadSteps] /\ results \in [Slots -> SUBSET Entries]
      /\ Len(sent) <= numreceived /\ numreceived <= Len(sent) + 4
      /\ pc # "ssend" => numreceived <= Len(sent) + 3
  BY SentBounds DEF TypeOK
<1>l. Launched /\ UNCHANGED <<pc, numreceived, terminate, sent, offsets, configindex, numprocessed>>
  <2>1. Thread(t)
    BY DEF Thread
  <2> QED BY <2>1, ThreadStep DEF ProcessData, mainvars
<1>n. PICK n \in Nat : n = numprocessed[t]
  BY <1>0
<1>1. /\ tpc[t] = "process" /\ tpc' = [tpc EXCEPT ![t] = "locknextslot"]
      /\ results' = [results EXCEPT ![At(t)] = @ \cup
                        {<<n, t, offsets[At(t)], lastconfigindex[t]>>}]
  BY <1>n DEF ProcessData, Step
<1>2. Filled(n) /\ n \in Nat /\ n \in Len(sent) .. numreceived /\ At(t) = SlotOf(n)
  <2>1. n # numreceived \/ ~terminate
    BY <1>n, <1>1 DEF RingInv, StopOK
  <2>2. n <= numreceived
    BY <1>n, <1>l DEF RingInv, PaceOK
  <2> QED BY <1>n, <1>0, <1>l, <2>1, <2>2, DataThere, NotReturned DEF At
<1>3. <<n, t, offsets[At(t)], lastconfigindex[t]>> = <<n, t, n, ConfigOf[n]>>
  BY <1>n, <1>1, <1>2, <1>l DEF ContentOK, SetupOK
<1>4. \A u \in Threads, k \in Nat : Added(u, k)' <=> (Added(u, k) \/ (u = t /\ k = n))
  BY <1>n, <1>0, <1>1, <1>l DEF Added
<1>5. ASSUME NEW k \in Nat, k # n PROVE Share(k)' = Share(k)
  BY <1>4, <1>5 DEF Share
<1>6. Share(n)' = Share(n) \cup {<<n, t, n, ConfigOf[n]>>}
  BY <1>2, <1>4 DEF Share
<1>7. ASSUME NEW k \in Len(sent) .. Len(sent) + RECEIVE_RING_LENGTH - 1,
             terminate => k <= numreceived
      PROVE  results'[SlotOf(k)] = Share(k)'
  <2>0. k \in Nat /\ n < k + 4 /\ k < n + 4 /\ results[SlotOf(k)] = Share(k)
    <3>1. n <= Len(sent) + 3
      <4>1. pc = "ssend" => n < numreceived
        BY <1>n, <1>l DEF RingInv, PaceOK
      <4> QED BY <1>0, <1>2, <4>1
    <3> QED BY <1>0, <1>2, <1>7, <3>1 DEF ContentOK, RECEIVE_RING_LENGTH
  <2>1. CASE k = n
    BY <1>0, <1>1, <1>2, <1>3, <1>6, <2>0, <2>1
  <2>2. CASE k # n
    <3>1. SlotOf(k) # At(t)
      BY <1>2, <2>0, <2>2, SlotSame
    <3> QED BY <1>0, <1>1, <1>5, <2>0, <2>2, <3>1
  <2> QED BY <2>1, <2>2
<1>8. \A k \in Nat : Filled(k)' <=> Filled(k)
  BY <1>l DEF Filled
<1> QED BY <1>0, <1>l, <1>7, <1>8 DEF ContentOK

\* The other steps of a thread leave the slots alone.
LEMMA ContentThread ==
    ASSUME NEW t \in Threads, ResultInv, Thread(t) PROVE ContentOK' /\ ResultsWhole'
<1> USE DEF ResultInv, DataInv
<1>0. Len(sent) \in Nat /\ numreceived \in Nat /\ numprocessed \in [Threads -> Nat]
  BY DEF Inv, TypeInv, TypeOK
<1>1. /\ UNCHANGED <<numreceived, terminate, sent, offsets, configindex>>
      /\ pc' = pc \/ (pc = "initwait" /\ pc' = "initwake")
      /\ \A u \in Threads : u # t => /\ tpc'[u] = tpc[u]
                                     /\ numprocessed'[u] = numprocessed[u]
  BY ThreadStep
<1>2. ResultsWhole'
  BY <1>1 DEF ResultsWhole, Whole
<1>3. CASE ProcessData(t)
  BY <1>2, <1>3, ContentProcess
<1>4. CASE ~ProcessData(t)
  <2>1. UNCHANGED results
    BY <1>4 DEF Thread, LockEnd, LockFirst, UnlockEnd, SetInitialised, Signal, Check,
         LockNextSlot, UnlockSlot, ChangeConfig, ExitUnlock, FreeSpace, slotvars
  <2>2. \A k \in Nat : Added(t, k)' <=> Added(t, k)
    <3>1. CASE UnlockSlot(t)
      <4>1. /\ tpc[t] = "unlockslot" /\ tpc'[t] = "config"
            /\ numprocessed'[t] = numprocessed[t] + 1
        BY <1>0, <3>1 DEF UnlockSlot, Step, Inv, TypeInv, TypeOK
      <4> QED BY <1>0, <4>1 DEF Added
    <3>2. CASE ~UnlockSlot(t)
      <4>1. UNCHANGED numprocessed
        BY <1>4, <3>2 DEF Thread, LockEnd, LockFirst, UnlockEnd, SetInitialised, Signal,
           Check, LockNextSlot, ChangeConfig, ExitUnlock, FreeSpace
      <4>2. tpc[t] \in {"locknextslot", "unlockslot"} <=> tpc'[t] \in {"locknextslot", "unlockslot"}
        BY <1>4, <3>2 DEF Thread, LockEnd, LockFirst, UnlockEnd, SetInitialised, Signal,
           Check, LockNextSlot, ChangeConfig, ExitUnlock, FreeSpace, Step, Inv, TypeInv, TypeOK
      <4> QED BY <4>1, <4>2 DEF Added
    <3> QED BY <3>1, <3>2
  <2>3. \A u \in Threads, k \in Nat : Added(u, k)' <=> Added(u, k)
    BY <1>1, <2>2 DEF Added
  <2>4. \A k \in Nat : Filled(k)' <=> Filled(k)
    BY <1>1 DEF Filled
  <2> QED BY <1>0, <1>1, <1>2, <2>1, <2>3, <2>4, ContentKeep
<1> QED BY <1>3, <1>4

-------------------------------------------------------------------------------
(* The configuration of a process thread.                                      *)

\* execute() creates threads with the configuration of the first slot, and fills
\* no slot that a thread is in.
LEMMA SetupMain == ResultInv /\ (Main \/ SpuriousWakeup) => SetupOK'
<1> SUFFICES ASSUME ResultInv, Main \/ SpuriousWakeup, NEW t \in Threads,
                    Launched', tpc'[t] # "config", Filled(numprocessed[t])'
             PROVE  lastconfigindex'[t] = ConfigOf[numprocessed'[t]]
  BY DEF SetupOK
<1> USE DEF ResultInv, DataInv, Inv, TypeInv, RingInv
<1>0. numreceived \in Nat /\ numprocessed[t] \in Nat /\ Len(sent) \in Nat
  BY DEF TypeOK
<1>1. CASE Launch
  <2>1. /\ lastconfigindex'[t] = configindex[0] /\ numprocessed'[t] = numprocessed[t]
        /\ numprocessed[t] = 0 /\ ~Launched /\ numreceived > 0
    BY <1>1 DEF Launch, PhaseOK, StartOK
  <2>2. Len(sent) = 0 /\ Filled(0) /\ SlotOf(0) = 0
    BY <1>0, <2>1, SlotSmall DEF SentOK, Filled
  <2> QED BY <1>0, <2>1, <2>2 DEF ContentOK
<1>2. CASE ~Launch
  <2>1. /\ UNCHANGED <<tpc, numprocessed, lastconfigindex>> /\ Launched
    BY <1>2, MainLeavesThreads DEF threadvars, Launched
  <2>2. Filled(numprocessed[t])
    <3>1. CASE ReceiveSubint
      BY <1>0, <2>1, <3>1 DEF ReceiveSubint, PaceOK, Filled
    <3>2. CASE ~ReceiveSubint
      <4>1. \A k \in Nat : Filled(k)' <=> Filled(k)
        BY <3>2, FilledMain
      <4> QED BY <1>0, <2>1, <4>1 DEF Filled
    <3> QED BY <3>1, <3>2
  <2> QED BY <2>1, <2>2 DEF SetupOK
<1> QED BY <1>1, <1>2

\* A process thread changes to the configuration of the slot it comes to.
LEMMA SetupThread == ASSUME NEW t \in Threads, ResultInv, Thread(t) PROVE SetupOK'
<1> USE DEF ResultInv, DataInv, Inv, TypeInv, RingInv
<1>0. /\ numreceived \in Nat /\ numprocessed \in [Threads -> Nat] /\ Len(sent) \in Nat
      /\ tpc \in [Threads -> ThreadSteps] /\ lastconfigindex \in [Threads -> Configs]
  BY DEF TypeOK
<1>1. /\ UNCHANGED <<numreceived, terminate, sent, configindex>> /\ Launched
      /\ pc' = pc \/ (pc = "initwait" /\ pc' = "initwake")
      /\ \A u \in Threads : u # t => /\ tpc'[u] = tpc[u]
                                     /\ numprocessed'[u] = numprocessed[u]
                                     /\ lastconfigindex'[u] = lastconfigindex[u]
  BY ThreadStep
<1>2. \A k \in Nat : Filled(k)' <=> Filled(k)
  BY <1>1 DEF Filled
<1>3. ASSUME tpc'[t] # "config", Filled(numprocessed[t])'
      PROVE  lastconfigindex'[t] = ConfigOf[numprocessed'[t]]
  <2>1. CASE ChangeConfig(t)
    <3>1. /\ lastconfigindex'[t] = configindex[At(t)] /\ numprocessed' = numprocessed
      BY <1>0, <2>1 DEF ChangeConfig
    <3>2. Filled(numprocessed[t]) /\ numprocessed[t] >= Len(sent)
      BY <1>0, <1>1, <1>2, <1>3, <3>1, NotReturned DEF Filled
    <3>3. numprocessed[t] \in Len(sent) .. numreceived
      BY <1>0, <3>2 DEF Filled
    <3> QED BY <3>1, <3>2, <3>3 DEF ContentOK, At
  <2>2. CASE ~ChangeConfig(t)
    <3>1. ~UnlockSlot(t)
      BY <1>0, <1>3 DEF UnlockSlot, Step
    <3>2. tpc[t] # "config" /\ UNCHANGED <<numprocessed, lastconfigindex>>
      BY <2>2, <3>1 DEF Thread, LockEnd, LockFirst, UnlockEnd, SetInitialised, Signal, Check,
         ProcessData, LockNextSlot, ExitUnlock, FreeSpace, Step
    <3>3. Filled(numprocessed[t])
      BY <1>0, <1>1, <1>3, <3>2 DEF Filled
    <3> QED BY <1>1, <3>2, <3>3 DEF SetupOK
  <2> QED BY <2>1, <2>2
<1>4. ASSUME NEW u \in Threads, u # t, tpc'[u] # "config", Filled(numprocessed[u])'
      PROVE  lastconfigindex'[u] = ConfigOf[numprocessed'[u]]
  <2>1. Filled(numprocessed[u])
    BY <1>0, <1>1, <1>4 DEF Filled
  <2> QED BY <1>1, <1>4, <2>1 DEF SetupOK
<1> QED BY <1>3, <1>4 DEF SetupOK

-------------------------------------------------------------------------------
(* The inductive invariant and what follows from it.                           *)

\* The constructor leaves the slots empty.
LEMMA ResultInit == Init => ResultInv
<1> SUFFICES ASSUME Init PROVE ResultInv
  OBVIOUS
<1>1. Inv
  BY TypeInit, RingInit DEF Inv
<1>2. ~Launched /\ sent = <<>> /\ Len(sent) = 0 /\ numreceived = 0 /\ pc = "recv"
  BY ZeroThread DEF Init, Launched
<1>3. SentOK /\ SetupOK /\ JoinOK /\ ResultsWhole
  BY <1>2 DEF SentOK, SetupOK, JoinOK, ResultsWhole
<1>4. ContentOK
  <2>1. \A k \in Nat : ~Filled(k)
    BY <1>2 DEF Filled
  <2>2. \A k \in Nat : Share(k) = {}
    BY NoneAdded DEF Init, Added
  <2>3. \A k \in 0 .. 0 + RECEIVE_RING_LENGTH - 1 : results[SlotOf(k)] = {}
    BY SlotOfType DEF Init, RECEIVE_RING_LENGTH
  <2>4. ASSUME NEW k \in Len(sent) .. numreceived PROVE ~Filled(k)
    BY <1>2, <2>1, <2>4
  <2>5. ASSUME NEW k \in Len(sent) .. Len(sent) + RECEIVE_RING_LENGTH - 1
        PROVE  results[SlotOf(k)] = Share(k)
    <3>1. k \in Nat /\ k \in 0 .. 0 + RECEIVE_RING_LENGTH - 1
      BY <1>2 DEF RECEIVE_RING_LENGTH
    <3> QED BY <2>2, <2>3, <3>1
  <2> QED BY <2>4, <2>5 DEF ContentOK
<1> QED BY <1>1, <1>3, <1>4 DEF ResultInv, DataInv

\* The invariant is inductive.
LEMMA ResultNext == ResultInv /\ [Next]_vars => ResultInv'
<1> SUFFICES ASSUME ResultInv, [Next]_vars PROVE ResultInv'
  OBVIOUS
<1>0. Inv'
  BY RingNext DEF ResultInv
<1>1. CASE Main \/ SpuriousWakeup
  BY <1>0, <1>1, SentMain, JoinMain, ContentMain, SetupMain DEF ResultInv, DataInv
<1>2. ASSUME NEW t \in Threads, Thread(t) PROVE ResultInv'
  <2>1. DataInv'
    BY <1>2, SentThread, JoinThread, ContentThread, SetupThread DEF DataInv
  <2> QED BY <1>0, <2>1 DEF ResultInv
<1>3. CASE UNCHANGED vars
  <2> USE <1>3 DEF vars, mainvars, slotvars, threadvars, ResultInv, DataInv
  <2>1. SentOK' /\ JoinOK' /\ ResultsWhole'
    BY DEF SentOK, JoinOK, ResultsWhole, Whole, Launched, Countdown, ShortJob
  <2>2. SetupOK'
    BY DEF SetupOK, Filled, Launched
  <2>3. ContentOK'
    BY DEF ContentOK, Filled, Share, Added
  <2> QED BY <1>0, <2>1, <2>2, <2>3
<1> QED BY <1>1, <1>2, <1>3 DEF Next, Finished

\* What a Core returns is the whole result of each subintegration, made of the
\* share of every process thread and nothing else, in the order of dispatch.
THEOREM ResultsAreWhole == Spec => []ResultsWhole
<1>1. ResultInv => ResultsWhole
  BY DEF ResultInv, DataInv
<1> QED BY <1>1, ResultInit, ResultNext, PTL DEF Spec

\* When execute() returns, it has returned as many results as it has received
\* subintegrations, every thread has ended and no mutex of the ring is held.
THEOREM ExitIsClean == Spec => []CleanExit
<1>1. ResultInv => CleanExit
  <2> SUFFICES ASSUME ResultInv, pc = "done" PROVE CleanExit!2
    BY DEF CleanExit
  <2> USE DEF ResultInv, DataInv, Inv, TypeInv, RingInv
  <2>0. numreceived \in Nat /\ tpc \in [Threads -> ThreadSteps]
        /\ owner \in [Slots -> [Threads -> {"free", "main", "thread"}]]
    BY DEF TypeOK
  <2>1. Len(sent) = numreceived
    <3>1. CASE ~Launched
      BY <2>0, <3>1 DEF SentOK, PhaseOK
    <3>2. CASE Launched
      BY <2>0, <3>2 DEF SentOK, PhaseOK, Filling, Starting, Countdown, RECEIVE_RING_LENGTH
    <3> QED BY <3>1, <3>2
  <2>2. \A t \in Threads : tpc[t] \in {"none", "exited"}
    BY DEF JoinOK, PhaseOK
  <2>3. ASSUME NEW s \in Slots, NEW t \in Threads PROVE Free(s, t)
    <3>1. ~MainHolds(s, t)
      BY DEF MainHolds
    <3>2. ~ThreadHolds(s, t)
      BY <2>2 DEF ThreadHolds, Holding
    <3> QED BY <2>0, <3>1, <3>2 DEF LockOK, Free
  <2> QED BY <2>1, <2>2, <2>3
<1> QED BY <1>1, ResultInit, ResultNext, PTL DEF Spec

-------------------------------------------------------------------------------
(* Refinement.                                                                 *)

\* Every step of execute() is a step of CoreSpec or changes nothing it knows of.
LEMMA MainRefines ==
    ResultInv /\ ResultInv' /\ (Main \/ SpuriousWakeup) => [Abstract!Next]_(Abstract!vars)
<1> SUFFICES ASSUME ResultInv, ResultInv', Main \/ SpuriousWakeup
             PROVE  [Abstract!Next]_(Abstract!vars)
  OBVIOUS
<1> USE DEF ResultInv, DataInv, Inv, TypeInv
<1>0. /\ sent \in Seq(SUBSET Entries) /\ Len(sent) \in Nat /\ numreceived \in Nat
      /\ Len(sent) <= numreceived /\ (pc # "ssend" => numreceived <= Len(sent) + 3)
  BY SentBounds DEF TypeOK
<1>1. CASE UnlockPrev
  <2>1. /\ UNCHANGED <<sent, terminate>> /\ ~terminate /\ pc = "unlockprev"
        /\ numreceived' \in {numreceived, numreceived + 1} /\ numreceived < MaxSubints
    BY <1>1 DEF UnlockPrev, PhaseOK, Filling
  <2> QED BY <1>0, <2>1 DEF Abstract!Next, Abstract!Receive, Abstract!vars,
                            Abstract!RECEIVE_RING_LENGTH
<1>2. CASE ReceiveTerminate
  <2>1. ~terminate /\ terminate' = TRUE /\ UNCHANGED <<sent, numreceived>>
    BY <1>2 DEF ReceiveTerminate, PhaseOK, Filling
  <2> QED BY <2>1 DEF Abstract!Next, Abstract!Stop
<1>3. CASE SendResults \/ DrainSend
  <2>1. PICK r : sent' = Append(sent, r) /\ UNCHANGED <<numreceived, terminate>>
    BY <1>3 DEF SendResults, DrainSend
  <2>2. Len(sent') = Len(sent) + 1 /\ sent'[Len(sent) + 1] = r
    <3>1. sent' \in Seq(SUBSET Entries)
      BY DEF TypeOK
    <3> QED BY <1>0, <2>1
  <2>3. r = Whole(Len(sent))
    BY <1>0, <2>2 DEF ResultsWhole, Whole
  <2>4. Len(sent) < numreceived
    <3>1. CASE SendResults
      <4>1. pc = "ssend" /\ Launched /\ ~(pc \in Starting)
        BY <3>1 DEF SendResults, PhaseOK, Starting
      <4>2. Len(sent) = numreceived - RECEIVE_RING_LENGTH
        BY <4>1 DEF SentOK
      <4> QED BY <1>0, <4>2 DEF RECEIVE_RING_LENGTH
    <3>2. CASE DrainSend
      <4>1. /\ Len(sent) = numreceived - Countdown + di - 1 /\ di <= Countdown
            /\ di \in 1 .. 4
        BY <3>2 DEF DrainSend, SentOK, Starting, Filling, PhaseOK, Draining, TypeOK,
                    RECEIVE_RING_LENGTH
      <4> QED BY <1>0, <4>1 DEF Countdown, RECEIVE_RING_LENGTH
    <3> QED BY <1>3, <3>1, <3>2
  <2> QED BY <2>1, <2>3, <2>4 DEF Abstract!Next, Abstract!Return, Abstract!Whole,
                                  Abstract!Contribution, Whole
<1>4. CASE ~UnlockPrev /\ ~ReceiveTerminate /\ ~SendResults /\ ~DrainSend
  <2>1. UNCHANGED <<numreceived, sent, terminate>>
    BY <1>4 DEF Main, ReceiveSubint, LockNext, ReturnQuietly, Launch,
       InitCheck, InitWake, UnlockSecond, UnlockHeld, DrainLock, DrainUnlock, Join,
       SpuriousWakeup, Goto, Loop
  <2> QED BY <2>1 DEF Abstract!vars
<1> QED BY <1>1, <1>2, <1>3, <1>4

\* The ring of slots, with its threads and mutexes, is a Core as the FxManager
\* sees it: it takes subintegrations while it has room and returns the whole
\* result of each, once and in order.
THEOREM RingImplementsCore == Spec => ImplementsCore
<1>1. Init => Abstract!Init
  BY DEF Init, Abstract!Init
<1>2. ResultInv /\ ResultInv' /\ [Next]_vars => [Abstract!Next]_(Abstract!vars)
  <2> SUFFICES ASSUME ResultInv, ResultInv', [Next]_vars PROVE [Abstract!Next]_(Abstract!vars)
    OBVIOUS
  <2>1. CASE Main \/ SpuriousWakeup
    BY <2>1, MainRefines
  <2>2. ASSUME NEW t \in Threads, Thread(t) PROVE UNCHANGED Abstract!vars
    <3>1. UNCHANGED <<numreceived, sent, terminate>>
      BY <2>2, ThreadStep DEF ResultInv
    <3> QED BY <3>1 DEF Abstract!vars
  <2>3. CASE UNCHANGED vars
    BY <2>3 DEF vars, mainvars, Abstract!vars
  <2> QED BY <2>1, <2>2, <2>3 DEF Next, Finished
<1> QED BY <1>1, <1>2, ResultInit, ResultNext, PTL DEF Spec, ImplementsCore, Abstract!Safety
===============================================================================
