------------------------------- MODULE CoreRing -------------------------------
(* The Core of mpifxcorr (core.cpp): a main thread that receives              *)
(* subintegrations into a ring of processing slots and returns the results,   *)
(* and a number of process threads that follow it round the ring.  They are   *)
(* kept apart by one mutex per slot and thread, passed hand over hand.        *)
EXTENDS Integers, Sequences

CONSTANTS
    NumThreads,     \* numprocessthreads of this Core
    MaxSubints,     \* bound: subintegrations the manager may dispatch to it
    ConfigOf,       \* getScanConfigIndex of the scan of each subintegration
    Configs,        \* configuration indices
    Spurious        \* whether pthread_cond_wait may return without a signal

ASSUME NumThreadsAssumption == NumThreads \in Nat \ {0}
ASSUME MaxSubintsAssumption == MaxSubints \in Nat
ASSUME ConfigAssumption == /\ 0 \in Configs
                           /\ ConfigOf \in [0 .. MaxSubints - 1 -> Configs]
ASSUME SpuriousAssumption == Spurious \in BOOLEAN

Threads == 0 .. NumThreads - 1
RECEIVE_RING_LENGTH == 4
Slots == 0 .. RECEIVE_RING_LENGTH - 1

VARIABLES
    pc,             \* where execute() of the main thread is
    mi,             \* the main thread's loop variable over the threads
    di,             \* the main thread's loop variable over the final results
    numreceived,    \* subintegrations received
    terminate,      \* CR_TERMINATE has been received
    owner,          \* slotlocks: who holds the mutex of a slot and a thread
    offsets,        \* the subintegration a slot was last filled with
    configindex,    \* the configuration a slot is set up for
    keepprocessing, \* FALSE in the slot where the threads must stop
    results,        \* the contributions accumulated in a slot since it was zeroed
    tpc,            \* where loopprocess() of each process thread is
    numprocessed,   \* passes of each process thread
    lastconfigindex,\* the configuration each process thread is set up for
    initialised,    \* processthreadinitialised
    freedconfig,    \* configuration a thread released its pulsar space with
    sent            \* the results sent to the manager, in order

mainvars == <<pc, mi, di, numreceived, terminate, sent>>
slotvars == <<offsets, configindex, keepprocessing, results>>
threadvars == <<tpc, numprocessed, lastconfigindex, initialised, freedconfig>>
vars == <<mainvars, slotvars, threadvars, owner>>

None == -1       \* no configuration

\* The slot that holds the k-th subintegration.
SlotOf(k) == k % RECEIVE_RING_LENGTH

Here == SlotOf(numreceived)
Ahead == SlotOf(numreceived + 1)

\* A job so short that the ring was never filled.
ShortJob == numreceived < RECEIVE_RING_LENGTH - 1

-------------------------------------------------------------------------------
(* Mutexes *)

Free(s, t) == owner[s][t] = "free"
Take(s, t, who) == owner' = [owner EXCEPT ![s][t] = who]
Release(s, t) == owner' = [owner EXCEPT ![s][t] = "free"]

-------------------------------------------------------------------------------
(* The main thread.  Initially the constructor has run and the main thread   *)
(* holds the first slot for every thread.                                    *)

Init ==
    /\ pc = "recv" /\ mi = 0 /\ di = 1
    /\ numreceived = 0 /\ terminate = FALSE
    /\ owner = [s \in Slots |-> [t \in Threads |-> IF s = 0 THEN "main" ELSE "free"]]
    /\ offsets = [s \in Slots |-> 0]
    /\ configindex = [s \in Slots |-> 0]
    /\ keepprocessing = [s \in Slots |-> TRUE]
    /\ results = [s \in Slots |-> {}]
    /\ tpc = [t \in Threads |-> "none"]
    /\ numprocessed = [t \in Threads |-> 0]
    /\ lastconfigindex = [t \in Threads |-> 0]
    /\ initialised = [t \in Threads |-> FALSE]
    /\ freedconfig = [t \in Threads |-> None]
    /\ sent = <<>>

Goto(to) == pc' = to /\ mi' = 0 /\ UNCHANGED <<di, numreceived, terminate, sent>>

\* One round of a loop over the threads that leaves for `to` after the last.
Loop(to) == /\ IF mi = NumThreads - 1
               THEN pc' = to /\ mi' = 0
               ELSE pc' = pc /\ mi' = mi + 1
            /\ UNCHANGED <<di, numreceived, terminate, sent>>

\* receivedata: the manager's message names the subintegration; its data then
\* arrives from every datastream.  The slot takes the scan's configuration.
ReceiveSubint ==
    /\ pc = "recv"
    /\ numreceived < MaxSubints
    /\ offsets' = [offsets EXCEPT ![Here] = numreceived]
    /\ configindex' = [configindex EXCEPT ![Here] = ConfigOf[numreceived]]
    /\ Goto("locknext")
    /\ UNCHANGED <<keepprocessing, results, threadvars, owner>>

\* receivedata: lock the next slot for every thread ...
LockNext ==
    /\ pc = "locknext"
    /\ Free(Ahead, mi)
    /\ Take(Ahead, mi, "main")
    /\ Loop("unlockprev")
    /\ UNCHANGED <<slotvars, threadvars>>

Launched == tpc[0] # "none"

\* ... and unlock the one just filled.  Until the threads run, the ring is
\* filled up; afterwards the slot that is now held has the oldest result.
UnlockPrev ==
    /\ pc = "unlockprev"
    /\ Release(Here, mi)
    /\ IF mi = NumThreads - 1
       THEN /\ mi' = 0
            /\ numreceived' = numreceived + 1
            /\ pc' = IF Launched THEN "ssend"
                     ELSE IF numreceived' = RECEIVE_RING_LENGTH - 1 THEN "launch"
                     ELSE "recv"
       ELSE mi' = mi + 1 /\ UNCHANGED <<numreceived, pc>>
    /\ UNCHANGED <<di, terminate, sent, slotvars, threadvars>>

\* receivedata: the terminate message marks the slot at which threads stop.  It
\* is also received into the slot's offsets, which nobody reads after that.
ReceiveTerminate ==
    /\ pc = "recv"
    /\ terminate' = TRUE
    /\ keepprocessing' = [keepprocessing EXCEPT ![Here] = FALSE]
    /\ pc' = IF Launched THEN "unlockheld" ELSE "launch"
    /\ UNCHANGED <<mi, di, numreceived, sent, offsets, configindex, results,
                   threadvars, owner>>

\* Nothing was received: unlock the first slot and return, no thread was made.
ReturnQuietly ==
    /\ pc = "launch"
    /\ numreceived = 0
    /\ owner' = [owner EXCEPT ![0] = [t \in Threads |-> "free"]]
    /\ Goto("done")
    /\ UNCHANGED <<slotvars, threadvars>>

\* Hold the last slot (instead of the one reached, in a short job) and the one
\* before it, and create the threads.  No other thread exists until then.
Launch ==
    /\ pc = "launch"
    /\ numreceived > 0
    /\ owner' = [s \in Slots |-> [t \in Threads |->
                    IF s \in {RECEIVE_RING_LENGTH - 2, RECEIVE_RING_LENGTH - 1}
                    THEN "main" ELSE "free"]]
    /\ tpc' = [t \in Threads |-> "lockend"]
    /\ lastconfigindex' = [t \in Threads |-> configindex[0]]
    /\ Goto("initcheck")
    /\ UNCHANGED <<slotvars, numprocessed, initialised, freedconfig>>

End == RECEIVE_RING_LENGTH - 1

\* Mutant: poll the flag instead of waiting for it.
InitCheckPolls ==
    /\ pc = "initcheck"
    /\ IF initialised[mi] THEN Loop("unlocksecond")
       ELSE UNCHANGED mainvars
    /\ UNCHANGED <<slotvars, threadvars, owner>>

\* while(!processthreadinitialised[i]) pthread_cond_wait(...)
InitCheck ==
    /\ pc = "initcheck"
    /\ IF initialised[mi]
       THEN Loop("unlocksecond") /\ UNCHANGED owner
       ELSE /\ Release(End, mi)
            /\ pc' = "initwait"
            /\ UNCHANGED <<mi, di, numreceived, terminate, sent>>
    /\ UNCHANGED <<slotvars, threadvars>>

SpuriousWakeup ==
    /\ Spurious
    /\ pc = "initwait"
    /\ pc' = "initwake"
    /\ UNCHANGED <<mi, di, numreceived, terminate, sent, slotvars, threadvars, owner>>

\* pthread_cond_wait takes the mutex again before it returns.
InitWake ==
    /\ pc = "initwake"
    /\ Free(End, mi)
    /\ Take(End, mi, "main")
    /\ pc' = "initcheck"
    /\ UNCHANGED <<mi, di, numreceived, terminate, sent, slotvars, threadvars>>

\* All threads run: release the second last slot and enter the main loop.
UnlockSecond ==
    /\ pc = "unlocksecond"
    /\ Release(RECEIVE_RING_LENGTH - 2, mi)
    /\ Loop(IF terminate THEN "unlockheld" ELSE "recv")
    /\ UNCHANGED <<slotvars, threadvars>>

\* Mutant: the slot is not zeroed.
SendResultsKeepsSlot ==
    /\ pc = "ssend"
    /\ sent' = Append(sent, results[Here])
    /\ pc' = "recv"
    /\ UNCHANGED <<mi, di, numreceived, terminate, slotvars, threadvars, owner>>

\* Main loop: send the oldest result, held for every thread, and zero it.
SendResults ==
    /\ pc = "ssend"
    /\ sent' = Append(sent, results[Here])
    /\ results' = [results EXCEPT ![Here] = {}]
    /\ pc' = "recv"
    /\ UNCHANGED <<mi, di, numreceived, terminate, offsets, configindex,
                   keepprocessing, threadvars, owner>>

\* Mutant: no adjustment for a short job.
ToUnlockHere == Here

\* Shutdown: let the threads into the slot held, where they stop.
ToUnlock == IF ShortJob THEN RECEIVE_RING_LENGTH - 1 ELSE Here

UnlockHeld ==
    /\ pc = "unlockheld"
    /\ Release(ToUnlock, mi)
    /\ Loop("drainlock")
    /\ UNCHANGED <<slotvars, threadvars>>

\* Mutants: no adjustment for a short job; one result too few.
AdjustNothing == 0
CountdownOneLess == IF ShortJob THEN numreceived ELSE RECEIVE_RING_LENGTH - 2

Adjust == IF ShortJob THEN RECEIVE_RING_LENGTH - 1 - numreceived ELSE 0
Countdown == IF ShortJob THEN numreceived ELSE RECEIVE_RING_LENGTH - 1
DrainSlot == SlotOf(numreceived + di + Adjust)

\* Mutant: the threads are not waited for.
DrainLockSkipped ==
    /\ pc = "drainlock"
    /\ Take(DrainSlot, mi, "main")
    /\ pc' = "drainunlock"
    /\ UNCHANGED <<mi, di, numreceived, terminate, sent, slotvars, threadvars>>

\* Lock and unlock a slot for every thread to see that they finished with it.
DrainLock ==
    /\ pc = "drainlock"
    /\ Free(DrainSlot, mi)
    /\ Take(DrainSlot, mi, "main")
    /\ pc' = "drainunlock"
    /\ UNCHANGED <<mi, di, numreceived, terminate, sent, slotvars, threadvars>>

DrainUnlock ==
    /\ pc = "drainunlock"
    /\ Release(DrainSlot, mi)
    /\ IF mi = NumThreads - 1
       THEN pc' = "drainsend" /\ mi' = 0
       ELSE pc' = "drainlock" /\ mi' = mi + 1
    /\ UNCHANGED <<di, numreceived, terminate, sent, slotvars, threadvars>>

\* Mutant: the countdown is tested after it was decremented.
DrainSendOneMore ==
    /\ pc = "drainsend"
    /\ sent' = Append(sent, results[DrainSlot])
    /\ di' = di + 1
    /\ pc' = IF di = Countdown + 1 THEN "join" ELSE "drainlock"
    /\ UNCHANGED <<mi, numreceived, terminate, slotvars, threadvars, owner>>

DrainSend ==
    /\ pc = "drainsend"
    /\ sent' = Append(sent, results[DrainSlot])
    /\ di' = di + 1
    /\ pc' = IF di = Countdown THEN "join" ELSE "drainlock"
    /\ UNCHANGED <<mi, numreceived, terminate, slotvars, threadvars, owner>>

Join ==
    /\ pc = "join"
    /\ tpc[mi] = "exited"
    /\ Loop("done")
    /\ UNCHANGED <<slotvars, threadvars, owner>>

Main == \/ ReceiveSubint \/ LockNext \/ UnlockPrev \/ ReceiveTerminate
        \/ ReturnQuietly \/ Launch \/ InitCheck \/ InitWake \/ UnlockSecond
        \/ SendResults \/ UnlockHeld \/ DrainLock \/ DrainUnlock \/ DrainSend
        \/ Join

-------------------------------------------------------------------------------
(* A process thread: loopprocess() and processdata()                         *)

Step(t, from, to) == tpc[t] = from /\ tpc' = [tpc EXCEPT ![t] = to]

At(t) == SlotOf(numprocessed[t])
After(t) == SlotOf(numprocessed[t] + 1)

LockEnd(t) ==
    /\ Step(t, "lockend", "lockfirst")
    /\ Free(End, t)
    /\ Take(End, t, "thread")
    /\ UNCHANGED <<mainvars, slotvars, numprocessed, lastconfigindex,
                   initialised, freedconfig>>

LockFirst(t) ==
    /\ Step(t, "lockfirst", "unlockend")
    /\ Free(0, t)
    /\ Take(0, t, "thread")
    /\ UNCHANGED <<mainvars, slotvars, numprocessed, lastconfigindex,
                   initialised, freedconfig>>

UnlockEnd(t) ==
    /\ Step(t, "unlockend", "setinit")
    /\ Release(End, t)
    /\ UNCHANGED <<mainvars, slotvars, numprocessed, lastconfigindex,
                   initialised, freedconfig>>

\* The flag is set, and the condition signalled, with no mutex held for it.
SetInitialised(t) ==
    /\ Step(t, "setinit", "signal")
    /\ initialised' = [initialised EXCEPT ![t] = TRUE]
    /\ UNCHANGED <<mainvars, slotvars, numprocessed, lastconfigindex,
                   freedconfig, owner>>

\* A signal wakes the main thread if it waits for this thread, or is lost.
Signal(t) ==
    /\ Step(t, "signal", "check")
    /\ pc' = IF pc = "initwait" /\ mi = t THEN "initwake" ELSE pc
    /\ UNCHANGED <<mi, di, numreceived, terminate, sent, slotvars, numprocessed,
                   lastconfigindex, initialised, freedconfig, owner>>

\* while(procslots[numprocessed % RECEIVE_RING_LENGTH].keepprocessing)
Check(t) ==
    /\ Step(t, "check", IF keepprocessing[At(t)] THEN "process" ELSE "exit")
    /\ UNCHANGED <<mainvars, slotvars, numprocessed, lastconfigindex,
                   initialised, freedconfig, owner>>

\* processdata: add this thread's share of the slot's data to its results.
ProcessData(t) ==
    /\ Step(t, "process", "locknextslot")
    /\ results' = [results EXCEPT ![At(t)] = @ \cup
                    {<<numprocessed[t], t, offsets[At(t)], lastconfigindex[t]>>}]
    /\ UNCHANGED <<mainvars, offsets, configindex, keepprocessing, numprocessed,
                   lastconfigindex, initialised, freedconfig, owner>>

\* processdata: grab the next slot's lock, then unlock the one held.
LockNextSlot(t) ==
    /\ Step(t, "locknextslot", "unlockslot")
    /\ Free(After(t), t)
    /\ Take(After(t), t, "thread")
    /\ UNCHANGED <<mainvars, slotvars, numprocessed, lastconfigindex,
                   initialised, freedconfig>>

UnlockSlot(t) ==
    /\ Step(t, "unlockslot", "config")
    /\ Release(At(t), t)
    /\ numprocessed' = [numprocessed EXCEPT ![t] = @ + 1]
    /\ UNCHANGED <<mainvars, slotvars, lastconfigindex, initialised, freedconfig>>

\* If the configuration changes from one slot to the next, change the setup.
ChangeConfig(t) ==
    /\ Step(t, "config", "check")
    /\ lastconfigindex' = [lastconfigindex EXCEPT ![t] = configindex[At(t)]]
    /\ UNCHANGED <<mainvars, slotvars, numprocessed, initialised, freedconfig, owner>>

ExitUnlock(t) ==
    /\ Step(t, "exit", "free")
    /\ Release(At(t), t)
    /\ UNCHANGED <<mainvars, slotvars, numprocessed, lastconfigindex,
                   initialised, freedconfig>>

\* The pulsar space is released with the configuration of the slot after the
\* one the thread stopped at.
FreeSpace(t) ==
    /\ Step(t, "free", "exited")
    /\ freedconfig' = [freedconfig EXCEPT ![t] = configindex[After(t)]]
    /\ UNCHANGED <<mainvars, slotvars, numprocessed, lastconfigindex,
                   initialised, owner>>

Thread(t) ==
    \/ LockEnd(t) \/ LockFirst(t) \/ UnlockEnd(t) \/ SetInitialised(t) \/ Signal(t)
    \/ Check(t) \/ ProcessData(t) \/ LockNextSlot(t) \/ UnlockSlot(t)
    \/ ChangeConfig(t) \/ ExitUnlock(t) \/ FreeSpace(t)

\* execute() has returned; nothing else happens in this Core.
Finished == pc = "done" /\ UNCHANGED vars

Next == Main \/ SpuriousWakeup \/ (\E t \in Threads : Thread(t)) \/ Finished

Spec == Init /\ [][Next]_vars

\* The scheduler runs every thread that can run, and the manager keeps sending
\* until it terminates the Core and receives what the Core returns.
FairSpec == Spec /\ WF_vars(Main) /\ \A t \in Threads : WF_vars(Thread(t))

-------------------------------------------------------------------------------
(* Properties *)

MainSteps == {"recv", "locknext", "unlockprev", "launch", "initcheck", "initwait",
              "initwake", "unlocksecond", "ssend", "unlockheld", "drainlock",
              "drainunlock", "drainsend", "join", "done"}
ThreadSteps == {"none", "lockend", "lockfirst", "unlockend", "setinit", "signal",
                "check", "process", "locknextslot", "unlockslot", "config",
                "exit", "free", "exited"}

\* The values a result entry can have: pass, thread, subintegration, setup.
Entries == Nat \X Threads \X Nat \X Configs

\* The variables have the types core.h declares.
TypeOK ==
    /\ pc \in MainSteps
    /\ mi \in Threads
    /\ di \in 1 .. RECEIVE_RING_LENGTH
    /\ numreceived \in 0 .. MaxSubints
    /\ terminate \in BOOLEAN
    /\ owner \in [Slots -> [Threads -> {"free", "main", "thread"}]]
    /\ offsets \in [Slots -> Nat]
    /\ configindex \in [Slots -> Configs]
    /\ keepprocessing \in [Slots -> BOOLEAN]
    /\ results \in [Slots -> SUBSET Entries]
    /\ tpc \in [Threads -> ThreadSteps]
    /\ numprocessed \in [Threads -> Nat]
    /\ lastconfigindex \in [Threads -> Configs]
    /\ initialised \in [Threads -> BOOLEAN]
    /\ freedconfig \in [Threads -> Configs \cup {None}]
    /\ sent \in Seq(SUBSET Entries)

Filling == {"recv", "locknext", "unlockprev"}
Starting == {"initcheck", "initwait", "initwake", "unlocksecond"}
Draining == {"drainlock", "drainunlock", "drainsend"}

\* Where the main thread is, how many subintegrations it has received and
\* whether it was told to terminate go together.
PhaseOK ==
    /\ \A t \in Threads : (tpc[t] = "none") <=> ~Launched
    /\ pc \in {"recv", "launch", "ssend", "drainsend", "done"} => mi = 0
    /\ pc \in Filling => ~terminate /\ (Launched <=> ~ShortJob)
    /\ pc \in {"locknext", "unlockprev"} => numreceived < MaxSubints
    /\ pc = "launch" => ~Launched /\ (terminate <=> ShortJob)
    /\ pc \in {"launch"} \cup Starting => numreceived < RECEIVE_RING_LENGTH
    /\ pc \in Starting => Launched /\ numreceived > 0 /\ (terminate <=> ShortJob)
    /\ pc = "ssend" => Launched /\ ~terminate /\ numreceived >= RECEIVE_RING_LENGTH
    /\ pc \in {"unlockheld", "join"} \cup Draining =>
            Launched /\ terminate /\ numreceived > 0
    /\ pc = "done" => terminate /\ (Launched <=> numreceived > 0)
    /\ pc \in Draining => di <= Countdown
    /\ pc = "join" \/ (pc = "done" /\ Launched) => di = Countdown + 1
    /\ pc \notin Draining \cup {"join", "done"} => di = 1
    /\ ~Launched => di = 1

\* The result a subintegration must have: every thread worked on it, on its
\* own pass over it, set up for its configuration.
Whole(k) == {<<k, t, k, ConfigOf[k]>> : t \in Threads}

\* What the Core sends back is, in the order of dispatch, the whole result of
\* each subintegration: nothing missing because a thread was late, nothing left
\* over from the slot's earlier use, nothing processed twice.
ResultsWhole == \A k \in 1 .. Len(sent) : sent[k] = Whole(k - 1)

\* A process thread works in its slot; the main thread fills, sends or zeroes one.
InSlot(t) == tpc[t] \in {"check", "process", "locknextslot", "unlockslot",
                         "config", "exit"}
Writes(s) == \/ pc \in {"recv", "ssend"} /\ s = Here
             \/ pc = "drainsend" /\ s = DrainSlot

\* While the main thread fills, sends or zeroes a slot, no process thread works
\* in that slot.
SlotExclusive == \A t \in Threads : InSlot(t) => ~Writes(At(t))

\* When execute() returns, every result was sent, all threads have ended and no
\* slot is left locked.
CleanExit == pc = "done" =>
    /\ Len(sent) = numreceived
    /\ \A t \in Threads : tpc[t] \in {"none", "exited"}
    /\ \A s \in Slots, t \in Threads : Free(s, t)

\* An unlock is always done by the thread that holds the mutex.
UnlocksOwn ==
    /\ pc = "unlockprev" => owner[Here][mi] = "main"
    /\ pc = "initcheck" => owner[End][mi] = "main"
    /\ pc = "unlocksecond" => owner[RECEIVE_RING_LENGTH - 2][mi] = "main"
    /\ pc = "unlockheld" => owner[ToUnlock][mi] = "main"
    /\ pc = "drainunlock" => owner[DrainSlot][mi] = "main"
    /\ \A t \in Threads :
        /\ tpc[t] \in {"unlockslot", "exit"} => owner[At(t)][t] = "thread"
        /\ tpc[t] = "unlockend" => owner[End][t] = "thread"

\* The mutexes the main thread holds at each place of execute().
MainHolds(s, t) ==
    \/ pc \in {"recv", "launch", "ssend"} /\ s = Here
    \/ pc = "locknext" /\ (s = Here \/ (s = Ahead /\ t < mi))
    \/ pc = "unlockprev" /\ (s = Ahead \/ (s = Here /\ t >= mi))
    \/ pc \in {"initcheck", "unlocksecond"} /\ s = End
    \/ pc \in {"initwait", "initwake"} /\ s = End /\ t # mi
    \/ pc \in {"initcheck", "initwait", "initwake"} /\ s = RECEIVE_RING_LENGTH - 2
    \/ pc = "unlocksecond" /\ s = RECEIVE_RING_LENGTH - 2 /\ t >= mi
    \/ pc = "unlockheld" /\ s = ToUnlock /\ t >= mi
    \/ pc = "drainunlock" /\ s = DrainSlot /\ t = mi

\* A process thread has its slot's mutex from its start to its end.
Holding == {"unlockend", "setinit", "signal", "check", "process", "locknextslot",
            "unlockslot", "config", "exit"}

\* The mutexes a process thread holds at each place of loopprocess().
ThreadHolds(s, t) ==
    \/ tpc[t] \in {"lockfirst", "unlockend"} /\ s = End
    \/ tpc[t] \in Holding /\ s = At(t)
    \/ tpc[t] = "unlockslot" /\ s = After(t)

\* A mutex is held by the main thread or a process thread exactly where the code
\* says so; no slot is ever held by both for the same thread.
LockOK == \A s \in Slots, t \in Threads :
    /\ owner[s][t] = "main" <=> MainHolds(s, t)
    /\ owner[s][t] = "thread" <=> ThreadHolds(s, t)

\* A thread that has not signalled yet has processed nothing, and the main
\* thread leaves its wait only for threads that have their first slot.
StartOK == \A t \in Threads :
    /\ tpc[t] \in {"none", "lockend", "lockfirst", "unlockend", "setinit", "signal"}
            => numprocessed[t] = 0
    /\ initialised[t] =>
            tpc[t] \notin {"none", "lockend", "lockfirst", "unlockend", "setinit"}
    /\ pc \in {"initcheck", "initwait", "initwake"} /\ t < mi => initialised[t]
    /\ Launched /\ pc \notin {"initcheck", "initwait", "initwake"} => initialised[t]

\* keepprocessing is cleared in the slot after the last subintegration only, and
\* that is where threads stop.
StopOK ==
    /\ \A s \in Slots : keepprocessing[s] <=> ~(terminate /\ s = Here)
    /\ \A t \in Threads :
        /\ tpc[t] \in {"process", "locknextslot", "unlockslot"} /\ terminate
                => numprocessed[t] # numreceived
        /\ tpc[t] \in {"exit", "free", "exited"} => terminate /\ numprocessed[t] = numreceived

\* How far behind the main thread a process thread can be, and that it never
\* overtakes it: the main thread is never more than the ring ahead.
PaceOK == Launched => \A t \in Threads :
    /\ pc \in {"initcheck", "initwait", "initwake"} => numprocessed[t] <= 1
    /\ pc = "unlocksecond" => numprocessed[t] <= 2
    /\ pc \notin Starting => numprocessed[t] >= numreceived - 3
    /\ pc = "unlockprev" \/ (pc = "locknext" /\ t < mi)
            => numprocessed[t] >= numreceived - 2
    /\ numprocessed[t] <= numreceived
    /\ pc \in {"recv", "ssend", "locknext"} \/ (pc = "unlockprev" /\ t >= mi)
            => numprocessed[t] < numreceived
    /\ pc \in Draining => numprocessed[t] + 4 >= numreceived + di + Adjust
    /\ (\/ pc = "drainlock" /\ t < mi
        \/ pc = "drainunlock" /\ t <= mi
        \/ pc = "drainsend") => numprocessed[t] + 4 > numreceived + di + Adjust

\* What keeps the main and the process threads apart.
RingInv == LockOK /\ StartOK /\ StopOK /\ PaceOK

\* How many results have been returned at each place of execute().
SentOK == Len(sent) =
    IF ~Launched \/ pc \in Starting THEN 0
    ELSE IF pc = "ssend" THEN numreceived - RECEIVE_RING_LENGTH
    ELSE IF pc \in Filling THEN numreceived - (RECEIVE_RING_LENGTH - 1)
    ELSE numreceived - Countdown + di - 1

\* The k-th subintegration has been received into its slot.
Filled(k) == k < numreceived \/ (k = numreceived /\ pc \in {"locknext", "unlockprev"})

\* A thread has added its share to the k-th result.
Added(t, k) == \/ numprocessed[t] > k
               \/ numprocessed[t] = k /\ tpc[t] \in {"locknextslot", "unlockslot"}

\* What has been accumulated of the k-th result.
Share(k) == {<<k, t, k, ConfigOf[k]>> : t \in {u \in Threads : Added(u, k)}}

\* Each slot has the data and the configuration of one subintegration that was not
\* returned yet and exactly what the threads have added to its result.
ContentOK ==
    /\ \A k \in Len(sent) .. numreceived : Filled(k) =>
            offsets[SlotOf(k)] = k /\ configindex[SlotOf(k)] = ConfigOf[k]
    /\ \A k \in Len(sent) .. Len(sent) + RECEIVE_RING_LENGTH - 1 :
            (terminate => k <= numreceived) => results[SlotOf(k)] = Share(k)

\* A thread works with the configuration of its subintegration.
SetupOK == \A t \in Threads :
    Launched /\ tpc[t] # "config" /\ Filled(numprocessed[t]) =>
        lastconfigindex[t] = ConfigOf[numprocessed[t]]

\* execute() joins threads that are past the last subintegration.
JoinOK == \A t \in Threads :
    /\ pc = "join" => numprocessed[t] = numreceived
    /\ (pc = "join" /\ t < mi) \/ (pc = "done" /\ Launched) => tpc[t] = "exited"

\* What makes the results whole.
DataInv == SentOK /\ ContentOK /\ SetupOK /\ JoinOK /\ ResultsWhole

\* core.cpp:1895 "need to delete the old pulsar accumulation space/bin space":
\* a thread releases the space of the configuration it had set up last.
FreesOldSpace == \A t \in Threads :
    tpc[t] = "exited" => freedconfig[t] = lastconfigindex[t]

\* The Core shuts down however the job ends.
Terminates == <>(pc = "done")

\* core.cpp:277 "wait til they are all initialised (and hence have a lock of
\* their own)": the wait ends once the threads have started.
StartupEnds == (pc = "initcheck") ~> (pc = "unlocksecond")

\* The ring implements the promise of a Core.
Abstract == INSTANCE CoreSpec WITH received <- numreceived, stopped <- terminate
ImplementsCore == Abstract!Safety
ReturnsAll == Abstract!Spec
===============================================================================
