------------------------------- MODULE FxManager -------------------------------
(* The FxManager of mpifxcorr (fxmanager.cpp) with the Visibility buffer it    *)
(* accumulates into (visibility.cpp).  The main thread dispatches              *)
(* subintegrations to the Cores, receives their results and adds each to the   *)
(* Visibility of its time; the write thread follows it round the buffer,       *)
(* writes each Visibility to disk and moves it on to a later period.  A mutex  *)
(* per Visibility separates them.  Cores are as CoreSpec describes them: each  *)
(* returns results in the order it was given the subintegrations.              *)
EXTENDS Integers, Sequences, FiniteSets

CONSTANTS
    NumCores,           \* Cores of the correlator
    VisBufferLength,    \* Visibilities in the buffer
    ScanDuration,       \* length of each scan of the model, in subintegrations
    IntTime,            \* integration time of each scan's configuration, in
                        \* subintegrations; 0 if the scan has no configuration
    MayInterrupt        \* whether SIGINT or a stop message may come

ASSUME NumCoresAssumption == NumCores \in Nat \ {0}
ASSUME VisBufferLengthAssumption == VisBufferLength \in Nat /\ VisBufferLength >= 4
ASSUME ScansAssumption ==
    /\ ScanDuration \in Seq(Nat \ {0})
    /\ IntTime \in [DOMAIN ScanDuration -> Nat]
    /\ \E s \in DOMAIN IntTime : IntTime[s] > 0
ASSUME MayInterruptAssumption == MayInterrupt \in BOOLEAN

Cores == 0 .. NumCores - 1
RECEIVE_RING_LENGTH == 4
Vis == 0 .. VisBufferLength - 1

-------------------------------------------------------------------------------
(* Time.  A subintegration is numbered in the order of dispatch; its time is  *)
(* its scan and its offset in the scan.  Scans without a configuration are    *)
(* skipped.                                                                   *)

NumScans == Len(ScanDuration)
Configured == {s \in 1 .. NumScans : IntTime[s] > 0}
FirstScan == CHOOSE s \in Configured : \A r \in Configured : s <= r
LastScan == CHOOSE s \in Configured : \A r \in Configured : r <= s

ScanStart[s \in 1 .. NumScans + 1] ==
    IF s = 1 THEN 0
    ELSE ScanStart[s - 1] + IF s - 1 \in Configured THEN ScanDuration[s - 1] ELSE 0

NumSubints == ScanStart[NumScans + 1]
Subints == 0 .. NumSubints - 1
ScanOf(k) == CHOOSE s \in Configured : ScanStart[s] <= k /\ k < ScanStart[s + 1]
OffsetOf(k) == k - ScanStart[ScanOf(k)]

\* while(configindex < 0 && currentscan < model->getNumScans()) currentscan++
NextScan(s) == CHOOSE r \in (s + 1) .. NumScans + 1 :
                    /\ r \in Configured \cup {NumScans + 1}
                    /\ \A q \in (s + 1) .. (r - 1) : q \notin Configured

PastEnd(v) == v.scan > NumScans

\* Visibility::changeConfig: the integration time is that of the new scan.
ChangeConfig(v) == [v EXCEPT !.inttime = IF PastEnd(v) THEN @ ELSE IntTime[v.scan]]

\* Visibility::updateTime: on to the next integration period.  The last one of
\* a scan is short and expects fewer subintegrations.  The first one of a scan
\* expects what the configuration before it says, then changes configuration.
UpdateTime(v) ==
    LET start == v.start + v.inttime
        left == ScanDuration[v.scan] - start
        scan == NextScan(v.scan)
    IN  IF PastEnd(v) THEN v
        ELSE IF left <= 0
        THEN ChangeConfig([v EXCEPT !.scan = scan, !.start = 0, !.expected = v.inttime])
        ELSE [v EXCEPT !.start = start,
                       !.expected = IF left < v.inttime THEN left ELSE v.inttime]

\* The Visibility constructor: the i-th one is i periods into the job.
NewVis[i \in Nat] ==
    IF i = 0 THEN [scan |-> FirstScan, start |-> 0, inttime |-> IntTime[FirstScan],
                   expected |-> IntTime[FirstScan], got |-> {}]
    ELSE UpdateTime(NewVis[i - 1])

-------------------------------------------------------------------------------
VARIABLES
    mpc,            \* where the main thread is
    resend,         \* whether receiveData() is to give the Core more work, as it
                    \* is until the job has been dispatched
    next,           \* senddata: the next subintegration to dispatch
    sendcount,      \* subintegrations sent (counted down when terminating)
    terminatenow,   \* an interrupt was caught
    inflight,       \* the subintegrations each Core has been given and not returned
    coretimes,      \* the ring of times remembered for each Core
    numsent,        \* subintegrations sent to each Core
    extrareceived,  \* results received from each Core without sending it more
    source,         \* the Core a result came from
    result,         \* the subintegration the result really is of
    corevis,        \* the time the manager takes the result to be of
    visindex,       \* where the result goes; -1 for stale data
    difference,     \* last time difference locateVisIndex computed
    count,          \* Visibilities still to lock while old data is dropped
    oldest, newest, \* oldestlockedvis, newestlockedvis
    islocked,       \* Visibilities the main thread believes it has locked
    owner,          \* bufferlock: who holds each Visibility's mutex
    visbuffer,      \* the Visibilities
    keepwriting,    \* FALSE once the main thread wants the write thread to end
    wpc,            \* where the write thread is
    writesegment,   \* the Visibility the write thread is at
    updates,        \* periods it has moved on the Visibility being incremented, or
                    \* Visibilities it has gone through at the end
    written,        \* what was written to disk, in order
    stale           \* results that were ignored

dispatchvars == <<next, sendcount, inflight, coretimes, numsent, extrareceived>>
resultvars == <<source, result, corevis, visindex, difference, count>>
lockvars == <<oldest, newest, islocked, owner>>
writevars == <<wpc, writesegment, updates, written>>
vars == <<mpc, resend, terminatenow, dispatchvars, resultvars, lockvars, visbuffer,
          keepwriting, writevars, stale>>

\* The write thread has started: it holds the last Visibility, the main thread
\* the first two.
Init ==
    /\ mpc = "loop" /\ resend = TRUE /\ next = 0 /\ sendcount = 0 /\ terminatenow = FALSE
    /\ inflight = [c \in Cores |-> <<>>]
    /\ coretimes = [c \in Cores |-> [i \in 0 .. RECEIVE_RING_LENGTH - 1 |-> 0]]
    /\ numsent = [c \in Cores |-> 0]
    /\ extrareceived = [c \in Cores |-> 0]
    /\ source = 0 /\ result = 0 /\ corevis = 0 /\ visindex = -1
    /\ difference = 0 /\ count = 0
    /\ oldest = 0 /\ newest = 1
    /\ islocked = [v \in Vis |-> v \in {0, 1}]
    /\ owner = [v \in Vis |-> IF v \in {0, 1} THEN "main"
                              ELSE IF v = VisBufferLength - 1 THEN "writer" ELSE "free"]
    /\ visbuffer = [v \in Vis |-> NewVis[v]]
    /\ keepwriting = TRUE
    /\ wpc = "check" /\ writesegment = 0 /\ updates = 0 /\ written = <<>>
    /\ stale = {}

-------------------------------------------------------------------------------
(* Dispatch: execute() and sendData() *)

More == next < NumSubints /\ ~terminatenow
Filling == sendcount < RECEIVE_RING_LENGTH * NumCores

\* The message to the Core and to the datastreams; the time is remembered.
SendData(c) ==
    /\ inflight' = [inflight EXCEPT ![c] = Append(@, next)]
    /\ coretimes' = [coretimes EXCEPT ![c][numsent[c] % RECEIVE_RING_LENGTH] = next]
    /\ numsent' = [numsent EXCEPT ![c] = @ + 1]
    /\ next' = next + 1

\* The "filling up" phase gives every Core RECEIVE_RING_LENGTH subintegrations.
FillUp ==
    /\ mpc = "loop" /\ More /\ Filling
    /\ SendData(sendcount % NumCores)
    /\ sendcount' = sendcount + 1
    /\ UNCHANGED <<mpc, resend, terminatenow, extrareceived, resultvars, lockvars,
                   visbuffer, keepwriting, writevars, stale>>

\* SIGINT is handled once the Cores have been filled up.
Interrupt ==
    /\ MayInterrupt /\ ~terminatenow
    /\ next >= RECEIVE_RING_LENGTH * NumCores
    /\ terminatenow' = TRUE
    /\ UNCHANGED <<mpc, resend, dispatchvars, resultvars, lockvars, visbuffer,
                   keepwriting, writevars, stale>>

\* Mutant: what was received while terminating is forgotten.
InfoIndexNoExtra(c) == numsent[c] % RECEIVE_RING_LENGTH

\* receiveData and locateVisIndex: which remembered time this result is of.
InfoIndex(c) ==
    IF numsent[c] < RECEIVE_RING_LENGTH THEN extrareceived[c]
    ELSE (numsent[c] + extrareceived[c]) % RECEIVE_RING_LENGTH

\* receiveData: a result arrives from some Core, whichever is ready.
Receive(c) ==
    /\ \/ mpc = "loop" /\ More /\ ~Filling
       \/ mpc = "final"
    /\ mpc' = "locate"
    /\ inflight[c] # <<>>
    /\ source' = c
    /\ result' = Head(inflight[c])
    /\ corevis' = coretimes[c][InfoIndex(c)]
    /\ inflight' = [inflight EXCEPT ![c] = Tail(@)]
    /\ UNCHANGED <<resend, terminatenow, next, sendcount, coretimes, numsent, extrareceived,
                   visindex, difference, count, lockvars, visbuffer, keepwriting,
                   writevars, stale>>

\* Mutant: one result fewer is waited for.
FinalResultsOneLess == IF Filling THEN sendcount ELSE RECEIVE_RING_LENGTH * NumCores - 1

FinalResults == IF Filling THEN sendcount ELSE RECEIVE_RING_LENGTH * NumCores

\* All is dispatched: terminate() the Cores and the datastreams, then receive
\* the results that are still due, RECEIVE_RING_LENGTH from each Core at most.
Terminate ==
    /\ mpc = "loop" /\ ~More
    /\ sendcount' = FinalResults
    /\ resend' = FALSE
    /\ mpc' = IF sendcount = 0 THEN "stopwriter" ELSE "final"
    /\ UNCHANGED <<terminatenow, next, inflight, coretimes, numsent, extrareceived,
                   resultvars, lockvars, visbuffer, keepwriting, writevars, stale>>

-------------------------------------------------------------------------------
(* locateVisIndex() *)

Window(o, n) == (n - o + VisBufferLength) % VisBufferLength
Succ(v) == (v + 1) % VisBufferLength

\* while(!islocked[oldestlockedvis]) oldestlockedvis++
Advance(o, locked) ==
    LET n == CHOOSE i \in 0 .. VisBufferLength - 1 :
                /\ locked[(o + i) % VisBufferLength]
                /\ \A j \in 0 .. i - 1 : ~locked[(o + j) % VisBufferLength]
    IN  (o + n) % VisBufferLength

\* Times are in half subintegrations, so that the middle of a subintegration
\* is a whole number of them.  LLONG_MAX is more than any difference within a scan
\* and than any integration time.
Longest == CHOOSE s \in Configured : \A r \in Configured : IntTime[r] <= IntTime[s]
Far == 2 * NumSubints + 2 * IntTime[Longest]

\* inttime is that of the scan being dispatched, and of the last scan once
\* execute() has gone through them all.
InttimeNs == 2 * IntTime[IF resend THEN ScanOf(next) ELSE LastScan]
Difference(k, v) ==
    IF ScanOf(k) > v.scan THEN Far
    ELSE IF ScanOf(k) < v.scan THEN -Far
    ELSE 2 * OffsetOf(k) + 1 - 2 * v.start

\* The buffer is nearly full: give up the oldest Visibility, however complete.
Crowded == Window(oldest, newest) >= VisBufferLength - 3
OldestAfter == IF Crowded THEN Advance(oldest, [islocked EXCEPT ![oldest] = FALSE])
               ELSE oldest

Candidates == [i \in 0 .. Window(OldestAfter, newest) |->
                    Difference(corevis, visbuffer[(OldestAfter + i) % VisBufferLength])]
\* Mutant: the period is a subintegration too long.
FitsLonger(d) == d >= 0 /\ d < InttimeNs + 2

Fits(d) == d >= 0 /\ d < InttimeNs

\* Search the Visibilities from the oldest to the newest.
Locate ==
    /\ mpc = "locate"
    /\ IF Crowded
       THEN /\ owner' = [owner EXCEPT ![oldest] = "free"]
            /\ islocked' = [islocked EXCEPT ![oldest] = FALSE]
       ELSE UNCHANGED <<owner, islocked>>
    /\ oldest' = OldestAfter
    /\ LET found == {i \in DOMAIN Candidates : Fits(Candidates[i])} IN
       \/ \E i \in found : /\ \A j \in found : i <= j
                           /\ visindex' = (OldestAfter + i) % VisBufferLength
                           /\ mpc' = "send"
                           /\ difference' = Candidates[i]
       \/ /\ found = {}
          /\ difference' = Candidates[Window(OldestAfter, newest)]
          /\ visindex' = -1
          /\ mpc' = IF \A i \in DOMAIN Candidates : Candidates[i] < 0
                    THEN "send" ELSE "more"
    /\ UNCHANGED <<resend, terminatenow, dispatchvars, source, result, corevis, count, newest,
                   visbuffer, keepwriting, writevars, stale>>

\* Mutant: the mutex is not taken.
LockNewestUnheld ==
    /\ newest' = Succ(newest)
    /\ islocked' = [islocked EXCEPT ![Succ(newest)] = TRUE]
    /\ UNCHANGED owner

\* Lock the next Visibility when its mutex is free.
LockNewest ==
    /\ owner[Succ(newest)] = "free"
    /\ newest' = Succ(newest)
    /\ owner' = [owner EXCEPT ![Succ(newest)] = "main"]
    /\ islocked' = [islocked EXCEPT ![Succ(newest)] = TRUE]

\* Lock more Visibilities until the one that is needed.
LockMore ==
    /\ mpc = "more"
    /\ Window(oldest, newest) < VisBufferLength - 3
    /\ LockNewest
    /\ difference' = Difference(corevis, visbuffer[Succ(newest)])
    /\ IF difference' < InttimeNs
       THEN visindex' = Succ(newest) /\ mpc' = "send"
       ELSE UNCHANGED <<visindex, mpc>>
    /\ UNCHANGED <<resend, terminatenow, dispatchvars, source, result, corevis, count, oldest,
                   visbuffer, keepwriting, writevars, stale>>

\* It is newer than the buffer can handle: drop old data until it fits.
GiveUp ==
    /\ mpc = "more"
    /\ Window(oldest, newest) >= VisBufferLength - 3
    /\ mpc' = "drop"
    /\ UNCHANGED <<resend, terminatenow, dispatchvars, resultvars, lockvars, visbuffer,
                   keepwriting, writevars, stale>>

\* The loop compares a difference in nanoseconds with inttime in seconds, which
\* is less than any positive difference between times of subintegrations.
CaughtUp == difference <= 0

Drop ==
    /\ mpc = "drop" /\ count = 0 /\ ~CaughtUp
    /\ LET locked == [islocked EXCEPT ![oldest] = FALSE] IN
       /\ islocked' = locked
       /\ oldest' = Advance(oldest, locked)
       /\ count' = Window(oldest, oldest')
    /\ owner' = [owner EXCEPT ![oldest] = "free"]
    /\ UNCHANGED <<mpc, resend, terminatenow, dispatchvars, source, result, corevis, visindex,
                   difference, newest, visbuffer, keepwriting, writevars, stale>>

DropLock ==
    /\ mpc = "drop" /\ count > 0
    /\ LockNewest
    /\ difference' = Difference(corevis, visbuffer[Succ(newest)])
    /\ count' = IF difference' < InttimeNs THEN 0 ELSE count - 1
    /\ UNCHANGED <<mpc, resend, terminatenow, dispatchvars, source, result, corevis, visindex,
                   oldest, visbuffer, keepwriting, writevars, stale>>

Dropped ==
    /\ mpc = "drop" /\ count = 0 /\ CaughtUp
    /\ visindex' = newest
    /\ mpc' = "send"
    /\ UNCHANGED <<resend, terminatenow, dispatchvars, source, result, corevis, difference, count,
                   lockvars, visbuffer, keepwriting, writevars, stale>>

-------------------------------------------------------------------------------
(* receiveData(), after the Visibility has been located *)

\* Immediately give the Core more work ...
Resend ==
    /\ mpc = "send" /\ resend
    /\ SendData(source)
    /\ sendcount' = sendcount + 1
    /\ mpc' = "add"
    /\ UNCHANGED <<resend, terminatenow, extrareceived, resultvars, lockvars, visbuffer,
                   keepwriting, writevars, stale>>

\* ... or, when terminating, remember that it has returned one more.
Acknowledge ==
    /\ mpc = "send" /\ ~resend
    /\ extrareceived' = [extrareceived EXCEPT ![source] = @ + 1]
    /\ sendcount' = sendcount - 1
    /\ mpc' = "add"
    /\ UNCHANGED <<resend, terminatenow, next, inflight, coretimes, numsent, resultvars, lockvars,
                   visbuffer, keepwriting, writevars, stale>>

\* Back to execute().
Return == mpc' = IF resend THEN "loop" ELSE IF sendcount = 0 THEN "stopwriter" ELSE "final"

IgnoreStale ==
    /\ mpc = "add" /\ visindex < 0
    /\ stale' = stale \cup {result}
    /\ Return
    /\ UNCHANGED <<resend, terminatenow, dispatchvars, resultvars, lockvars, visbuffer,
                   keepwriting, writevars>>

\* Mutant: one subintegration is not waited for.
CompleteEarly(v) == Cardinality(v.got) + 2 >= v.expected

\* addData's result for the Visibility v when one more is added to it.
Complete(v) == Cardinality(v.got) + 1 >= v.expected

\* addData: the Visibility is complete when it has all it expects.
AddData ==
    /\ mpc = "add" /\ visindex >= 0
    /\ visbuffer' = [visbuffer EXCEPT ![visindex].got = @ \cup {result}]
    /\ IF ~Complete(visbuffer[visindex]) THEN Return
       ELSE IF visindex = newest THEN mpc' = "ahead" ELSE mpc' = "release"
    /\ UNCHANGED <<resend, terminatenow, dispatchvars, resultvars, lockvars,
                   keepwriting, writevars, stale>>

\* Make sure that at least the next Visibility is locked.
LockAhead ==
    /\ mpc = "ahead"
    /\ LockNewest
    /\ mpc' = "release"
    /\ UNCHANGED <<resend, terminatenow, dispatchvars, resultvars, oldest, visbuffer,
                   keepwriting, writevars, stale>>

\* Mutant: the oldest locked Visibility is not looked for.
OldestOnceReleasedSame == oldest

OldestOnceReleased ==
    IF oldest = visindex THEN Advance(oldest, [islocked EXCEPT ![visindex] = FALSE])
    ELSE oldest

\* Let the write thread have the Visibility.
ReleaseVis ==
    /\ mpc = "release"
    /\ owner' = [owner EXCEPT ![visindex] = "free"]
    /\ islocked' = [islocked EXCEPT ![visindex] = FALSE]
    /\ oldest' = OldestOnceReleased
    /\ Return
    /\ UNCHANGED <<resend, terminatenow, dispatchvars, resultvars, newest, visbuffer,
                   keepwriting, writevars, stale>>

-------------------------------------------------------------------------------
(* The end of execute() *)

\* Mutant: the write thread is not told.
StopWriterNot ==
    /\ mpc = "stopwriter"
    /\ count' = 0
    /\ mpc' = "unlockall"
    /\ UNCHANGED <<resend, terminatenow, dispatchvars, source, result, corevis, visindex,
                   difference, lockvars, visbuffer, keepwriting, writevars, stale>>

StopWriter ==
    /\ mpc = "stopwriter"
    /\ keepwriting' = FALSE
    /\ count' = 0
    /\ mpc' = "unlockall"
    /\ UNCHANGED <<resend, terminatenow, dispatchvars, source, result, corevis, visindex,
                   difference, lockvars, visbuffer, writevars, stale>>

\* Unlock everything from the oldest to the newest Visibility.
UnlockAll ==
    /\ mpc = "unlockall"
    /\ owner' = [owner EXCEPT ![(oldest + count) % VisBufferLength] = "free"]
    /\ IF count = Window(oldest, newest)
       THEN mpc' = "join" /\ UNCHANGED count
       ELSE count' = count + 1 /\ UNCHANGED mpc
    /\ UNCHANGED <<resend, terminatenow, dispatchvars, source, result, corevis, visindex,
                   difference, oldest, newest, islocked, visbuffer, keepwriting,
                   writevars, stale>>

JoinWriter ==
    /\ mpc = "join" /\ wpc = "ended"
    /\ mpc' = "done"
    /\ UNCHANGED <<resend, terminatenow, dispatchvars, resultvars, lockvars, visbuffer,
                   keepwriting, writevars, stale>>

Main == \/ FillUp \/ Terminate \/ Locate \/ LockMore \/ GiveUp \/ Drop \/ DropLock
        \/ Dropped \/ Resend \/ Acknowledge \/ IgnoreStale \/ AddData \/ LockAhead
        \/ ReleaseVis \/ StopWriter \/ UnlockAll \/ JoinWriter
        \/ \E c \in Cores : Receive(c)

-------------------------------------------------------------------------------
(* The write thread: loopwrite() *)

Pred(v) == (v + VisBufferLength - 1) % VisBufferLength
mainside == <<mpc, resend, terminatenow, dispatchvars, resultvars, oldest, newest, islocked,
              keepwriting, stale>>

CheckWriting ==
    /\ wpc = "check"
    /\ wpc' = IF keepwriting THEN "lock" ELSE "flush"
    /\ UNCHANGED <<mainside, owner, visbuffer, writesegment, updates, written>>

LockSegment ==
    /\ wpc = "lock"
    /\ owner[writesegment] = "free"
    /\ owner' = [owner EXCEPT ![writesegment] = "writer"]
    /\ wpc' = "unlockprev"
    /\ UNCHANGED <<mainside, visbuffer, writesegment, updates, written>>

UnlockPrevSegment ==
    /\ wpc = "unlockprev"
    /\ owner' = [owner EXCEPT ![Pred(writesegment)] = "free"]
    /\ wpc' = "write"
    /\ UNCHANGED <<mainside, visbuffer, writesegment, updates, written>>

\* writedata: nothing is written for an empty Visibility or past the end.
ToWrite(v) == v.got # {} /\ ~PastEnd(v)
Writedata(v) == written' = IF ToWrite(v) THEN Append(written, v) ELSE written

WriteSegment ==
    /\ wpc = "write"
    /\ Writedata(visbuffer[writesegment])
    /\ wpc' = "increment"
    /\ UNCHANGED <<mainside, owner, visbuffer, writesegment, updates>>

Zeroed(v) == [v EXCEPT !.got = {}]
NextSegment == Succ(writesegment)

\* increment: zero the Visibility and move it on by a whole buffer of periods,
\* one updateTime after the other; nothing more happens past the end.
IncrementSegment ==
    /\ wpc = "increment"
    /\ IF PastEnd(visbuffer[writesegment])
       THEN UNCHANGED visbuffer
       ELSE visbuffer' = [visbuffer EXCEPT ![writesegment] =
                                Zeroed(UpdateTime(@))]
    /\ IF updates = VisBufferLength - 1 \/ PastEnd(visbuffer[writesegment])
       THEN /\ updates' = 0
            /\ writesegment' = NextSegment
            /\ wpc' = "check"
       ELSE updates' = updates + 1 /\ UNCHANGED <<writesegment, wpc>>
    /\ UNCHANGED <<mainside, owner, written>>

\* "now we're done, so run thru everyone just to be sure"
UnlockLast ==
    /\ wpc = "flush"
    /\ owner' = [owner EXCEPT ![Pred(writesegment)] = "free"]
    /\ wpc' = "flushing"
    /\ UNCHANGED <<mainside, visbuffer, writesegment, updates, written>>

\* Mutant: start at the beginning of the buffer.
ToFlushFromZero == updates

ToFlush == (writesegment + updates) % VisBufferLength

FlushSegment ==
    /\ wpc = "flushing"
    /\ Writedata(visbuffer[ToFlush])
    /\ IF updates = VisBufferLength - 1
       THEN wpc' = "ended" /\ UNCHANGED updates
       ELSE updates' = updates + 1 /\ UNCHANGED wpc
    /\ UNCHANGED <<mainside, owner, visbuffer, writesegment>>

Writer == \/ CheckWriting \/ LockSegment \/ UnlockPrevSegment \/ WriteSegment
          \/ IncrementSegment \/ UnlockLast \/ FlushSegment

Finished == mpc = "done" /\ UNCHANGED vars

Next == Main \/ Interrupt \/ Writer \/ Finished

Spec == Init /\ [][Next]_vars

\* Both threads are scheduled and the Cores keep returning results.
FairSpec == Spec /\ WF_vars(Main) /\ WF_vars(Writer)

-------------------------------------------------------------------------------
(* Properties *)

Receiving == {"locate", "more", "drop", "send", "add", "ahead", "release"}
MainSteps == {"loop", "final", "stopwriter", "unlockall", "join", "done"} \cup Receiving
WriterSteps == {"check", "lock", "unlockprev", "write", "increment", "flush", "flushing",
                "ended"}
VisType == [scan : Nat, start : Nat, inttime : Nat, expected : Nat,
            got : SUBSET Subints]

\* The variables have the types of fxmanager.h and visibility.h.
TypeOK ==
    /\ mpc \in MainSteps
    /\ next \in 0 .. NumSubints
    /\ sendcount \in 0 .. NumSubints
    /\ resend \in BOOLEAN /\ terminatenow \in BOOLEAN /\ keepwriting \in BOOLEAN
    /\ inflight \in [Cores -> Seq(Subints)]
    /\ coretimes \in [Cores -> [0 .. RECEIVE_RING_LENGTH - 1 -> Nat]]
    /\ numsent \in [Cores -> Nat]
    /\ extrareceived \in [Cores -> Nat]
    /\ source \in Cores /\ result \in Nat /\ corevis \in Nat
    /\ visindex \in Vis \cup {-1}
    /\ difference \in Int
    /\ count \in 0 .. VisBufferLength
    /\ oldest \in Vis /\ newest \in Vis
    /\ islocked \in [Vis -> BOOLEAN]
    /\ owner \in [Vis -> {"free", "main", "writer"}]
    /\ visbuffer \in [Vis -> VisType]
    /\ wpc \in WriterSteps
    /\ writesegment \in Vis /\ updates \in Vis
    /\ written \in Seq(VisType)
    /\ stale \subseteq Subints

\* A result is always taken to be of the subintegration it really is of,
\* although a Core's message carries no time and the manager only counts.
Attribution == mpc \in Receiving => corevis = result

\* The main thread adds data only to a Visibility whose mutex it holds.
HeldWhileAdding == mpc = "add" /\ visindex >= 0 => owner[visindex] = "main"

\* The write thread writes and increments only a Visibility it holds, and never
\* one between the oldest and the newest, whose times locateVisIndex reads
\* whether they are locked or not; what the main thread counts as locked is
\* locked, the oldest among it.
LocksConsistent ==
    /\ wpc \in {"write", "increment"} =>
        /\ owner[writesegment] = "writer"
        /\ keepwriting => Window(oldest, writesegment) > Window(oldest, newest)
    /\ islocked[oldest]
    /\ mpc # "unlockall" /\ mpc # "join" /\ mpc # "done"
            => \A v \in Vis : islocked[v] <=> owner[v] = "main"

\* What the manager's main and write thread rely on when they share the buffer:
\* the types, and the bookkeeping of the locks.
BufferInv == TypeOK /\ LocksConsistent

-------------------------------------------------------------------------------
(* Why results are attributed right and the locks are consistent, in parts     *)
(* that are inductive together.                                                *)

\* The results of a Core that the manager is looking for a place for.
AtHand(c) == IF c = source /\ mpc \in {"locate", "more", "drop", "send"} THEN 1 ELSE 0

\* A Core has what it was sent last, as it is remembered, less what it returned.
QueueOK(c) ==
    /\ Len(inflight[c]) = (IF numsent[c] < RECEIVE_RING_LENGTH THEN numsent[c]
                           ELSE RECEIVE_RING_LENGTH) - extrareceived[c] - AtHand(c)
    /\ \A i \in 1 .. Len(inflight[c]) :
          inflight[c][i] =
              coretimes[c][(numsent[c] - Len(inflight[c]) + i - 1) % RECEIVE_RING_LENGTH]
    /\ resend => extrareceived[c] = 0

\* The Cores are filled up in turn, before the first result is received.
FillOK ==
    resend =>
        IF Filling
        THEN /\ mpc = "loop"
             /\ \E r \in 0 .. RECEIVE_RING_LENGTH - 1 :
                   /\ r * NumCores <= sendcount /\ sendcount < r * NumCores + NumCores
                   /\ \A c \in Cores :
                         numsent[c] = IF c < sendcount - r * NumCores THEN r + 1 ELSE r
        ELSE \A c \in Cores : numsent[c] >= RECEIVE_RING_LENGTH

\* Where the main thread is.
PhaseOK ==
    /\ mpc = "loop" => resend
    /\ mpc \in MainSteps \ (Receiving \cup {"loop"}) => ~resend
    /\ resend => sendcount = next
    /\ resend /\ mpc \in {"locate", "more", "drop", "send"} => next < NumSubints
    /\ ~resend /\ mpc \in {"final", "locate", "more", "drop", "send"} => sendcount > 0
    /\ keepwriting <=> mpc \notin {"unlockall", "join", "done"}
    /\ mpc \in Receiving => result \in Subints

DispatchInv == PhaseOK /\ FillOK /\ Attribution /\ \A c \in Cores : QueueOK(c)

\* From the oldest to the newest Visibility.
InWindow(v) == Window(oldest, v) <= Window(oldest, newest)

\* The write thread goes on while it is to, and holds the Visibility before the one
\* it is at, or that one.
WriterOK ==
    /\ keepwriting => wpc \notin {"flush", "flushing", "ended"}
    /\ \A v \in Vis :
          owner[v] = "writer" <=>
             \/ v = Pred(writesegment) /\ wpc \in {"check", "lock", "unlockprev", "flush"}
             \/ v = writesegment /\ wpc \in {"unlockprev", "write", "increment"}

\* It is not within the window of the main thread, at whose oldest it waits; when
\* the main thread unlocks the window it may come to the oldest, and no further.
WindowOK ==
    /\ islocked[oldest] /\ islocked[newest]
    /\ \A v \in Vis : islocked[v] => InWindow(v)
    /\ keepwriting => \A v \in Vis : islocked[v] <=> owner[v] = "main"
    /\ keepwriting => \A v \in Vis : InWindow(v) => owner[v] # "writer"
    /\ keepwriting \/ wpc \in {"lock", "unlockprev", "write", "increment"}
            => writesegment = oldest \/ ~InWindow(writesegment)
    /\ mpc = "unlockall" =>
        /\ count <= Window(oldest, newest)
        /\ \A v \in Vis : InWindow(v) /\ Window(oldest, v) >= count =>
              owner[v] # "writer" /\ (islocked[v] => owner[v] = "main")

\* The Visibility that was located is in the window, and the newest one stays locked.
PlaceOK ==
    /\ mpc \in {"send", "add", "ahead", "release"} => visindex = -1 \/ InWindow(visindex)
    /\ mpc \in {"ahead", "release"} => visindex # -1
    /\ mpc = "ahead" => visindex = newest
    /\ mpc = "release" => visindex # newest
    /\ mpc = "drop" /\ count = 0 => oldest # newest

\* A Visibility is of a configured scan or past the last one.
ScanOK(v) == v.scan \in Configured \cup {NumScans + 1} /\ v.inttime > 0
ScansOK == \A v \in Vis : ScanOK(visbuffer[v])

LockInv == WriterOK /\ WindowOK /\ PlaceOK

ManagerInv == TypeOK /\ ScansOK /\ DispatchInv /\ LockInv

-------------------------------------------------------------------------------
(* What is on disk.                                                            *)

\* A subintegration belongs to an integration if its middle is in its period.
Belongs(k, v) == /\ ScanOf(k) = v.scan
                 /\ v.start <= OffsetOf(k) /\ OffsetOf(k) < v.start + v.inttime
Earlier(v, w) == v.scan < w.scan \/ (v.scan = w.scan /\ v.start < w.start)

\* fxmanager.cpp:749 "we have found the correct Visibility": the one located is
\* that of the period in which the middle of the subintegration falls.
LocatedRight == mpc = "send" /\ visindex >= 0 => Belongs(result, visbuffer[visindex])

\* fxmanager.cpp:495-496 "if we have sufficient sub-accumulations received, release
\* this Visibility": one that is released has every subintegration of its period.
ReleasedFull == mpc = "release" =>
    \A k \in Subints : Belongs(k, visbuffer[visindex]) => k \in visbuffer[visindex].got

\* Every integration on disk is made of subintegrations of its own period.
WrittenBelong == \A i \in 1 .. Len(written) :
    \A k \in written[i].got : Belongs(k, written[i])

\* Integrations are written in the order of time, each once.
WrittenInOrder == \A i \in 1 .. Len(written) - 1 : Earlier(written[i], written[i + 1])

\* No result is on disk twice, though Visibilities are reused by increment() and
\* locateVisIndex() gives up old ones.
WrittenOnce == \A i, j \in 1 .. Len(written) :
    i # j => written[i].got \cap written[j].got = {}

\* loopwrite puts integrations on disk in the order of time, and no result twice.
WrittenRight == WrittenInOrder /\ WrittenOnce

\* The period of the i-th Visibility from the one the write thread is at.
Ahead(i) == Zeroed(visbuffer[(writesegment + i) % VisBufferLength])

\* Each is a period after the one before it; the one that is incremented has come
\* to the period of one ahead of it.
PeriodsOK ==
    /\ \A i \in 1 .. VisBufferLength - 2 : Ahead(i + 1) = UpdateTime(Ahead(i))
    /\ IF wpc # "increment" \/ updates = 0 THEN Ahead(1) = UpdateTime(Ahead(0))
       ELSE Ahead(0) = Ahead(updates)
    /\ wpc \notin {"increment", "flushing", "ended"} => updates = 0

\* What is written next is later than what was written last.
OrderOK == written # <<>> /\ wpc # "ended" =>
    Earlier(written[Len(written)], Ahead(IF wpc = "increment" THEN 1 ELSE updates))

\* A subintegration a Core is still to return, or whose result was added.
Queued(k) == \E c \in Cores : \E i \in 1 .. Len(inflight[c]) : inflight[c][i] = k
Stored(k) == \/ \E v \in Vis : k \in visbuffer[v].got
             \/ \E i \in 1 .. Len(written) : k \in written[i].got

\* Each subintegration is in one place.
OneResult ==
    /\ \A c, d \in Cores : \A i \in 1 .. Len(inflight[c]), j \in 1 .. Len(inflight[d]) :
          inflight[c][i] = inflight[d][j] => c = d /\ i = j
    /\ \A k \in Subints : (Queued(k) \/ Stored(k) => k < next) /\ ~(Queued(k) /\ Stored(k))
    /\ mpc \in Receiving \ {"ahead", "release"} =>
          result < next /\ ~Queued(result) /\ ~Stored(result)

\* Written and not yet zeroed.
JustWritten(v) ==
    \/ wpc = "increment" /\ updates = 0 /\ v = writesegment /\ ~PastEnd(visbuffer[v])
    \/ wpc = "flushing" /\ Window(writesegment, v) < updates
    \/ wpc = "ended"

ShareOK ==
    /\ \A u, v \in Vis : u # v => visbuffer[u].got \cap visbuffer[v].got = {}
    /\ \A v \in Vis : ~JustWritten(v) =>
          \A i \in 1 .. Len(written) : visbuffer[v].got \cap written[i].got = {}

DiskInv == PeriodsOK /\ OrderOK /\ WrittenInOrder /\ OneResult /\ ShareOK /\ WrittenOnce

\* When the manager is done, the result of everything it dispatched is in one
\* integration on disk, whether the job ran to its end or was interrupted.
OnDiskOnce == mpc = "done" => \A k \in 0 .. next - 1 :
    Cardinality({i \in 1 .. Len(written) : k \in written[i].got}) = 1

\* The manager finishes.
Terminates == <>(mpc = "done")
===============================================================================
