------------------------------ MODULE MonitorLink ------------------------------
(* The threads of the FxManager (fxmanager.cpp) around the condition variable  *)
(* writecond: the main thread waits on it for the write thread to start, and   *)
(* the monitor thread waits on it for a copy of a Visibility to send to a      *)
(* remote monitor.  The write thread must never wait for the network.  What    *)
(* the main and the write thread do with the Visibilities is in FxManager.     *)
EXTENDS Integers, Sequences

CONSTANTS
    MaxVis,             \* bound: Visibilities written while the correlation runs
    VisBufferLength,    \* Visibilities in the buffer, gone through at the end
    MonitorSkip         \* monitor_skip: one in so many Visibilities is sent

ASSUME MaxVisAssumption == MaxVis \in Nat
ASSUME LengthAssumption == VisBufferLength \in Nat \ {0}
ASSUME SkipAssumption == MonitorSkip \in Nat \ {0}

VARIABLES
    mpc,            \* where the main thread is
    writethreadinitialised,
    keepwriting,
    wpc,            \* where the write thread is
    vis,            \* Visibilities the write thread has written in its loop
    final,          \* how often it has written one after its loop
    pc,             \* where the monitor thread is
    moncondlock,    \* who holds it
    monitorwritelock,
    buf,            \* the Visibility copied to the buffer; Torn while it is
    nbuf,           \* length of what is in the buffer
    monsockStatus,
    stream          \* what the monitor server was sent

mainvars == <<mpc, writethreadinitialised, keepwriting>>
writervars == <<wpc, vis, final>>
socketvars == <<monsockStatus, stream>>
monitorvars == <<moncondlock, monitorwritelock, buf, nbuf, socketvars>>
vars == <<mainvars, writervars, pc, monitorvars>>

Torn == -1
None == -2
\* nbuf: nothing to send (0), an empty Visibility (-1), or its length.
Lengths == {"zero", "minusone", "length"}

Init ==
    /\ mpc = "initcheck" /\ writethreadinitialised = FALSE /\ keepwriting = TRUE
    /\ wpc = "start" /\ vis = 0 /\ final = 0
    /\ pc = "none"
    /\ moncondlock = "free" /\ monitorwritelock = "free"
    /\ buf = None /\ nbuf = "zero"
    /\ monsockStatus = "CLOSED" /\ stream = <<>>

-------------------------------------------------------------------------------
(* The main thread.  The mutex of its wait is the second Visibility's, which   *)
(* the write thread does not take to start.                                    *)

\* while(!writethreadinitialised) pthread_cond_wait(&writecond, ...)
InitCheck ==
    /\ mpc = "initcheck"
    /\ mpc' = IF writethreadinitialised THEN "launch" ELSE "initsleep"
    /\ UNCHANGED <<writethreadinitialised, keepwriting, writervars, pc, monitorvars>>

\* The wait begins some time after the flag was read.
InitSleep ==
    /\ mpc = "initsleep"
    /\ mpc' = "initwait"
    /\ UNCHANGED <<writethreadinitialised, keepwriting, writervars, pc, monitorvars>>

LaunchMonitor ==
    /\ mpc = "launch"
    /\ mpc' = "run"
    /\ pc' = "open"
    /\ UNCHANGED <<writethreadinitialised, keepwriting, writervars, monitorvars>>

\* The end of execute(): all Visibilities are unlocked.
StopWriting ==
    /\ mpc = "run"
    /\ keepwriting' = FALSE
    /\ mpc' = "signal"
    /\ UNCHANGED <<writethreadinitialised, writervars, pc, monitorvars>>

\* A signal wakes whoever waits on writecond, or is lost.
Signal ==
    \/ mpc = "initwait" /\ mpc' = "initcheck" /\ UNCHANGED pc
    \/ pc = "wait" /\ pc' = "woken" /\ UNCHANGED mpc
    \/ mpc # "initwait" /\ pc # "wait" /\ UNCHANGED <<mpc, pc>>

\* Signal the monitor thread to quit, under moncondlock.
SignalQuit ==
    /\ mpc = "signal"
    /\ moncondlock = "free"
    /\ mpc' = "joinwriter"
    /\ pc' = IF pc = "wait" THEN "woken" ELSE pc
    /\ UNCHANGED <<writethreadinitialised, keepwriting, writervars, monitorvars>>

Join ==
    /\ \/ mpc = "joinwriter" /\ wpc = "ended" /\ mpc' = "joinmonitor"
       \/ mpc = "joinmonitor" /\ pc = "ended" /\ mpc' = "done"
    /\ UNCHANGED <<writethreadinitialised, keepwriting, writervars, pc, monitorvars>>

Main == InitCheck \/ InitSleep \/ LaunchMonitor \/ StopWriting \/ SignalQuit \/ Join

-------------------------------------------------------------------------------
(* The write thread: loopwrite() and sendMonitorData() *)

\* The flag is set with no mutex held.
Start ==
    /\ wpc = "start"
    /\ writethreadinitialised' = TRUE
    /\ wpc' = "startsignal"
    /\ UNCHANGED <<mpc, keepwriting, vis, final, pc, moncondlock, monitorwritelock,
                   buf, nbuf, socketvars>>

StartSignal ==
    /\ wpc = "startsignal"
    /\ Signal
    /\ wpc' = "check"
    /\ UNCHANGED <<writethreadinitialised, keepwriting, vis, final, monitorvars>>

\* The next Visibility, once the main thread lets it have it; when the loop has
\* ended, VisBufferLength times more.
Check ==
    /\ wpc = "check"
    /\ mpc \notin {"initcheck", "initsleep", "initwait", "launch"}
    /\ IF keepwriting
       THEN vis < MaxVis /\ wpc' = "write" /\ UNCHANGED final
       ELSE IF final < VisBufferLength
       THEN wpc' = "write" /\ final' = final + 1
       ELSE wpc' = "ended" /\ UNCHANGED final
    /\ UNCHANGED <<mainvars, vis, pc, monitorvars>>

\* The loop goes on to the next Visibility; after it, writesegment stays the
\* same and so does the Visibility that is sent.
Advance == vis' = IF final = 0 THEN vis + 1 ELSE vis

\* Mutant: wait for the monitor thread to finish.
TryLockWaits ==
    /\ monitorwritelock = "free"
    /\ monitorwritelock' = "writer"
    /\ buf' = Torn
    /\ wpc' = "copy"
    /\ UNCHANGED vis

\* pthread_mutex_trylock: skip this Visibility if the monitor is still sending.
TryLock ==
    IF monitorwritelock = "free"
    THEN /\ monitorwritelock' = "writer"
         /\ buf' = Torn
         /\ wpc' = "copy"
         /\ UNCHANGED vis
    ELSE /\ wpc' = "check"
         /\ Advance
         /\ UNCHANGED <<monitorwritelock, buf>>

SendMonitorData ==
    /\ wpc = "write"
    /\ IF (vis % VisBufferLength) % MonitorSkip = 0
       THEN TryLock
       ELSE wpc' = "check" /\ Advance /\ UNCHANGED <<monitorwritelock, buf>>
    /\ UNCHANGED <<mainvars, final, pc, moncondlock, nbuf, socketvars>>

\* copyVisData: the Visibility has results, or nothing to send (-1), when what
\* is in the buffer is not sent.
CopyVisData ==
    /\ wpc = "copy"
    /\ buf' = vis
    /\ nbuf' \in {"length", "minusone"}
    /\ monitorwritelock' = "free"
    /\ wpc' = "signal"
    /\ UNCHANGED <<mainvars, vis, final, pc, moncondlock, socketvars>>

SignalMonitor ==
    /\ wpc = "signal"
    /\ moncondlock = "free"
    /\ Signal
    /\ wpc' = "check"
    /\ Advance
    /\ UNCHANGED <<writethreadinitialised, keepwriting, final, monitorvars>>

Writer == \/ Start \/ StartSignal \/ Check
          \/ SendMonitorData \/ CopyVisData \/ SignalMonitor

-------------------------------------------------------------------------------
(* The monitor thread: MonitorThread(), checkSocketStatus() *)

Goto(from, to) == pc = from /\ pc' = to

\* openMonitorSocket: connected at once, in progress, or failed.
OpenSocket ==
    /\ Goto("open", "check")
    /\ monsockStatus' \in {"OPENED", "PENDING", "CLOSED"}
    /\ UNCHANGED <<mainvars, writervars, moncondlock, monitorwritelock, buf, nbuf, stream>>

CheckKeepWriting ==
    /\ Goto("check", IF keepwriting THEN "lock" ELSE "close")
    /\ UNCHANGED <<mainvars, writervars, monitorvars>>

LockCond ==
    /\ Goto("lock", "locked")
    /\ moncondlock = "free"
    /\ moncondlock' = "monitor"
    /\ UNCHANGED <<mainvars, writervars, monitorwritelock, buf, nbuf, socketvars>>

\* pthread_cond_wait releases moncondlock and waits ...
Wait ==
    /\ Goto("locked", "wait")
    /\ moncondlock' = "free"
    /\ UNCHANGED <<mainvars, writervars, monitorwritelock, buf, nbuf, socketvars>>

\* A wait may also return without a signal.
SpuriousWakeup ==
    /\ \/ Goto("wait", "woken") /\ UNCHANGED mpc
       \/ mpc = "initwait" /\ mpc' = "initcheck" /\ UNCHANGED pc
    /\ UNCHANGED <<writethreadinitialised, keepwriting, writervars, monitorvars>>

\* ... and takes it again; it is unlocked before keepwriting is read.
Woken ==
    /\ Goto("woken", "test")
    /\ moncondlock = "free"
    /\ UNCHANGED <<mainvars, writervars, monitorvars>>

TestQuit ==
    /\ Goto("test", IF keepwriting THEN "lockwrite" ELSE "close")
    /\ UNCHANGED <<mainvars, writervars, monitorvars>>

\* Mutant: the buffer is read without the mutex.
LockWriteNot ==
    /\ Goto("lockwrite", "look")
    /\ UNCHANGED <<mainvars, writervars, monitorvars>>

LockWrite ==
    /\ Goto("lockwrite", "look")
    /\ monitorwritelock = "free"
    /\ monitorwritelock' = "monitor"
    /\ UNCHANGED <<mainvars, writervars, moncondlock, buf, nbuf, socketvars>>

Unlock(to) == pc' = to /\ monitorwritelock' = "free"

\* checkSocketStatus: a pending connection may be established, fail or still be
\* pending; a closed one is opened again.
NextStatus == CASE monsockStatus = "OPENED" -> {"OPENED"}
                [] monsockStatus = "PENDING" -> {"PENDING", "OPENED", "CLOSED"}
                [] monsockStatus = "CLOSED" -> {"OPENED", "PENDING", "CLOSED"}

Look ==
    /\ pc = "look"
    /\ IF nbuf = "zero"
       THEN Unlock("check") /\ UNCHANGED <<nbuf, monsockStatus>>
       ELSE /\ monsockStatus' \in NextStatus
            /\ IF monsockStatus' = "OPENED"
               THEN pc' = "send" /\ UNCHANGED <<nbuf, monitorwritelock>>
               ELSE nbuf' = "zero" /\ Unlock("check")
    /\ UNCHANGED <<mainvars, writervars, moncondlock, buf, stream>>

\* send() the buffer, or the time -1 if there is nothing to send.
Send ==
    /\ pc = "send"
    /\ \/ /\ stream' = IF nbuf = "length" THEN Append(stream, buf) ELSE stream
          /\ UNCHANGED monsockStatus
       \/ monsockStatus' = "CLOSED" /\ UNCHANGED stream
    /\ nbuf' = "zero"
    /\ Unlock("check")
    /\ UNCHANGED <<mainvars, writervars, moncondlock, buf>>

Close ==
    /\ Goto("close", "ended")
    /\ UNCHANGED <<mainvars, writervars, monitorvars>>

\* What the monitor thread does without waiting for the network.
Local == \/ CheckKeepWriting \/ LockCond \/ Wait \/ Woken \/ TestQuit \/ LockWrite
         \/ Look \/ Close
Monitor == Local \/ OpenSocket \/ Send \/ SpuriousWakeup

Finished == mpc = "done" /\ UNCHANGED vars

Next == Main \/ Writer \/ Monitor \/ Finished

Spec == Init /\ [][Next]_vars

\* Threads run when they can, whatever the network does.
FairSpec == Spec /\ WF_vars(Main) /\ WF_vars(Writer) /\ WF_vars(Local)

\* With a network that answers.
NetworkSpec == FairSpec /\ WF_vars(OpenSocket \/ Send)

-------------------------------------------------------------------------------
(* Properties *)

\* The variables have the types of fxmanager.h.
TypeOK ==
    /\ mpc \in {"initcheck", "initsleep", "initwait", "launch", "run", "signal",
                "joinwriter", "joinmonitor", "done"}
    /\ writethreadinitialised \in BOOLEAN /\ keepwriting \in BOOLEAN
    /\ wpc \in {"start", "startsignal", "check", "write", "copy", "signal", "ended"}
    /\ vis \in 0 .. MaxVis
    /\ final \in 0 .. VisBufferLength
    /\ pc \in {"none", "open", "check", "lock", "locked", "wait", "woken", "test",
               "lockwrite", "look", "send", "close", "ended"}
    /\ moncondlock \in {"free", "monitor"}
    /\ monitorwritelock \in {"free", "writer", "monitor"}
    /\ buf \in Nat \cup {Torn, None}
    /\ nbuf \in Lengths
    /\ monsockStatus \in {"OPENED", "PENDING", "CLOSED"}
    /\ stream \in Seq(Nat \cup {Torn, None})

\* The monitor server is sent whole Visibilities only, never one that is being
\* copied over, each at most once and in the order they were written (a send
\* that fails closes the connection, and is not part of the stream).
StreamInOrder ==
    /\ \A i \in 1 .. Len(stream) : stream[i] >= 0
    /\ \A i \in 1 .. Len(stream) - 1 : stream[i] < stream[i + 1]

\* The state of the monitor link is well formed, and its stream in order.
LinkInv == TypeOK /\ StreamInOrder

-------------------------------------------------------------------------------
(* Why the stream is in order, in parts that are inductive together.           *)

\* Each mutex is held where the code holds it.
MutexOK ==
    /\ monitorwritelock = "writer" <=> wpc = "copy"
    /\ monitorwritelock = "monitor" <=> pc \in {"look", "send"}

\* The main thread has asked for the end before the write thread goes through the
\* buffer once more, and the loop has room for the Visibility it is at.
LoopOK ==
    /\ final > 0 => ~keepwriting
    /\ wpc \in {"write", "copy", "signal"} /\ final = 0 => vis < MaxVis
    /\ mpc \in {"initcheck", "initsleep", "initwait", "launch"} => pc = "none"

\* The buffer has a Visibility that was written before, or the one that is being
\* signalled; after its loop the write thread copies the same one again and again.
CopyOK ==
    /\ wpc # "copy" => buf # Torn /\ (nbuf = "length" => buf # None)
    /\ buf \in Nat => buf < vis \/ (buf = vis /\ (wpc = "signal" \/ final > 0))

\* The monitor thread sends no more.
Quitting == ~keepwriting /\ pc \in {"check", "close", "ended"}

\* What was sent last is older than the Visibility the write thread is at and than the
\* one in the buffer, unless it is the one just copied, or no more is sent.
SentOK == stream # <<>> =>
    LET last == stream[Len(stream)] IN
    /\ \/ last < vis
       \/ last = vis /\ final = 0 /\ wpc = "signal" /\ nbuf = "zero"
       \/ last = vis /\ Quitting
    /\ nbuf = "length" /\ wpc # "copy" => last < buf \/ Quitting

StreamInv == LinkInv /\ MutexOK /\ LoopOK /\ CopyOK /\ SentOK

-------------------------------------------------------------------------------
\* The write thread gets through the end of the correlation even if the network
\* never answers the monitor thread.
WriterEnds == (mpc = "signal") ~> (wpc = "ended")

\* fxmanager.cpp:667 "signal main thread to wake up": the main thread gets past
\* the start of the write thread.
StartupEnds == <>(mpc = "run")

\* fxmanager.cpp:383 "Signal Monitor Thread to quit": the manager ends once the
\* monitor thread was signalled and the network answers.
ShutdownEnds == (mpc = "joinmonitor") ~> (mpc = "done")
===============================================================================
