--------------------------- MODULE MonitorLinkProofs ---------------------------
(* Proofs about the monitor link of the FxManager, for any number of           *)
(* Visibilities, length of the buffer and monitor_skip: the monitor server is  *)
(* sent whole Visibilities, in order and each once, though the write thread    *)
(* never waits for the monitor thread.                                         *)
EXTENDS MonitorLink, TLAPS

-------------------------------------------------------------------------------
(* The types.                                                                  *)

\* The numbers of the model.
LEMMA Bounds ==
    ASSUME TypeOK
    PROVE  /\ vis \in 0 .. MaxVis /\ MaxVis \in Nat /\ vis \in Nat
           /\ final \in 0 .. VisBufferLength /\ VisBufferLength \in Nat \ {0}
           /\ buf \in Nat \cup {-1, -2} /\ Torn = -1 /\ None = -2
           /\ stream \in Seq(Nat \cup {-1, -2}) /\ Len(stream) \in Nat
BY MaxVisAssumption, LengthAssumption DEF TypeOK, Torn, None

\* A step of the main thread.
LEMMA MainType ==
    ASSUME TypeOK, Main
    PROVE  TypeOK'
<1>1. UNCHANGED <<writervars, monitorvars>>
  BY DEF Main, InitCheck, InitSleep, LaunchMonitor, StopWriting, SignalQuit, Join
<1>2. /\ mpc' \in {"initcheck", "initsleep", "initwait", "launch", "run", "signal",
                   "joinwriter", "joinmonitor", "done"}
      /\ writethreadinitialised' \in BOOLEAN /\ keepwriting' \in BOOLEAN
      /\ pc' \in {"none", "open", "check", "lock", "locked", "wait", "woken", "test",
                  "lockwrite", "look", "send", "close", "ended"}
  BY DEF TypeOK, Main, InitCheck, InitSleep, LaunchMonitor, StopWriting, SignalQuit, Join
<1> QED BY <1>1, <1>2 DEF TypeOK, writervars, monitorvars, socketvars

\* A step of the write thread.
LEMMA WriterType ==
    ASSUME TypeOK, LoopOK, Writer
    PROVE  TypeOK'
<1>1. UNCHANGED <<keepwriting, moncondlock, monsockStatus, stream>>
  BY DEF Writer, Start, StartSignal, Check, SendMonitorData, CopyVisData, SignalMonitor,
     mainvars, monitorvars, socketvars
<1>2. /\ mpc' \in {"initcheck", "initsleep", "initwait", "launch", "run", "signal",
                   "joinwriter", "joinmonitor", "done"}
      /\ pc' \in {"none", "open", "check", "lock", "locked", "wait", "woken", "test",
                  "lockwrite", "look", "send", "close", "ended"}
  <2>1. UNCHANGED <<mpc, pc>> \/ Signal
    BY DEF Writer, Start, StartSignal, Check, SendMonitorData, CopyVisData, SignalMonitor, mainvars
  <2>2. CASE UNCHANGED <<mpc, pc>>
    BY <2>2 DEF TypeOK
  <2>3. CASE Signal
    BY <2>3 DEF TypeOK, Signal
  <2> QED BY <2>1, <2>2, <2>3
<1>3. writethreadinitialised' \in BOOLEAN
  BY DEF TypeOK, Writer, Start, StartSignal, Check, SendMonitorData, CopyVisData, SignalMonitor,
     mainvars
<1>4. wpc' \in {"start", "startsignal", "check", "write", "copy", "signal", "ended"}
  BY DEF Writer, Start, StartSignal, Check, SendMonitorData, TryLock, CopyVisData, SignalMonitor
<1>5. vis' \in 0 .. MaxVis
  <2>1. UNCHANGED vis \/ (Advance /\ wpc \in {"write", "signal"})
    BY DEF Writer, Start, StartSignal, Check, SendMonitorData, TryLock, CopyVisData, SignalMonitor
  <2>2. CASE UNCHANGED vis
    BY <2>2 DEF TypeOK
  <2>3. CASE Advance /\ wpc \in {"write", "signal"}
    <3>1. final = 0 => vis < MaxVis
      BY <2>3 DEF LoopOK
    <3> QED BY <2>3, <3>1, Bounds DEF Advance
  <2> QED BY <2>1, <2>2, <2>3
<1>6. final' \in 0 .. VisBufferLength
  <2>1. UNCHANGED final \/ (final < VisBufferLength /\ final' = final + 1)
    BY DEF Writer, Start, StartSignal, Check, SendMonitorData, CopyVisData, SignalMonitor
  <2> QED BY <2>1, Bounds
<1>7. monitorwritelock' \in {"free", "writer", "monitor"}
  BY DEF TypeOK, Writer, Start, StartSignal, Check, SendMonitorData, TryLock, CopyVisData,
     SignalMonitor, monitorvars
<1>8. buf' \in Nat \cup {Torn, None}
  <2>1. buf' \in {buf, Torn, vis}
    BY DEF Writer, Start, StartSignal, Check, SendMonitorData, TryLock, CopyVisData,
       SignalMonitor, monitorvars
  <2> QED BY <2>1, Bounds DEF TypeOK
<1>9. nbuf' \in Lengths
  BY DEF TypeOK, Lengths, Writer, Start, StartSignal, Check, SendMonitorData, CopyVisData,
     SignalMonitor, monitorvars
<1> QED BY <1>1, <1>2, <1>3, <1>4, <1>5, <1>6, <1>7, <1>8, <1>9 DEF TypeOK

\* A step of the monitor thread.
LEMMA MonitorType ==
    ASSUME TypeOK, Monitor
    PROVE  TypeOK'
<1> USE DEF Monitor, Local, CheckKeepWriting, LockCond, Wait, Woken, TestQuit, LockWrite, Look,
        Close, OpenSocket, Send, SpuriousWakeup, Goto, Unlock
<1>1. UNCHANGED <<writervars, writethreadinitialised, keepwriting, buf>>
  BY DEF mainvars, monitorvars
<1>2. /\ mpc' = mpc \/ mpc' = "initcheck"
      /\ pc' \in {"none", "open", "check", "lock", "locked", "wait", "woken", "test",
                  "lockwrite", "look", "send", "close", "ended"}
  BY DEF mainvars, TypeOK
<1>3. moncondlock' \in {"free", "monitor"} /\ monitorwritelock' \in {"free", "writer", "monitor"}
  BY DEF monitorvars, TypeOK
<1>4. nbuf' \in Lengths
  BY DEF monitorvars, TypeOK, Lengths
<1>5. monsockStatus' \in {"OPENED", "PENDING", "CLOSED"}
  <2>1. NextStatus \subseteq {"OPENED", "PENDING", "CLOSED"}
    BY DEF NextStatus, TypeOK
  <2> QED BY <2>1 DEF monitorvars, socketvars, TypeOK
<1>6. stream' \in Seq(Nat \cup {Torn, None})
  <2>1. stream' = stream \/ stream' = Append(stream, buf)
    BY DEF monitorvars, socketvars
  <2> QED BY <2>1 DEF TypeOK
<1> QED BY <1>1, <1>2, <1>3, <1>4, <1>5, <1>6 DEF TypeOK, writervars
-------------------------------------------------------------------------------
(* The mutexes, the loop and the stream.                                       *)

\* A step of the main thread takes no mutex and writes nothing.
LEMMA MainKeeps ==
    ASSUME StreamInv, Main
    PROVE  MutexOK' /\ LoopOK' /\ CopyOK' /\ SentOK' /\ StreamInOrder'
<1>0. TypeOK /\ MutexOK /\ LoopOK /\ CopyOK /\ SentOK /\ StreamInOrder
  BY DEF StreamInv, LinkInv
<1>1. UNCHANGED <<wpc, vis, final, monitorwritelock, buf, nbuf, stream>>
  BY DEF Main, InitCheck, InitSleep, LaunchMonitor, StopWriting, SignalQuit, Join, writervars,
     monitorvars, socketvars
<1>2. /\ pc' = pc \/ (pc = "none" /\ pc' = "open") \/ (pc = "wait" /\ pc' = "woken")
      /\ keepwriting' => keepwriting
  BY <1>0 DEF Main, InitCheck, InitSleep, LaunchMonitor, StopWriting, SignalQuit, Join, LoopOK
<1>3. MutexOK'
  BY <1>0, <1>1, <1>2 DEF MutexOK
<1>4. LoopOK'
  <2>1. mpc' \in {"initcheck", "initsleep", "initwait", "launch"} => pc' = "none"
    BY <1>0 DEF Main, InitCheck, InitSleep, LaunchMonitor, StopWriting, SignalQuit, Join, LoopOK
  <2> QED BY <1>0, <1>1, <1>2, <2>1 DEF LoopOK
<1>5. CopyOK'
  BY <1>0, <1>1 DEF CopyOK, Torn, None
<1>6. Quitting => Quitting'
  BY <1>2 DEF Quitting
<1>7. SentOK'
  BY <1>0, <1>1, <1>6 DEF SentOK
<1>8. StreamInOrder'
  BY <1>0, <1>1 DEF StreamInOrder
<1> QED BY <1>3, <1>4, <1>5, <1>7, <1>8

\* A step of the write thread, which may wake the monitor thread and sends nothing.
LEMMA WriterKeeps ==
    ASSUME StreamInv, Writer
    PROVE  MutexOK' /\ LoopOK' /\ CopyOK' /\ SentOK' /\ StreamInOrder'
<1>0. TypeOK /\ MutexOK /\ LoopOK /\ CopyOK /\ SentOK /\ StreamInOrder
  BY DEF StreamInv, LinkInv
<1>1. UNCHANGED <<keepwriting, stream>>
  BY DEF Writer, Start, StartSignal, Check, SendMonitorData, CopyVisData, SignalMonitor,
     mainvars, monitorvars, socketvars
<1>2. /\ pc' = pc \/ (pc = "wait" /\ pc' = "woken")
      /\ mpc' \in {"initcheck", "initsleep", "initwait", "launch"} =>
            mpc \in {"initcheck", "initsleep", "initwait", "launch"}
  <2>1. UNCHANGED <<mpc, pc>> \/ Signal
    BY DEF Writer, Start, StartSignal, Check, SendMonitorData, CopyVisData, SignalMonitor, mainvars
  <2> QED BY <2>1 DEF Signal
<1>3. MutexOK'
  <2>1. \/ UNCHANGED monitorwritelock /\ wpc # "copy" /\ wpc' # "copy"
        \/ monitorwritelock = "free" /\ monitorwritelock' = "writer" /\ wpc' = "copy"
        \/ wpc = "copy" /\ monitorwritelock' = "free" /\ wpc' = "signal"
    BY DEF Writer, Start, StartSignal, Check, SendMonitorData, TryLock, CopyVisData, SignalMonitor,
       monitorvars
  <2> QED BY <1>0, <1>2, <2>1 DEF MutexOK
<1>4. LoopOK'
  <2>1. \/ wpc' \notin {"write", "copy", "signal"} /\ final' = final
        \/ wpc = "check" /\ wpc' = "write" /\ vis' = vis /\ final' = final + 1 /\ ~keepwriting
        \/ wpc = "check" /\ wpc' = "write" /\ vis' = vis /\ final' = final /\ keepwriting /\ vis < MaxVis
        \/ wpc = "check" /\ wpc' = "ended" /\ final' = final
        \/ wpc \in {"write", "copy"} /\ UNCHANGED <<vis, final>>
    BY DEF Writer, Start, StartSignal, Check, SendMonitorData, TryLock, CopyVisData, SignalMonitor
  <2>2. /\ final' > 0 => ~keepwriting'
        /\ wpc' \in {"write", "copy", "signal"} /\ final' = 0 => vis' < MaxVis
    BY <1>0, <1>1, <2>1, Bounds DEF LoopOK
  <2> QED BY <1>0, <1>2, <2>2 DEF LoopOK
<1>5. Quitting => Quitting'
  BY <1>1, <1>2 DEF Quitting
<1>6. StreamInOrder'
  BY <1>0, <1>1 DEF StreamInOrder
<1>7. CASE Start \/ StartSignal \/ Check
  <2>1. /\ UNCHANGED <<vis, buf, nbuf>> /\ wpc \notin {"copy", "signal"} /\ wpc' \notin {"copy", "signal"}
        /\ final' = final \/ final' = final + 1
    BY <1>7 DEF Start, StartSignal, Check, monitorvars
  <2>2. CopyOK'
    BY <1>0, <2>1, Bounds DEF CopyOK
  <2>3. SentOK'
    BY <1>0, <1>1, <1>5, <2>1 DEF SentOK
  <2> QED BY <1>3, <1>4, <1>6, <2>2, <2>3
<1>8. CASE SendMonitorData
  <2>1. wpc = "write" /\ UNCHANGED <<final, nbuf>>
    BY <1>8 DEF SendMonitorData
  <2>2. \/ wpc' = "copy" /\ buf' = Torn /\ vis' = vis
        \/ wpc' = "check" /\ Advance /\ buf' = buf
    BY <1>8 DEF SendMonitorData, TryLock
  <2>3. CopyOK'
    BY <1>0, <2>1, <2>2, Bounds DEF CopyOK, Advance
  <2>4. ASSUME stream # <<>>
        PROVE  LET last == stream[Len(stream)] IN
               /\ last < vis' \/ (last = vis' /\ Quitting')
               /\ nbuf' = "length" /\ wpc' # "copy" => last < buf' \/ Quitting'
    <3> DEFINE last == stream[Len(stream)]
    <3>1. last \in Int
      BY <1>0, <2>4, Bounds
    <3>2. last < vis \/ (last = vis /\ Quitting)
      BY <1>0, <2>1, <2>4 DEF SentOK
    <3>3. nbuf = "length" => last < buf \/ Quitting
      BY <1>0, <2>1, <2>4 DEF SentOK
    <3> HIDE DEF last
    <3>4. last < vis' \/ (last = vis' /\ Quitting')
      BY <1>0, <1>5, <2>2, <3>1, <3>2, Bounds DEF Advance
    <3>5. nbuf' = "length" /\ wpc' # "copy" => last < buf' \/ Quitting'
      BY <1>5, <2>1, <2>2, <3>3
    <3> QED BY <3>4, <3>5 DEF last
  <2>5. SentOK'
    BY <1>1, <2>4 DEF SentOK
  <2> QED BY <1>3, <1>4, <1>6, <2>3, <2>5
<1>9. CASE CopyVisData
  <2>1. wpc = "copy" /\ wpc' = "signal" /\ buf' = vis /\ UNCHANGED <<vis, final>>
    BY <1>9 DEF CopyVisData
  <2>2. CopyOK'
    BY <1>0, <2>1, Bounds DEF CopyOK
  <2>3. ASSUME stream # <<>>
        PROVE  LET last == stream[Len(stream)] IN
                 last < vis \/ (last = vis /\ Quitting)
    BY <1>0, <2>1, <2>3 DEF SentOK
  <2>4. SentOK'
    BY <1>1, <1>5, <2>1, <2>3 DEF SentOK
  <2> QED BY <1>3, <1>4, <1>6, <2>2, <2>4
<1>10. CASE SignalMonitor
  <2>1. wpc = "signal" /\ wpc' = "check" /\ UNCHANGED <<final, buf, nbuf>> /\ Advance
    BY <1>10 DEF SignalMonitor, monitorvars
  <2>2. CopyOK'
    BY <1>0, <2>1, Bounds DEF CopyOK, Advance
  <2>3. ASSUME stream # <<>>
        PROVE  LET last == stream[Len(stream)] IN
               /\ last < vis' \/ (last = vis' /\ Quitting')
               /\ nbuf' = "length" /\ wpc' # "copy" => last < buf' \/ Quitting'
    <3> DEFINE last == stream[Len(stream)]
    <3>1. last \in Int
      BY <1>0, <2>3, Bounds
    <3>2. last < vis \/ (last = vis /\ final = 0) \/ (last = vis /\ Quitting)
      BY <1>0, <2>1, <2>3 DEF SentOK
    <3>3. nbuf = "length" => last < buf \/ Quitting
      BY <1>0, <2>1, <2>3 DEF SentOK
    <3> HIDE DEF last
    <3>4. last < vis' \/ (last = vis' /\ Quitting')
      BY <1>0, <1>5, <2>1, <3>1, <3>2, Bounds DEF Advance
    <3>5. nbuf' = "length" /\ wpc' # "copy" => last < buf' \/ Quitting'
      BY <1>5, <2>1, <3>3
    <3> QED BY <3>4, <3>5 DEF last
  <2>4. SentOK'
    BY <1>1, <2>3 DEF SentOK
  <2> QED BY <1>3, <1>4, <1>6, <2>2, <2>4
<1> QED BY <1>7, <1>8, <1>9, <1>10 DEF Writer

\* The monitor thread sends what is in the buffer.
LEMMA SendKeeps ==
    ASSUME StreamInv, Send, stream' = Append(stream, buf), nbuf = "length"
    PROVE  SentOK' /\ StreamInOrder'
<1>0. TypeOK /\ MutexOK /\ LoopOK /\ CopyOK /\ SentOK /\ StreamInOrder
  BY DEF StreamInv, LinkInv
<1>1. /\ pc = "send" /\ pc' = "check" /\ nbuf' = "zero"
      /\ UNCHANGED <<wpc, vis, final, keepwriting, buf>>
  BY DEF Send, Unlock, mainvars, writervars
<1>2. wpc # "copy" /\ ~Quitting
  BY <1>0, <1>1 DEF MutexOK, Quitting
<1>3. buf \in Nat /\ (buf < vis \/ (buf = vis /\ (wpc = "signal" \/ final > 0)))
  BY <1>0, <1>2, Bounds DEF CopyOK
<1>4. stream # <<>> => stream[Len(stream)] < buf
  BY <1>0, <1>2 DEF SentOK
<1>5. /\ Len(stream) \in Nat /\ Len(stream') = Len(stream) + 1 /\ stream'[Len(stream) + 1] = buf
      /\ \A i \in 1 .. Len(stream) : stream'[i] = stream[i]
  BY <1>0, Bounds
<1>6. SentOK'
  <2>1. (wpc = "signal" /\ final = 0) \/ ~(buf = vis) \/ Quitting'
    <3>1. final \in Nat /\ (final > 0 => ~keepwriting)
      BY <1>0, Bounds DEF LoopOK
    <3> QED BY <1>1, <1>3, <3>1 DEF Quitting
  <2> QED BY <1>1, <1>3, <1>5, <2>1 DEF SentOK
<1>7. ASSUME NEW i \in 1 .. Len(stream') PROVE stream'[i] >= 0
  <2>1. i \in 1 .. Len(stream) \/ i = Len(stream) + 1
    BY <1>5
  <2> QED BY <1>0, <1>3, <1>5, <2>1 DEF StreamInOrder
<1>8. ASSUME NEW i \in 1 .. Len(stream') - 1 PROVE stream'[i] < stream'[i + 1]
  <2>1. i \in 1 .. Len(stream)
    BY <1>5
  <2>2. CASE i = Len(stream)
    <3>1. stream # <<>>
      BY <1>5, <2>1
    <3> QED BY <1>4, <1>5, <2>1, <2>2, <3>1
  <2>3. CASE i # Len(stream)
    <3>1. i \in 1 .. Len(stream) - 1 /\ i + 1 \in 1 .. Len(stream)
      BY <1>5, <2>1, <2>3
    <3> QED BY <1>0, <1>5, <2>1, <3>1 DEF StreamInOrder
  <2> QED BY <2>2, <2>3
<1> QED BY <1>6, <1>7, <1>8 DEF StreamInOrder

\* A step of the monitor thread.
LEMMA MonitorKeeps ==
    ASSUME StreamInv, Monitor
    PROVE  MutexOK' /\ LoopOK' /\ CopyOK' /\ SentOK' /\ StreamInOrder'
<1>0. TypeOK /\ MutexOK /\ LoopOK /\ CopyOK /\ SentOK /\ StreamInOrder
  BY DEF StreamInv, LinkInv
<1>1. UNCHANGED <<wpc, vis, final, keepwriting, buf>> /\ (nbuf' = nbuf \/ nbuf' = "zero")
  BY DEF Monitor, Local, CheckKeepWriting, LockCond, Wait, Woken, TestQuit, LockWrite, Look,
     Close, OpenSocket, Send, SpuriousWakeup, mainvars, writervars, monitorvars
<1>2. MutexOK'
  <2>1. \/ UNCHANGED monitorwritelock /\ (pc \in {"look", "send"} <=> pc' \in {"look", "send"})
        \/ monitorwritelock = "free" /\ monitorwritelock' = "monitor" /\ pc' = "look"
        \/ pc \in {"look", "send"} /\ monitorwritelock' = "free" /\ pc' = "check"
    BY DEF Monitor, Local, CheckKeepWriting, LockCond, Wait, Woken, TestQuit, LockWrite, Look,
       Close, OpenSocket, Send, SpuriousWakeup, monitorvars, Goto, Unlock
  <2> QED BY <1>0, <1>1, <2>1 DEF MutexOK
<1>3. LoopOK'
  <2>1. /\ mpc' = mpc \/ (mpc = "initwait" /\ mpc' = "initcheck")
        /\ pc = "none" => pc' = "none"
    BY DEF Monitor, Local, CheckKeepWriting, LockCond, Wait, Woken, TestQuit, LockWrite, Look,
       Close, OpenSocket, Send, SpuriousWakeup, mainvars, Goto, Unlock
  <2> QED BY <1>0, <1>1, <2>1 DEF LoopOK
<1>4. CopyOK'
  BY <1>0, <1>1, Bounds DEF CopyOK
<1>5. Quitting => Quitting'
  BY DEF Quitting, Monitor, Local, CheckKeepWriting, LockCond, Wait, Woken, TestQuit, LockWrite, Look,
     Close, OpenSocket, Send, SpuriousWakeup, mainvars, Goto, Unlock
<1>6. stream' = stream \/ (Send /\ stream' = Append(stream, buf) /\ nbuf = "length")
  BY DEF Monitor, Local, CheckKeepWriting, LockCond, Wait, Woken, TestQuit, LockWrite, Look,
     Close, OpenSocket, Send, SpuriousWakeup, monitorvars, socketvars
<1>7. SentOK' /\ StreamInOrder'
  <2>1. CASE stream' = stream
    <3>1. StreamInOrder'
      BY <1>0, <2>1 DEF StreamInOrder
    <3>2. SentOK'
      BY <1>0, <1>1, <1>5, <2>1 DEF SentOK
    <3> QED BY <3>1, <3>2
  <2>2. CASE Send /\ stream' = Append(stream, buf) /\ nbuf = "length"
    BY <2>2, SendKeeps
  <2> QED BY <1>6, <2>1, <2>2
<1> QED BY <1>2, <1>3, <1>4, <1>7

-------------------------------------------------------------------------------
(* The theorem.                                                                *)

\* Nothing was copied or sent when the manager starts.
LEMMA StreamInit == Init => StreamInv
<1> SUFFICES ASSUME Init PROVE StreamInv
  OBVIOUS
<1>1. TypeOK
  <2>1. stream \in Seq(Nat \cup {Torn, None}) /\ buf \in Nat \cup {Torn, None} /\ nbuf \in Lengths
    BY DEF Init, Lengths
  <2>2. vis \in 0 .. MaxVis /\ final \in 0 .. VisBufferLength
    BY MaxVisAssumption, LengthAssumption DEF Init
  <2>3. writethreadinitialised \in BOOLEAN /\ keepwriting \in BOOLEAN
    BY DEF Init
  <2> QED BY <2>1, <2>2, <2>3 DEF Init, TypeOK
<1>2. StreamInOrder /\ SentOK
  BY DEF Init, StreamInOrder, SentOK
<1>3. MutexOK /\ LoopOK
  BY DEF Init, MutexOK, LoopOK
<1>4. CopyOK
  BY DEF Init, CopyOK, Torn, None
<1> QED BY <1>1, <1>2, <1>3, <1>4 DEF StreamInv, LinkInv

\* Every step of the three threads keeps the stream in order.
LEMMA StreamStep == StreamInv /\ [Next]_vars => StreamInv'
<1> SUFFICES ASSUME StreamInv, [Next]_vars PROVE StreamInv'
  OBVIOUS
<1>0. TypeOK /\ LoopOK
  BY DEF StreamInv, LinkInv
<1>1. CASE Main
  BY <1>0, <1>1, MainType, MainKeeps DEF StreamInv, LinkInv
<1>2. CASE Writer
  BY <1>0, <1>2, WriterType, WriterKeeps DEF StreamInv, LinkInv
<1>3. CASE Monitor
  BY <1>0, <1>3, MonitorType, MonitorKeeps DEF StreamInv, LinkInv
<1>4. CASE UNCHANGED vars
  <2>1. UNCHANGED <<mpc, writethreadinitialised, keepwriting, wpc, vis, final, pc, moncondlock,
                    monitorwritelock, buf, nbuf, monsockStatus, stream>>
    BY <1>4 DEF vars, mainvars, writervars, monitorvars, socketvars
  <2>2. TypeOK' /\ StreamInOrder'
    BY <2>1 DEF StreamInv, LinkInv, TypeOK, StreamInOrder
  <2>3. MutexOK' /\ LoopOK' /\ CopyOK'
    BY <2>1 DEF StreamInv, MutexOK, LoopOK, CopyOK, Torn, None
  <2>4. SentOK'
    BY <2>1 DEF StreamInv, SentOK, Quitting
  <2> QED BY <2>2, <2>3, <2>4 DEF StreamInv, LinkInv
<1> QED BY <1>1, <1>2, <1>3, <1>4 DEF Next, Finished

\* The monitor server is sent whole Visibilities, in the order they were written and
\* each once, although sendMonitorData overwrites the buffer whenever it finds it
\* unlocked and, after its loop, copies the same Visibility again and again.
THEOREM StreamIsInOrder == Spec => []LinkInv
<1>1. Init => StreamInv
  BY StreamInit
<1>2. StreamInv /\ [Next]_vars => StreamInv'
  BY StreamStep
<1>3. StreamInv => LinkInv
  BY DEF StreamInv
<1> QED BY <1>1, <1>2, <1>3, PTL DEF Spec
===============================================================================
