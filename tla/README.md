# A verification project for the DiFX correlator, mpifxcorr

DiFX is a software correlator for radio interferometry. Its core is the MPI
program `mpifxcorr` (`src/mpifxcorr/src`), which reads the recorded voltages of
many stations, cuts them into short *subintegrations*, correlates these in
parallel and accumulates the results into *visibilities* of a longer integration
time. This directory holds TLA+ models of the parts of it that run concurrently,
and of the readers that feed them, TLC runs that check them on small instances, and
TLAPS proofs.

## 1. Inventory

### The parts of the system

Every MPI rank plays one role.

| part | source | state | operations | threads |
|---|---|---|---|---|
| FxManager (rank 0) | `fxmanager.cpp` | the next time to dispatch; for each Core the ring of times it was given, the count of what it was sent and what it returned without being sent more; the window of locked Visibilities | `execute`, `sendData`, `receiveData`, `locateVisIndex`, `terminate`, `interrupthandler`, `loopwrite` | main, write, monitor |
| Visibility | `visibility.cpp` | scan and start of its period, the number of subintegrations it has and expects, results | `addData`, `increment`, `updateTime`, `changeConfig`, `writedata`, `copyVisData` | those of the manager |
| monitor link | `fxmanager.cpp` | a buffer with a copy of a Visibility, the socket's status | `sendMonitorData`, `MonitorThread`, `checkSocketStatus`, `openMonitorSocket` | monitor, write |
| DataStream | `datastream.cpp` | a ring of data segments, with a header, a number of outstanding sends and a mutex each; the file being read | `execute`, `calculateControlParams`, `waitForSendComplete`, `loopfileread`, `diskToMemory`, `waitForBuffer`, `openfile`, `updateConfig` | main, read |
| Core | `core.cpp` | a ring of four processing slots, with one mutex per slot and process thread | `execute`, `receivedata`, `loopprocess`, `processdata`, `updateconfig` | main, n process threads |
| Mode, PCal, Polyco | `mode.cpp`, ... | station processing | numerics | those of the Core |
| Configuration, Model | `configuration.cpp`, `model.cpp` | the job | parsing, look-up | (read only) |
| VDIF data stream | `vdiffile.cpp` | a ring of slots with a mutex each, slot 0 sharing that of the last; the end of the file | `readthreadfunction`, `dataRead`, `diskToMemory`, `initialiseFile` | read, and a reader per file |
| UDP data stream | `mk5.cpp` | the packet of the first unit wanted, the packet in `udp_buf` and how much of it is of use | `readnetwork`, `networkToMemory` | read |
| DataMuxer | `datamuxer.cpp` | a ring of frames per station thread, the next frame to take | `deinterlace`, `multiplex`, `readonedemux` | read |
| other data streams | `mark5bmark5.cpp`, `vdifmark5.cpp`, `nativemk5.cpp`, ... | as the VDIF data stream | other ways to read | read (some have one more) |
| main, command thread | `mpifxcorr.cpp` | the role of a rank; the end of the job | barriers, start and stop | command |

The manager sends a *time* (scan, second, nanosecond) to a Core and to every
DataStream, with the Core's rank. The DataStreams look up the data of that time
and `MPI_Issend` it to the Core together with flags that say which FFT blocks are
valid. The Core receives it into a slot, its threads correlate it, and three
subintegrations later the main thread sends the accumulated results to the
manager with `MPI_Ssend`. *The results carry no time*: the manager knows what
they are of by counting. It adds them to the Visibility of that period, and a
Visibility with all its subintegrations is left to the write thread. Termination
is a message from the manager to each rank.

### What is hard about it, and what must hold

* **Core.** Mutexes are passed hand over hand by threads that run at different
  speeds behind the main thread; the start and the end of a job take special
  paths, and a job shorter than the ring takes others. *Every result sent must be
  that of all threads on the right data, in order, exactly once; nobody works in
  a slot that another one writes; the Core always ends.*
* **FxManager and Visibility.** Attribution by counting across three phases
  (filling up, steady state, draining), results out of order between Cores, a
  buffer that may be too small, Visibilities that are reused for later periods by
  another thread, interrupts. *Results go to their own period; each is on disk
  once, in order of time; the main and the write thread stay apart.*
* **Monitor link.** A condition variable with two kinds of waiters and a network
  that may not answer. *The correlation never waits for the network, and a copy
  that is being overwritten is never sent.*
* **DataStream.** Data is sent from the ring without blocking, so a segment is in
  use long after its mutex was released; files begin late, end early, follow with
  a gap or not at all. *What is flagged as valid is the data of the time asked
  for until the Core has it; what was read is not lost; the threads do not wait
  for each other for ever.*

* **VDIF reader.** Two threads hand slots of a ring to each other with mutexes that
  are locked by one for the other; the end of the file is announced without one.
  *What is multiplexed is the file, in order and complete; the slot that is being
  read into is not looked at; nobody waits for ever at the end of a file or job.*
* **UDP reader.** Packets are lost, repeated and reordered, and are no multiple or
  divisor of what is asked for. *Every unit in its place, or fill data.*
* **DataMuxer.** Threads interlaced in any order, with losses; two rings and reads
  that must stay ahead of what is taken, but not too far. *Frames in order of time,
  valid if and only if they are there, and no abort.*
* **Ranks.** Blocking sends in a circle: manager to data stream, data stream to
  Core, Core to manager. *Data meets its request, every request has its result, and
  all ranks get to the last barrier.*

`PROJECT.json` lists the hazards one by one, with the line and the properties
that would catch them.

## 2. Plan

Done:

1. `CoreSpec`, `CoreRing`: the ring of the Core and what it promises.
2. `FxManager`: dispatch, accumulation and writing, over Cores as in `CoreSpec`.
3. `MonitorLink`: the condition variable of the manager.
4. `DataStream`: reading from files and sending.

5. `MpiRanks`: manager, data streams and Cores over their MPI calls, for freedom
   from deadlock across ranks and the matching of messages.
6. `VdifReader`: the VDIF data stream and its reader thread.
7. `UdpStream`: numbered packets from the network.
8. `DataMuxer`: the rings of interlaced VDIF threads.

To do, in this order:

9. scans without a configuration in `DataStream` (`peekfile`, scan skipping), and
   the TCP and fake readers as further readers of the same ring;
10. the nanosecond arithmetic of Visibility times (constructor and `updateTime`)
    as operators against a reference definition;
11. `datacheck` of the DataMuxer, with foreign packets at the end of a file, and its
    skipped frames;
12. the value of `executeseconds` that each rank reads after a stop message;
13. the reader threads of `mark5bmark5.cpp` and `vdifmark5.cpp`, as variants of
    `VdifReader`.

Proofs: the invariants of `CoreRing`, `MpiRanks`, `FxManager`, `MonitorLink` and
`DataMuxer` that hold for all constants are proved, and the others of `FxManager` and those of
`VdifReader` and `UdpStream` under the hypotheses or conditions named in section 5. To come: in `DataStream`, that
main and read thread never hold the same segment and the bound on `numsent`.

## 3. Modules

Every definition's source lines are in the `map` of `PROJECT.json`. Definitions
whose comment begins with *Mutant* are faulty variants of the definition that
follows; they show that the properties can fail. Nothing uses them.

### CoreRing, CoreSpec

`CoreRing` has an action for each step of `execute()` of the main thread between
two operations on a mutex or a condition variable, and for each such step of
`loopprocess()`. `pc` and `tpc` are the program counters, `mi` and `di` the main
thread's loop variables, `owner[slot][thread]` the mutex `slotlocks`. What a thread
computes is a tuple of its pass, its number, the subintegration the slot was
filled with and the configuration it was set up for; the slot's `results` are the
set of these, so a missing, doubled or stale contribution shows. Locking several
mutexes before the threads exist is one step (`Launch`, `ReturnQuietly`). Sending
and receiving are atomic: the manager is always ready.

`CoreSpec` is the promise to the manager: results whole, in order, exactly once,
with at most four outstanding, and all of them after the terminate message.
`CoreRing` refines it with `received <- numreceived`, `stopped <- terminate`.

### FxManager

The main thread's `execute()`, `receiveData()` and `locateVisIndex()` are split
where they lock, unlock or touch what another thread sees; `resend` is the argument
of `receiveData()`, FALSE after the terminate messages, when a result is received
without sending more. The write thread's last pass, after the main thread has asked it
to end, is one step per Visibility. Time is counted in subintegrations, the middle of one in halves;
integration times are whole numbers of subintegrations. `Far` stands for `LLONG_MAX`. A Core is a queue that
returns what it was given in order (`CoreSpec`), any Core at any time.
`visbuffer[v].got` is the set of results added to a Visibility. `increment()` is
one step per `updateTime()`.

`CaughtUp` translates a comparison of nanoseconds with seconds
(fxmanager.cpp:782): with any positive difference between two subintegrations the
first is greater, so the loop ends only at a difference of zero or less.

### MonitorLink

The main, write and monitor threads of the manager as far as they use
`writecond`, `moncondlock`, `monitorwritelock` and the flags tested before a wait.
The flags are read and written without a common mutex, so the test and the
beginning of the wait are separate steps. Waits may return spuriously. The
contents of the buffer are the number of the Visibility, `Torn` while it is being
copied. The bound `MaxVis` limits what is written before the job ends.

### DataStream

The main thread answers requests; the read thread fills segments. A unit of data
is an FFT block, identified by its time, so that `memory` shows for each place in
the ring which block is there (`Nothing` while it is being overwritten); a send
refers to memory until the Core has received it, and so do `SentRight` and
`NothingLost`. `overflow` is the space behind the ring to which its start is copied.
`calculateControlParams()` is one step per round of its loop with
`waitForSendComplete()` and the locks between them. The read begins (`BeginRead`)
and ends (`EndRead`) in two steps, between which the main thread runs.

Assumed: all scans have a configuration; the delay is constant and the size of a
subintegration is the same for all configurations; one list of files; a send is
not longer than a segment. Locking the segment ahead and unlocking the one left
behind is one step, the order of which nobody else can see.

### MpiRanks

One program counter per rank. Requests are numbered in the order the manager makes
them, and a message is a number that the sender has passed and the receiver has not,
since MPI does not let messages of one kind between two ranks overtake each other.
`MPI_Ssend` is a step of both sides: `AskStream` needs the data stream's posted
receive (it posts the next one as soon as it has taken a message), `Receive` needs
a Core that is sending. `MPI_Send` (`CanSendTo`) returns at once if `Eager`, as MPI
libraries do with messages of a few bytes, and otherwise when it is received.
`MPI_Issend` never waits, but a data stream that runs out of segments or of send
requests does: `MaxPending` and the choice in `SendData` stand for the ring that
module `DataStream` has in detail. The Core is as in `CoreSpec`, with its blocking
calls. The job may end after any number of requests up to `MaxRequests`.

### VdifReader

The *consumer* is the DataStream's read thread (`loopfileread`, `openfile`,
`initialiseFile`, `diskToMemory`, `dataRead`), the *reader* the thread started for
each file. There is an action for what lies between two operations on a mutex, and
for each read or write of `lastslot`, `endindex`, `keepreading` that the other thread
could come between. The ring holds units that are known by file and place, so that
`ShownInOrder` sees anything stale, repeated or missing. `waitForBuffer` and the
segments are in module `DataStream`.

`vdifmux` is in `vdifmux.c`. It goes through the frames it is shown, passes over fill
data, frames of other threads and old ones, and stops at a frame for which the segment
has no place (`Uses`). A segment of `ReadUnits` is made from as many units of the file
or more, since frames of several threads have a header each and become one; `MaxUsed`
is the most of them. It stops earlier where frames are missing in the file, and uses
everything if it is out of step. Where there is no frame at all it may fail
(`MuxFails`), in any file.

The code has no protection against six things. They happen in the model as they do in
the code, and `mishaps` records that they did:

| mishap | what has happened |
|---|---|
| `lapped` | a new file's reader came round to slot 1 before the consumer had locked it (vdiffile.cpp:692) |
| `overlap` | a file was opened while the reader of an earlier one was still running, which nobody joins (659) |
| `unnoticed` | a call used up the file and what is behind it, with the end in another slot than the one it looked at (696, 827) |
| `outside` | a call was shown, and used, more than the ring has (706); what follows is undefined |
| `kept` | a call gave up with slots locked (735, 763) |
| `stray` | `dataRead` was called with no file (682); what follows is undefined |

`mishaps` is a ghost: no action depends on it. The properties of the run are about
behaviours without a mishap so far (`Unharmed`; `ConsumerEnds` allows `lapped`). What the
code's comments and checks claim, and these break, is stated without that condition, and
section 4 has a configuration for each. Behaviours end in `pc = "lost"` where the code's
are undefined.

### UdpStream

One call of `readnetwork` is split into what it does with `udp_buf` (one action per
branch), one action per packet and branch, and the filling of what is missing. A
unit is 64 bits, to which packet sizes are rounded, and is known by its place in
the stream. The network delivers any packet up to `MaxLate` older than the newest
and skips up to `MaxLost`. `testForSync` is a choice: the segment begins with a
frame, or a number of units in `Catch` is missing and a second call gets them.

The ghost `mishaps` records two things after which `udp_offset` is no longer what the
comment at mk5.cpp:719 says. `endlost`: the last packet of some call has not come, or
not in time. `exact`: a call wanted exactly what was left of a packet. Then nothing needs to
be lost: `bytestoread < udp_offset` (mk5.cpp:790) is false, the call goes on to receive,
and the next packet is taken for one past its end. The calls that catch up can be such
calls. After either the properties but `TypeOK` and `NeverAborts` claim nothing
(`Unharmed`): they are about losses, repetitions and changes of order *within* calls. The
packet size is the one expected; any other aborts the job (mk5.cpp:851).

### DataMuxer

`VDIFMuxer` with `readonedemux`, `loopfileread` and `diskToMemory`. A slot is a frame
that the station recorded; the file has the slots in order but for neighbours
within `Window`, without those lost, and with `MaxUnwanted` frames of other threads.
`threadbuffers` holds headers; the data is not modelled, nor is `skipframes`, which
is 0 in all data streams but that for Mark5 modules. `threadbufferfree` is counted
in frames instead of as a fraction. Slots that were taken are dropped from
`delivered` to keep the state small. The file is the only one.

## 4. Runs

The `pass` runs check for deadlock, but for `vdif_read`, `udp_read` and `mux_read`,
in which the reader ends (or aborts) and nothing happens after it; `vdif_read` and
`mux_read` check that the end comes.

| run | instance | shows |
|---|---|---|
| `core_safety` | 3 threads, up to 7 subintegrations, 2 configurations | `TypeOK`, `ResultsWhole`, `SlotExclusive`, `UnlocksOwn`, and the inductive invariant `RingInv` of section 5 |
| `core_live` | 2 threads, up to 6 | refines `CoreSpec` with its liveness, `CleanExit`, `Terminates` |
| `fx_ample` | 2 Cores, 11 subintegrations in 3 scans, 10 Visibilities, interrupt | `Attribution`, `HeldWhileAdding`, `ReleasedFull`, `WrittenBelong`, `OnDiskOnce` |
| `fx_small` | 2 Cores, one subintegration per integration, 6 Visibilities, interrupt | the buffer overflows and is reused: `BufferInv` (`TypeOK`, `LocksConsistent`), `WrittenRight` (`WrittenInOrder`, `WrittenOnce`), `Terminates` |
| `monitor_send` | 6 Visibilities, every other one sent | `LinkInv` (`TypeOK`, `StreamInOrder`), `WriterEnds` whatever the network does |
| `ds_one` | 5 segments of 4 units, one file of 28 | `SentRight`, `NothingLost`, `HeldStable`, `Terminates` |
| `ds_gaps` | 6 segments of 2 units, 3 files, 2 scans | bad files, gaps, odd requests: `SendsRight` (`TypeOK`, `SentRight`), `Terminates` |
| `vdif_read` | 5 slots of 7 units, 15 lists of files of 3 to 55 units | `SlotsInv` (`TypeOK`, `WritesLocked`, `LocksKnown`, `ShownIsStable`), `ShownInOrder`, `NothingLeft`, `ConsumerEnds` |
| `mpi_job` | 2 Cores with rings of 3, 2 data streams, up to 9 requests | `DataMatches`, `NothingForSender`, `ResultsCounted` (`TypeOK`, `TimesRemembered`, `AllReturned`), `JobEnds`, no deadlock |
| `udp_read` | packets of 3 units, segments of 8, 12 packets, 2 lost together, 2 late | `SegmentRight` (`InPlace`, `DeliveredKept`), `CallsSafe` (`TypeOK`, `WithinSegment`, `NeverAborts`), `OffsetRight` |
| `mux_read` | 2 threads, reads of 10 frames, 82 slots, 5 frames per second | `RingsRight` (`TypeOK`, `RingsInWindow`), `OutputInOrder`, `ValidIfRecorded`, `NeverTooFar`, `FileRead` |

**Bounds.** The ring of a Core has its real length, 4. Seven subintegrations use
every slot, three of them twice, and lengths 0 to 7 include every short job and the
first two that are not; the number may stop anywhere since the terminate message
may come at any time. Configurations change at the third and the fifth. In
`fx_ample` the Cores are filled up (8) and three more are dispatched, with a short
last integration and a scan without a configuration between two others. In `fx_small`
two Cores can be eight integrations apart with a buffer that keeps three, and the
writer goes round it. `ds_one` reads seven segments
into a ring of five, so that two are refilled and the end of the ring is passed,
with subintegrations that straddle segments; the sends complete in any order and at
any time. `MaxSends` is reached in `ds_gaps`. The terminate message may come before
any request.

`vdif_read` has five slots, the least with which the two threads do not wait for
each other (the code has eight); files end in each slot, in its middle and at its
end, in the first and the second round of the ring, and one has unwanted frames up to
the end of the ring. `vdifmux` puts up to 4 units into a segment of 3, and less where it
stops early. Each of the mishaps happens in the run. A slot holds two and a third reads, the code's two and a tenth. `mpi_job` has rings of 3 instead of 4: the fill-up is 6 requests, and three
more are in the steady state. In `udp_read` 8 units are neither a multiple nor a divisor of 3, so
that calls begin and end at every place in a packet; four segments are read, with
catching up of less than a packet and of more. In `mux_read` the rings have 20 places
and 41 frames are taken from each, in nine seconds; one slot in twelve and the next
may be lost, two in a read.

**Fairness.** Weak fairness of each thread: the operating system runs a thread that
can run. A mutex is waited for by at most one thread besides its holder in all
modules, so weak fairness is enough for it to get it. Further: the manager
terminates a Core or a DataStream some time (it does after its last dispatch), Cores
receive what is sent to them (their main loop does nothing else). In `mpi_job`
each rank is fair and the end of the job comes; `vdif_read` assumes both threads
fair, `mux_read` the one there is. `udp_read` has no liveness: the network owes
nothing. In `monitor_send`
nothing is assumed of the network; in `MCMonitorLink_quit.cfg` it answers.

### Where the code does not do what it says

`ds_copy` ends in a violation: when a file ends within a segment and the next
one continues it, a copy that should fill up the segment overwrites its start.
`findings` quotes the lines.

Further deviations are below. Their configurations are kept, and TLC reports the
violation of the property named when it is given them, but they are not among the
runs.

| configuration | property | what it shows |
|---|---|---|
| `MCCoreRing_free.cfg` | `FreesOldSpace` | pulsar space freed with another slot's configuration |
| `MCCoreRing_startup.cfg` | `StartupEnds` | a signal of a starting thread can be lost after a spurious wake-up |
| `MCFxManager_drop.cfg` | `WrittenBelong` | nanoseconds compared with seconds (fxmanager.cpp:782): with a buffer that is too small a result goes to a later integration |
| `MCFxManager_inttime.cfg` | `LocatedRight` | a result located with the integration time of a later scan |
| `MCFxManager_expected.cfg` | `ReleasedFull` | a scan's first integration expects the count of the scan before |
| `MCMonitorLink_start.cfg` | `StartupEnds` | the write thread's start signal is sent outside the mutex of the wait (fxmanager.cpp:664) and can be lost |
| `MCMonitorLink_quit.cfg` | `ShutdownEnds` | the monitor thread can miss the signal to quit |
| `MCDataStream_five.cfg` | `Terminates` | with five segments, the least accepted, and a second file both threads can wait for ever |
| `MCDataStream_scan.cfg` | `SentRight` | data of the next scan counts as the continuation of this one |
| `MCDataStream_config.cfg` | `ConfigOfInterval` | a held segment's configuration is changed without its mutex |
| `MCDataStream_flags.cfg` | `NothingLost` | valid blocks in a partly used integer of flags are thrown away |
| `MCMpiRanks_ssend.cfg` | (deadlock) | `terminate()` sends to a Core that is sending a result, which nobody receives (fxmanager.cpp:299), if `MPI_Send` does not buffer |
| `MCVdifReader_lap.cfg` | `StartsAtBeginning` | a reader comes round to slot 1 before the consumer has locked it (vdiffile.cpp:692) |
| `MCVdifReader_delayed.cfg` | `StartsLocked` | two readers at once: the earlier one was never joined (659), and its last sweep releases the mutex locked for the new one |
| `MCVdifReader_end.cfg` | `ShownIsValid` | with `readbytes` to twice as much left, the slot after the last one is looked at, and `vdifmux` is shown what is behind the end of the file (696, 718) |
| `MCVdifReader_range.cfg` | `SlotInRange` | with exactly `readbytes` left in the last slot, one slot too many is wanted (696, "it should be impossible") |
| `MCVdifReader_early.cfg` | `NeverStray` | a file shorter than a segment: the second read has no file (682) |
| `MCVdifReader_hang.cfg` | `AlwaysEnds` | after `vdifmux` found no data its slots stay locked, and the next file waits (747-763; the exit at 728 has the same effect, with the comment "likely will hang mpifxcorr") |
| `MCUdpStream_lost.cfg` | `LeftUnderstood` | after the loss of a call's last packet `udp_offset` is off by a packet (mk5.cpp:905-910) |
| `MCUdpStream_exact.cfg` | `LeftUnderstood` | nothing is lost, but a call wants exactly what is left of a packet (mk5.cpp:790): `udp_offset` is off by a packet |
| `MCUdpStream_catch.cfg` | `CaughtUp` | the missing units are read over the start of the segment (datastream.cpp:1594) |
| `MCUdpStream_zero.cfg` | `InPlace` | a stream that begins with packet 0 has two first packets (mk5.cpp:856) |
| `MCDataMuxer_gap.cfg` | `NeverTooFar` | short reads and many losses: reads are left out too late, and the job aborts (datamuxer.cpp:821, 835) |
| `MCDataMuxer_unwanted.cfg` | `ValidIfRecorded` | many frames of other threads: reads fall behind, and recorded frames come out invalid |
| `MCDataMuxer_tail.cfg` | `NothingInRings` | the last frames of a file are never taken |

Each was cross-checked with an instance without its cause: the DataStream terminates
with six segments (`ds_gaps`) or with one file (`ds_one`), the Core starts without
spurious wake-ups (`core_live`), no flags are lost with `FlagsPerInt = 1`
(`ds_one`), and the results of the manager are right with a longer buffer or a
single integration time (`fx_ample`); `udp_read` and `mux_read` differ from these
configurations in the constants or in the conditions that are named in section 3, and
`vdif_read` in `Unharmed`.

## 5. Proofs

All theorems are proved by TLAPS for every value of the constants that satisfies the
named assumptions of the module (numbers of threads, Cores, streams and requests,
lengths of rings and buffers, scans, integration times, losses), and from nothing else.
Those assumptions are what the program checks itself, or what a size must be to be
one. The theorems on `UdpStream` have a hypothesis more, `Usual`, a
formula on the constants at the top of the proof module; the properties of `VdifReader` and
`UdpStream` are themselves conditional on `Unharmed` (section 3); and the last four on `FxManager` have
`OneInttime`, on the constants, and `[]NothingDropped` or `[]Roomy`, on the behaviour; what they
exclude really goes wrong, and section 4 has the configurations that show it. A proof has the same form everywhere: an
inductive invariant in named parts, defined beside the properties in the component's module or at
the top of the proof module, which TLC was given on the instances of section 4 first; one lemma per action and part that it can disturb;
and the theorems that follow from it.

| module | extends | theorems |
|---|---|---|
| `Induction` | | induction and recursion over numbers, for the others |
| `CoreRingProofs` | `CoreRing` | `TypeCorrect`, `RingCorrect`, `SlotsExclusive`, `UnlocksAreOwn`, `ResultsAreWhole`, `ExitIsClean`, `RingImplementsCore` |
| `MpiRanksProofs` | `MpiRanks` | `ResultsAreCounted`, `NothingIsOnItsWay`, `DataIsOfRequest` |
| `FxManagerProofs` | `FxManager`, `Induction` | `ManagerInvariant`, `ResultsAttributed`, `LocksAreConsistent`, `DiskInvariant`, `WrittenIsRight`, `BelongInvariant`, `WrittenBelongs`, `ReleasedIsFull`, `HeldIsAdded`, `KeptInvariant`, `EverythingIsOnDisk` |
| `MonitorLinkProofs` | `MonitorLink` | `StreamIsInOrder` |
| `DataMuxerProofs` | `DataMuxer`, `Induction` | `MuxInvariant`, `RingsAreRight`, `OutputIsInOrder` |
| `VdifReaderProofs` | `VdifReader`, `Induction` | `SlotInvariant`, `SlotsAreShared`, `ShownIsInOrder`, `NothingIsLeft` |
| `UdpStreamProofs` | `UdpStream`, `Induction` | `CallInvariant`, `CallsAreSafe`, `SegmentsAreRight`, `OffsetIsRight` |

### The Core

* `TypeCorrect`: `Spec => []TypeOK`. `TypeOK` is not inductive: that the loop
  variable `di` stays within the ring and `numreceived` within its bound depends on
  where the main thread is. `PhaseOK` relates `pc`, `numreceived`, `terminate`, the
  start of the threads and `di`; `TypeInv == TypeOK /\ PhaseOK` is inductive. The
  proof has one step per action (`TypeMain`, `TypeThread`).
* `RingCorrect`: `Spec => []RingInv`. `RingInv` is, together with `TypeInv`,
  inductive; `LockOK`, `StopOK` and `PaceOK` are not without the others.
  * `LockOK` says who holds each mutex at each place of the program. Most steps
    change one mutex; `LockChange` and `ThreadChange` reduce them to what
    `MainHolds` and `ThreadHolds` say of that one.
  * `StartOK`: a thread that the main thread waited for has its first slot.
  * `StopOK`: `keepprocessing` is cleared in the slot after the last
    subintegration; a thread that stopped has processed all of them. Needs `PaceOK`:
    a slot number tells subintegrations apart only within four (`SlotSame`).
  * `PaceOK`: how far a thread is behind. That a thread is not lapped
    (`LockNext`, `DrainLock`) needs `LockOK` and `StartOK`: the main thread
    cannot get the mutex of a slot that a running thread still has. That it does not
    overtake (`UnlockSlot`) needs `LockOK` too: otherwise the next slot would be one
    the main thread holds.
* `SlotsExclusive`: `Spec => []SlotExclusive`. Slots that are filled, sent or zeroed
  in the main loop are held; the last results are sent with no mutex held, and are safe
  because by `PaceOK` every thread is past them.
* `UnlocksAreOwn`: `Spec => []UnlocksOwn`, from `LockOK`.
* `ResultsAreWhole`, `ExitIsClean`: `DataInv` adds what is in the ring. `SentOK` says
  how many results are gone at each place of `execute()`; `ContentOK` that the slots of
  the four subintegrations from the first not returned have their data, their
  configuration and exactly the shares of the threads that are past them; `SetupOK`
  that a thread's configuration is that of the subintegration it is at; `JoinOK` that
  threads are joined after their last one. A result that is sent is whole because by
  `PaceOK` every thread is past it, so `Share(k) = Whole(k)`. That a slot
  is zeroed before a thread adds to it for the next round is the same fact read
  the other way.
* `RingImplementsCore`: `Spec => ImplementsCore`, that is `Abstract!Safety`. `DataInv`
  makes each `Append` to `sent` the abstract `Return`; other steps are `Receive`,
  `Stop` or a stutter.

### The ranks

`MessageInv` says where the manager and each Core are in the exchange. `CoreOK` gives
what a Core has returned as a function of what it has received and where it is; `GotOK`
that what it has received from a data stream is what it was asked for first; `FillOK`
describes the fill-up in turn, with a quotient and a remainder of the number of
requests; `CountOK` that `todrain`, or `ResultsOut` before it is set, is the
cardinality of the set of requests without a result, which is what makes the manager
stop when, and not before, it has all of them.

### The manager

* `ManagerInvariant`: `DispatchInv` (with `QueueOK`: a Core's queue is the
  end of what `coretimes` remembers, by positions modulo 4) gives `Attribution`;
  `LockInv` gives `LocksConsistent`. The latter is about a ring on which two threads
  follow each other: distances are `Window(a, b)`, and most of the work is in lemmas
  about them (`OnceRound` and those after it). `WindowOK` speaks of the end as well, when
  the main thread unlocks its window from the oldest on while the write thread may
  follow it.
* `WrittenIsRight`: `DiskInv`. That what is written is in order needs that the
  Visibilities are successive periods all the time, which is false exactly for the one
  that `increment()` moves on step by step; `PeriodsOK` says it is then at the
  period of the one `updates` places ahead. The last one of a scan, scans without a
  configuration and the end of the job (`PastEnd`, which `UpdateTime` leaves alone)
  are in the lemmas on periods. That nothing is written twice needs `OneResult` and
  `ShareOK`, and `JustWritten` for the Visibility whose data is still there.
* `WrittenBelongs`, `ReleasedIsFull`, `HeldIsAdded`: `BelongInv`, with two hypotheses.
  `OneInttime`: all configurations have the same integration time. Otherwise results are
  located with a later scan's (`MCFxManager_inttime.cfg`), and Visibilities expect another
  scan's count (`MCFxManager_expected.cfg`). `[]NothingDropped`: the loop that drops old data
  until a result fits is never entered; it compares nanoseconds with seconds
  (`MCFxManager_drop.cfg`). The oldest Visibility may still be given up when the buffer is
  nearly full.
  * What `locateVisIndex` compares is then whether the result belongs to the Visibility
    (`FitsBelongs`), and what is after a period is not before the next (`NextDifference`). By
    `PeriodsOK` the window is a chain of periods (`ChainTo`), so a result that is not before some
    Visibility of the window and is in none of them is after the newest (`AfterNewest`), and
    the first one locked that it is not after is its own.
  * A Visibility is released when it has as many results as it expects. They are distinct,
    belong to its period and are no fewer than the period has (`Expects`), so it is full
    (`CompleteIsFull`, by cardinality).
  * `FullReleased` is what makes the search among Visibilities that were released harmless, which
    the main thread no longer holds: they are full, and a result at hand is in none
    (`OneResult`).
* `EverythingIsOnDisk`: `KeptInv`, with `[]Roomy` in place of `[]NothingDropped`: the oldest
  Visibility is not given up incomplete either. `Roomy` says when `locateVisIndex` is entered that
  fewer than `VisBufferLength - 3` Visibilities are spanned; the instance of `fx_ample` has it in all its
  states. No bound on the constants gives it, as one Core may be late by any number of
  integrations.
  * `CountOK`: the results waited for are the subintegrations that are with Cores, counted as a
    set, in the fill-up, the steady state and the draining; so at the end there are none.
  * `NotBefore`: what is not stored is not before the oldest Visibility, which moves on only over
    full ones (`ChainTo` again). So no result is taken for stale (`NotIgnored`), and each one that was
    dispatched is with a Core, at hand, in the buffer or on disk (`KeptOK`).
  * `FlushedOK`: what the write thread has gone through is on disk before it is zeroed. It writes nothing
    of a Visibility past the end of the job; there is nothing in it, by `GotBelong`.

### The monitor link

`StreamInv`. The write thread copies without waiting for the monitor thread, so the same
Visibility could be sent twice or an older one after a newer; what prevents it is that
`nbuf` is zeroed under `monitorwritelock` when a copy is sent. `SentOK` says that the
last one sent is older than the copy unless `nbuf` is zero, and has the exceptions at
the end, when the final pass through the buffer copies the same number again and the
monitor thread is about to quit.

### The multiplexer

`MuxInv` adds to `RingsRight` and `OutputInOrder` that nothing is in the rings before
there is a reference frame, and that slots passed are in the window of the file. A
place is of one time because two times with the same remainder in a window of
`numthreadbufframes` are equal (`SamePlace`). `Multiplexed` is a recursive function;
`MultiplexedIs` unfolds it and `MultiplexedInOrder` is an induction over the frames of a
call.

### The VDIF reader

There is no hypothesis on the constants but the assumptions of the module: the number and
the size of slots, the files, `MaxUsed` and the place where `vdifmux` stops are any. What is
proved is `[](Unharmed => SlotInv)`; a mishap is never undone (`MishapsStay`), so a step into
an unharmed state starts from one.

`SlotInv` says who has which mutex (`Readers`, `Consumers`, `Phases`), and while a file is
read (`FileInv`) how far the threads are. Slot numbers and `muxindex` are the same
in every round of the ring, so the invariant numbers the slots of a file without end: there
are multiples `c` and `d` of `lockmod` such that the consumer's slots are
`c + lockstart .. c + lockend` (`ConsumerAt`), the reader's is `d` plus its own
(`ReaderAt`), and the consumer is behind it by less than a round (`Behind`). Neither
count is in the program; what keeps them together is that a mutex is that of every
`lockmod`th slot, so that a thread that gets one knows the other is not there, in this round or
the next. When the consumer takes slot 0 for the last one, `c` grows by a round and
the mutex, which they share, stays. `InRing` says that the ring holds the last round of
what was read, `InSlotZero` that the copy in front of it does; with the position of the
consumer they give `ShownInOrder`. `AtEnd`, `WindowAt` and `GoesOn` are about the end of the
file, where the consumer may want one slot more than there is (`MCVdifReader_range.cfg`): what
it is shown is then the file's for `ReadUnits`, and if it uses more than the file has, that is
the mishap `unnoticed` (`MuxNoticed`). They give `NothingLeft`.

### Packets from the network

`Usual`: the stream does not begin with packet 0 (`MCUdpStream_zero.cfg`), and a segment is a
packet or more. With smaller segments a call can begin and end within one packet, and
`OffsetRight` and `SegmentRight` fail.

`CallInv`. `CountOK` relates the number of packets of a call to the units wanted,
with the arithmetic of C (`CDivision`); it gives that `packets_arrived` is large
enough, for every loss. The rest is under `Unharmed`: the last packet of every call has come,
and no call wanted exactly what was left of one.
`Rests` says that what is over of a packet is what the stream goes on with: it holds between calls,
is taken up at the start of the next, and is set up again from the last packet received
(`FillOK`). `CallInStream` puts the first and the last unit wanted into the first and the last packet
of the call, so that a packet's place in the segment is that of its
units in the stream, cut off at both ends; `ArrivedThere` then keeps what was put
there, whatever comes after it, twice or late.

### Induction

The library's induction rules take an operator as a parameter, which the provers
cannot instantiate. `Induction` states them with sets and functions: `SetInduction`
(a set with 0 and with n + 1 if it has n has all numbers) and `Recursion` (a function
may be defined by its first value and its steps), from the library's theorem that the
numbers are well founded. That is enough for `ScanStart`, `NewVis` and `Multiplexed`.

### Only model-checked

* Liveness (`Terminates`, `WriterEnds`, `ConsumerEnds`, `JobEnds`, `FileRead`) and with it
  the fairness of `CoreSpec` (`ReturnsAll`): fairness and `ENABLED` are out of this prover's
  reach.
* `ValidIfRecorded` and `NeverTooFar` of `DataMuxer`: they are *not* true for all
  constants. The configurations `MCDataMuxer_gap` and `_unwanted` refute them; they hold with
  few losses, which the run checks.
* `DataStream`: `SentRight`, `NothingLost` and `SendsRight` have no proof so far.

## 6. Not modelled

Floating point processing (`mode.cpp`, `pcal.cpp`, `polyco.cpp`) is out of reach of
TLC and has no state that outlives a subintegration. Parsing of the job files
(`configuration.cpp`, `model.cpp`) is sequential; what it enforces is assumed. The
decoders of recording formats, the corner turners and `datacheck` of the DataMuxer,
the libraries under `src/libraries` and the programs under `src/applications` and
`src/utilities` are sequential, or separate programs, or vendored: they make up
nearly all of the repository's lines, and have little of what a model checker
reaches. The watchdog only aborts. The readers of disk modules
(`mark5bmark5.cpp`, `vdifmark5.cpp`, `nativemk5.cpp`, Mark6) use the ring of
`vdiffile.cpp` with a vendor's library as the source; those, TCP frames, generated
data and the commands of the command thread are in the plan.
