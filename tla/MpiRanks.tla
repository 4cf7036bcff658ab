-------------------------------- MODULE MpiRanks --------------------------------
(* The ranks of an mpifxcorr job and the messages between them: the manager    *)
(* (fxmanager.cpp), the data streams (datastream.cpp) and the Cores            *)
(* (core.cpp), from the barrier of main() after which they execute to the one  *)
(* before MPI_Finalize.  The manager asks a Core to work on a subintegration   *)
(* and every data stream to send it the data; the Cores send results back.     *)
(* Which subintegrations these are and what becomes of a result is in          *)
(* FxManager, what a data stream does before it sends in DataStream, what a    *)
(* Core does with the data in CoreRing.                                        *)
(*                                                                             *)
(* Requests are numbered in the order the manager makes them.  A message is    *)
(* a request number that one side has passed and the other has not: messages   *)
(* between two ranks with the same tag do not overtake each other.             *)
EXTENDS Integers, Sequences, FiniteSets

CONSTANTS
    NumCores,       \* numcores
    NumStreams,     \* numdatastreams
    RingLength,     \* Core::RECEIVE_RING_LENGTH
    MaxRequests,    \* subintegrations of the job
    MaxPending,     \* sends of a data stream that Cores have not received, when
                    \* it waits for them before it goes on
    Eager           \* whether MPI_Send returns before the message is received,
                    \* as MPI does with short messages; it need not

ASSUME SizeAssumption == /\ {NumCores, NumStreams} \subseteq Nat \ {0}
                         /\ RingLength \in Nat /\ RingLength >= 2
                         /\ MaxRequests \in Nat /\ MaxPending \in Nat \ {0}
                         /\ Eager \in BOOLEAN

Cores == 0 .. NumCores - 1
Streams == 0 .. NumStreams - 1

VARIABLES
    mpc,            \* where the manager is
    asked,          \* the Core of each request
    left,           \* ranks that the manager has still to send its message to
    todrain,        \* results to receive after the terminate messages
    returned,       \* results that the manager has received from each Core
    toldcore,       \* the Cores that have been sent CR_TERMINATE
    toldstream,     \* the data streams that have been sent DS_TERMINATE
    posted,         \* requests that each data stream has been sent
    started,        \* requests that each data stream has begun with
    datasent,       \* requests whose data each data stream has sent
    got,            \* requests whose data a Core has received from each of them
    spc,            \* where each data stream is
    cpc,            \* where each Core is
    numreceived,    \* requests whose data each Core has received
    taken           \* requests that each Core has received

manager == <<mpc, asked, left, todrain, returned, toldcore, toldstream>>
streams == <<posted, started, datasent, spc>>
cores == <<cpc, numreceived, taken>>
vars == <<manager, streams, cores, got>>

Requests == 1 .. Len(asked)

\* The requests of a Core, and the n-th of them
RequestsOf(c) == {k \in Requests : asked[k] = c}
NthRequest(c, n) == CHOOSE k \in RequestsOf(c) : Cardinality({j \in RequestsOf(c) : j <= k}) = n

\* The request that a Core is receiving the data of
Current(c) == NthRequest(c, taken[c])

Init ==
    /\ mpc = "next" /\ asked = <<>> /\ left = {} /\ todrain = 0
    /\ returned = [c \in Cores |-> 0]
    /\ toldcore = {} /\ toldstream = {}
    /\ posted = [s \in Streams |-> 0]
    /\ started = [s \in Streams |-> 0]
    /\ datasent = [s \in Streams |-> 0]
    /\ got = [s \in Streams |-> {}]
    /\ spc = [s \in Streams |-> "wait"]
    /\ cpc = [c \in Cores |-> "recv"]
    /\ numreceived = [c \in Cores |-> 0]
    /\ taken = [c \in Cores |-> 0]

-----------------------------------------------------------------------------
(* The manager.                                                                *)

\* Mutant: the Cores are given one more each.
FillingUpMore == Len(asked) < (RingLength + 1) * NumCores

FillingUp == Len(asked) < RingLength * NumCores

\* MPI_Send to a Core returns when the message is on its way, or when the Core
\* receives it
CanSendTo(c) == \/ Eager
                \/ cpc[c] = "recv" /\ taken[c] = Cardinality(RequestsOf(c))

\* The first part of sendData: the time goes to the Core; then every data stream
\* is to be asked
AskCore(c) ==
    /\ CanSendTo(c)
    /\ asked' = Append(asked, c)
    /\ left' = Streams
    /\ mpc' = "ask"

\* While the rings of the Cores are filled up they are asked in turn
FillUp ==
    /\ mpc = "next"
    /\ Len(asked) < MaxRequests /\ FillingUp
    /\ AskCore(Len(asked) % NumCores)
    /\ UNCHANGED <<todrain, returned, toldcore, toldstream, streams, cores, got>>

\* A result is received from a Core that is sending one
ResultFrom(c) == cpc[c] \in {"send", "drain"}

\* The Core's MPI_Ssend returns; it is done when it has sent all it has
ResultsLeft(c) == numreceived[c] - returned[c]

Receive(c) ==
    /\ ResultFrom(c)
    /\ returned' = [returned EXCEPT ![c] = @ + 1]
    /\ cpc' = [cpc EXCEPT ![c] = IF @ = "send" THEN "recv"
                                 ELSE IF ResultsLeft(c) = 1 THEN "done" ELSE "drain"]

\* receiveData(true): a result, from whichever Core, and the next request to it
ReceiveAndResend ==
    /\ mpc = "next"
    /\ Len(asked) < MaxRequests /\ ~FillingUp
    /\ \E c \in Cores : /\ Receive(c)
                        /\ mpc' = "resend" /\ left' = {c}
    /\ UNCHANGED <<asked, todrain, toldcore, toldstream, streams, numreceived, taken, got>>

Resend ==
    /\ mpc = "resend"
    /\ \E c \in Cores : c \in left /\ AskCore(c)
    /\ UNCHANGED <<todrain, returned, toldcore, toldstream, streams, cores, got>>

\* The second part of sendData: MPI_Ssend to each data stream in turn, which
\* returns when its receive has been posted
AskStream(s) ==
    /\ mpc = "ask"
    /\ s \in left /\ \A t \in left : s <= t
    /\ posted[s] = started[s]
    /\ posted' = [posted EXCEPT ![s] = @ + 1]
    /\ left' = left \ {s}
    /\ mpc' = IF left' = {} THEN "next" ELSE "ask"
    /\ UNCHANGED <<asked, todrain, returned, toldcore, toldstream, started, datasent, spc,
                   cores, got>>

\* All has been asked for, or the job was stopped: terminate()
StopAsking ==
    /\ mpc = "next"
    /\ mpc' = "term"
    /\ UNCHANGED <<asked, left, todrain, returned, toldcore, toldstream, streams, cores, got>>

TerminateCore(c) ==
    /\ mpc = "term"
    /\ c \notin toldcore /\ \A b \in Cores \ toldcore : c <= b
    /\ CanSendTo(c)
    /\ toldcore' = toldcore \cup {c}
    /\ UNCHANGED <<mpc, asked, left, todrain, returned, toldstream, streams, cores, got>>

\* Mutant: one result is forgotten.
ResultsOutLess == IF FillingUp THEN Len(asked) ELSE RingLength * NumCores - 1

\* The results that have not been received when the job ends
ResultsOut == IF FillingUp THEN Len(asked) ELSE RingLength * NumCores

TerminateStream(s) ==
    /\ mpc = "term"
    /\ toldcore = Cores
    /\ s \notin toldstream /\ \A t \in Streams \ toldstream : s <= t
    /\ Eager \/ posted[s] = started[s]
    /\ toldstream' = toldstream \cup {s}
    /\ IF toldstream' = Streams
       THEN /\ mpc' = "drain"
            /\ todrain' = ResultsOut
       ELSE UNCHANGED <<mpc, todrain>>
    /\ UNCHANGED <<asked, left, returned, toldcore, streams, cores, got>>

\* receiveData(false): the results that are still out
Drain ==
    /\ mpc = "drain"
    /\ todrain > 0
    /\ \E c \in Cores : Receive(c)
    /\ todrain' = todrain - 1
    /\ UNCHANGED <<mpc, asked, left, toldcore, toldstream, streams, numreceived, taken, got>>

ManagerDone ==
    /\ mpc = "drain"
    /\ todrain = 0
    /\ mpc' = "done"
    /\ UNCHANGED <<asked, left, todrain, returned, toldcore, toldstream, streams, cores, got>>

-----------------------------------------------------------------------------
(* A data stream.                                                              *)

\* What it has sent and the Cores have not received
Pending(s) == (1 .. datasent[s]) \ got[s]

\* It takes what it was sent and posts the receive of the next message
TakeRequest(s) ==
    /\ spc[s] = "wait"
    /\ started[s] < posted[s]
    /\ started' = [started EXCEPT ![s] = @ + 1]
    /\ spc' = [spc EXCEPT ![s] = "process"]
    /\ UNCHANGED <<manager, posted, datasent, cores, got>>

\* MPI_Issend to the Core it was told.  Before it, the data stream waits for
\* earlier sends when it has run out of segments; after it, for all of them when
\* it has run out of send requests.
SendData(s) ==
    /\ spc[s] = "process"
    /\ Cardinality(Pending(s)) < MaxPending
    /\ datasent' = [datasent EXCEPT ![s] = @ + 1]
    /\ \E then \in {"wait", "flush"} : spc' = [spc EXCEPT ![s] = then]
    /\ UNCHANGED <<manager, posted, started, cores, got>>

SendsComplete(s) ==
    /\ spc[s] = "flush"
    /\ Pending(s) = {}
    /\ spc' = [spc EXCEPT ![s] = "wait"]
    /\ UNCHANGED <<manager, posted, started, datasent, cores, got>>

\* DS_TERMINATE, and the wait for all sends
StreamDone(s) ==
    /\ spc[s] = "wait"
    /\ started[s] = posted[s] /\ s \in toldstream
    /\ Pending(s) = {}
    /\ spc' = [spc EXCEPT ![s] = "done"]
    /\ UNCHANGED <<manager, posted, started, datasent, cores, got>>

-----------------------------------------------------------------------------
(* A Core.                                                                     *)

\* receivedata: the next request
TakeTime(c) ==
    /\ cpc[c] = "recv"
    /\ taken[c] < Cardinality(RequestsOf(c))
    /\ taken' = [taken EXCEPT ![c] = @ + 1]
    /\ cpc' = [cpc EXCEPT ![c] = "data"]
    /\ UNCHANGED <<manager, streams, numreceived, got>>

\* The oldest data that a data stream has sent to a Core, if there is any
Arriving(s, c) == {k \in Pending(s) \cap RequestsOf(c) :
                     \A j \in Pending(s) \cap RequestsOf(c) : k <= j}

\* Mutant: the Core does not wait for all of its receives (MPI_Waitall), but goes on
\* with the first data that comes.
TakeDataOfOne(c, s) ==
    /\ cpc[c] = "data"
    /\ Cardinality(got[s] \cap RequestsOf(c)) < taken[c]
    /\ \E k \in Arriving(s, c) : got' = [got EXCEPT ![s] = @ \cup {k}]
    /\ numreceived' = [numreceived EXCEPT ![c] = @ + 1]
    /\ cpc' = [cpc EXCEPT ![c] = IF taken[c] >= RingLength THEN "send" ELSE "recv"]
    /\ UNCHANGED <<manager, streams, taken>>

\* receivedata: the data from a data stream.  With that of all of them the Core
\* goes on to the next request, or sends a result once the ring is full.
TakeData(c, s) ==
    /\ cpc[c] = "data"
    /\ Cardinality(got[s] \cap RequestsOf(c)) < taken[c]
    /\ \E k \in Arriving(s, c) : got' = [got EXCEPT ![s] = @ \cup {k}]
    /\ IF \A t \in Streams : Cardinality(got'[t] \cap RequestsOf(c)) = taken[c]
       THEN /\ numreceived' = [numreceived EXCEPT ![c] = @ + 1]
            /\ cpc' = [cpc EXCEPT ![c] = IF taken[c] >= RingLength THEN "send" ELSE "recv"]
       ELSE UNCHANGED <<numreceived, cpc>>
    /\ UNCHANGED <<manager, streams, taken>>

\* Mutant: the Core goes on to receive.
CoreTerminateIgnored(c) ==
    /\ cpc[c] = "recv"
    /\ taken[c] = Cardinality(RequestsOf(c)) /\ c \in toldcore
    /\ UNCHANGED vars

\* receivedata: CR_TERMINATE.  What the ring holds is still to be sent.
CoreTerminate(c) ==
    /\ cpc[c] = "recv"
    /\ taken[c] = Cardinality(RequestsOf(c)) /\ c \in toldcore
    /\ cpc' = [cpc EXCEPT ![c] = IF numreceived[c] = 0 THEN "done" ELSE "drain"]
    /\ UNCHANGED <<manager, streams, numreceived, taken, got>>

-----------------------------------------------------------------------------

Manager == \/ FillUp \/ ReceiveAndResend \/ Resend \/ Drain \/ ManagerDone
           \/ \E c \in Cores : TerminateCore(c)
           \/ \E s \in Streams : AskStream(s) \/ TerminateStream(s)

Stream(s) == TakeRequest(s) \/ SendData(s) \/ SendsComplete(s) \/ StreamDone(s)

Core(c) == TakeTime(c) \/ CoreTerminate(c) \/ \E s \in Streams : TakeData(c, s)

AllDone == /\ mpc = "done"
           /\ \A s \in Streams : spc[s] = "done"
           /\ \A c \in Cores : cpc[c] = "done"

\* All ranks have reached the last barrier
Finalize == AllDone /\ UNCHANGED vars

Next == \/ Manager \/ StopAsking
        \/ \E s \in Streams : Stream(s)
        \/ \E c \in Cores : Core(c)
        \/ Finalize

Spec == Init /\ [][Next]_vars

\* Every rank runs: a step of it that stays possible is taken.  The manager comes
\* to the end of the job.
FairSpec == /\ Spec
            /\ WF_vars(Manager) /\ WF_vars(StopAsking)
            /\ \A s \in Streams : WF_vars(Stream(s))
            /\ \A c \in Cores : WF_vars(Core(c))

-----------------------------------------------------------------------------
(* Properties.                                                                 *)

TypeOK ==
    /\ mpc \in {"next", "ask", "resend", "term", "drain", "done"}
    /\ asked \in Seq(Cores)
    /\ left \in (SUBSET Streams) \cup (SUBSET Cores)
    /\ todrain \in 0 .. RingLength * NumCores
    /\ returned \in [Cores -> Nat] /\ numreceived \in [Cores -> Nat] /\ taken \in [Cores -> Nat]
    /\ toldcore \in SUBSET Cores /\ toldstream \in SUBSET Streams
    /\ posted \in [Streams -> Nat] /\ started \in [Streams -> Nat] /\ datasent \in [Streams -> Nat]
    /\ got \in [Streams -> SUBSET Requests]
    /\ spc \in [Streams -> {"wait", "process", "flush", "done"}]
    /\ cpc \in [Cores -> {"recv", "data", "send", "drain", "done"}]

\* The data that arrives at a Core from a data stream is that of the request the
\* Core is working on: receivedata takes the next message of each data stream for
\* the data of the time it got from the manager.
DataMatches ==
    \A c \in Cores, s \in Streams :
        cpc[c] = "data" /\ Cardinality(got[s] \cap RequestsOf(c)) < taken[c] =>
            Arriving(s, c) \subseteq {Current(c)}

\* While a Core waits for the manager to receive a result, nothing that it ought
\* to receive is under way, in the whole job: so that no data stream waits for it,
\* and neither does the manager for a data stream that does.
NothingForSender ==
    \A c \in Cores : cpc[c] = "send" =>
        /\ taken[c] = Cardinality(RequestsOf(c))
        /\ \A s \in Streams : RequestsOf(c) \subseteq got[s]

\* The manager remembers the times of RECEIVE_RING_LENGTH requests of a Core
\* (coretimes): no more of them are ever without a result.
TimesRemembered == \A c \in Cores : Cardinality(RequestsOf(c)) - returned[c] <= RingLength

\* When the manager leaves, it has a result for every request it made.
AllReturned == mpc = "done" => \A c \in Cores : returned[c] = Cardinality(RequestsOf(c))

\* What the manager relies on when it counts requests and results, from the first
\* request to the last result.
ResultsCounted == TypeOK /\ TimesRemembered /\ AllReturned

-----------------------------------------------------------------------------
(* Why it is so, in parts that are inductive together.                         *)

NumRequests(c) == Cardinality(RequestsOf(c))

\* What a Core has been asked for, has received and has returned, by where it is.
CoreOK(c) ==
    /\ taken[c] <= NumRequests(c)
    /\ numreceived[c] = IF cpc[c] = "data" THEN taken[c] - 1 ELSE taken[c]
    /\ cpc[c] \in {"recv", "data"} =>
            returned[c] = IF numreceived[c] < RingLength THEN 0
                          ELSE numreceived[c] - RingLength + 1
    /\ cpc[c] = "send" => numreceived[c] >= RingLength /\ returned[c] = numreceived[c] - RingLength
    /\ cpc[c] \in {"drain", "done"} => c \in toldcore /\ taken[c] = NumRequests(c)
    /\ cpc[c] = "drain" => returned[c] < numreceived[c]
    /\ cpc[c] = "done" => returned[c] = numreceived[c]

\* A Core has received the data of its first requests from a data stream.
GotOK(c, s) ==
    /\ Cardinality(got[s] \cap RequestsOf(c)) \in
            IF cpc[c] = "data" THEN {taken[c] - 1, taken[c]} ELSE {taken[c]}
    /\ \A j \in got[s] \cap RequestsOf(c), k \in RequestsOf(c) \ got[s] : j < k

\* While their rings are filled up the Cores are asked in turn and return nothing.
FillOK ==
    FillingUp =>
        /\ mpc # "resend"
        /\ mpc \notin {"drain", "done"} => \A c \in Cores : returned[c] = 0
        /\ \E r \in 0 .. RingLength - 1 :
              /\ r * NumCores <= Len(asked) /\ Len(asked) < r * NumCores + NumCores
              /\ \A c \in Cores :
                    NumRequests(c) = IF c < Len(asked) - r * NumCores THEN r + 1 ELSE r

\* The n-th request of a Core for which the manager has no result, as <<c, n>>
Unreturned == {p \in Cores \X Requests : returned[p[1]] < p[2] /\ p[2] <= NumRequests(p[1])}

\* The manager counts right what is still to be returned.
CountOK ==
    Cardinality(Unreturned) = IF mpc \in {"drain", "done"} THEN todrain
                              ELSE IF mpc = "resend" THEN ResultsOut - 1
                              ELSE ResultsOut

\* Where the manager is.
ManagerOK ==
    /\ mpc = "resend" => \E c \in Cores : left = {c} /\ NumRequests(c) - returned[c] < RingLength
    /\ mpc = "ask" => left \subseteq Streams
    /\ mpc \in {"next", "ask", "resend"} => toldcore = {}
    /\ mpc = "done" => todrain = 0

\* What the Cores have been asked for, have received and have returned.
CoresOK == /\ TimesRemembered
           /\ \A c \in Cores : CoreOK(c)
           /\ \A c \in Cores, s \in Streams : GotOK(c, s)

MessageInv == TypeOK /\ CoresOK /\ FillOK /\ CountOK /\ ManagerOK

\* All ranks get to the last barrier of main(), however early the job is stopped:
\* nobody waits for a message that does not come or is not received.
JobEnds == <>AllDone

=============================================================================
