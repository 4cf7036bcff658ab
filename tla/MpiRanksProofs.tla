----------------------------- MODULE MpiRanksProofs -----------------------------
(* Proofs about the messages of a job, for any number of Cores, data streams   *)
(* and requests: no data is taken for that of another subintegration, a Core   *)
(* that waits to send a result has nothing to receive, and the manager counts  *)
(* the results right.                                                          *)
EXTENDS MpiRanks, TLAPS, FiniteSetTheorems

-----------------------------------------------------------------------------
(* Arithmetic of the turns.                                                    *)

\* The remainder of the number of requests is the Core whose turn it is.
LEMMA TurnOf ==
    ASSUME NEW n \in Nat \ {0}, NEW r \in Nat, NEW i \in 0 .. n - 1
    PROVE  (r * n + i) % n = i
OBVIOUS

\* One turn more.
LEMMA NextTurn ==
    ASSUME NEW n \in Nat \ {0}, NEW r \in Nat
    PROVE  (r + 1) * n = r * n + n /\ r * n \in Nat
OBVIOUS

\* Fewer requests are fewer turns.
LEMMA FewerTurns ==
    ASSUME NEW n \in Nat \ {0}, NEW a \in Nat, NEW b \in Nat, a * n < b * n
    PROVE  a < b
<1> SUFFICES ASSUME b <= a PROVE b * n <= a * n
  OBVIOUS
<1> DEFINE d == a - b
<1>1. d \in Nat /\ a = b + d
  OBVIOUS
<1>2. a * n = b * n + d * n
  BY <1>1
<1>3. d * n >= 0
  BY <1>1
<1> HIDE DEF d
<1>4. b * n \in Nat /\ d * n \in Nat
  BY <1>1
<1> QED BY <1>2, <1>3, <1>4

-----------------------------------------------------------------------------
(* The requests of the Cores.                                                  *)

\* There are finitely many requests.
LEMMA RequestsFinite ==
    ASSUME TypeOK, NEW c \in Cores
    PROVE  /\ Len(asked) \in Nat
           /\ IsFiniteSet(RequestsOf(c)) /\ NumRequests(c) \in 0 .. Len(asked)
           /\ \A s \in Streams : /\ IsFiniteSet(got[s] \cap RequestsOf(c))
                                 /\ Cardinality(got[s] \cap RequestsOf(c)) \in 0 .. NumRequests(c)
<1>1. Len(asked) \in Nat
  BY DEF TypeOK
<1>2. IsFiniteSet(Requests) /\ Cardinality(Requests) = Len(asked)
  <2>1. 1 \in Int /\ Len(asked) \in Int
    BY <1>1
  <2>2. /\ IsFiniteSet(1 .. Len(asked))
        /\ Cardinality(1 .. Len(asked)) = IF 1 > Len(asked) THEN 0 ELSE Len(asked) - 1 + 1
    BY <2>1, FS_Interval
  <2>3. (IF 1 > Len(asked) THEN 0 ELSE Len(asked) - 1 + 1) = Len(asked)
    BY <1>1
  <2> QED BY <2>2, <2>3 DEF Requests
<1>3. RequestsOf(c) \in SUBSET Requests
  BY DEF RequestsOf
<1>4. IsFiniteSet(RequestsOf(c)) /\ NumRequests(c) <= Len(asked)
  BY <1>2, <1>3, FS_Subset DEF NumRequests
<1>5. NumRequests(c) \in Nat
  BY <1>4, FS_CardinalityType DEF NumRequests
<1>6. ASSUME NEW s \in Streams
      PROVE  /\ IsFiniteSet(got[s] \cap RequestsOf(c))
             /\ Cardinality(got[s] \cap RequestsOf(c)) \in 0 .. NumRequests(c)
  <2>1. got[s] \cap RequestsOf(c) \in SUBSET RequestsOf(c)
    OBVIOUS
  <2>2. /\ IsFiniteSet(got[s] \cap RequestsOf(c))
        /\ Cardinality(got[s] \cap RequestsOf(c)) <= NumRequests(c)
    BY <1>4, <2>1, FS_Subset DEF NumRequests
  <2>3. Cardinality(got[s] \cap RequestsOf(c)) \in Nat
    BY <2>2, FS_CardinalityType
  <2> QED BY <1>5, <2>2, <2>3
<1> QED BY <1>1, <1>4, <1>5, <1>6

\* A step that asks for nothing leaves the requests alone.
LEMMA SameRequests ==
    ASSUME UNCHANGED asked
    PROVE  /\ \A c \in Cores : RequestsOf(c)' = RequestsOf(c) /\ NumRequests(c)' = NumRequests(c)
           /\ Requests' = Requests
           /\ FillingUp' = FillingUp /\ ResultsOut' = ResultsOut
BY DEF RequestsOf, NumRequests, Requests, FillingUp, ResultsOut

\* AskCore makes one request more of a Core.
LEMMA OneMoreRequest ==
    ASSUME TypeOK, NEW c \in Cores, AskCore(c)
    PROVE  /\ Len(asked') = Len(asked) + 1 /\ asked' \in Seq(Cores)
           /\ Requests' = Requests \cup {Len(asked) + 1}
           /\ RequestsOf(c)' = RequestsOf(c) \cup {Len(asked) + 1}
           /\ NumRequests(c)' = NumRequests(c) + 1
           /\ \A b \in Cores \ {c} : /\ RequestsOf(b)' = RequestsOf(b)
                                     /\ NumRequests(b)' = NumRequests(b)
<1>1. asked \in Seq(Cores) /\ Len(asked) \in Nat /\ asked' = Append(asked, c)
  BY DEF TypeOK, AskCore
<1>2. /\ Len(asked') = Len(asked) + 1 /\ asked' \in Seq(Cores)
      /\ asked'[Len(asked) + 1] = c /\ \A k \in Requests : asked'[k] = asked[k]
  BY <1>1 DEF Requests
<1>3. Requests' = Requests \cup {Len(asked) + 1}
  BY <1>1, <1>2 DEF Requests
<1>4. RequestsOf(c)' = RequestsOf(c) \cup {Len(asked) + 1}
  BY <1>2, <1>3 DEF RequestsOf
<1>5. ASSUME NEW b \in Cores \ {c} PROVE RequestsOf(b)' = RequestsOf(b)
  BY <1>2, <1>3 DEF RequestsOf
<1>6. NumRequests(c)' = NumRequests(c) + 1
  <2>1. Len(asked) + 1 \notin RequestsOf(c)
    BY <1>1 DEF RequestsOf, Requests
  <2> QED BY <1>4, <2>1, RequestsFinite, FS_AddElement DEF NumRequests
<1> QED BY <1>2, <1>3, <1>4, <1>5, <1>6 DEF NumRequests

-----------------------------------------------------------------------------
(* What is still to be returned.                                               *)

\* There are finitely many.
LEMMA UnreturnedFinite == ASSUME TypeOK PROVE IsFiniteSet(Unreturned)
<1>1. Len(asked) \in Nat /\ NumCores \in Nat
  BY SizeAssumption DEF TypeOK
<1>2. IsFiniteSet(Requests) /\ IsFiniteSet(Cores)
  BY <1>1, FS_Interval DEF Requests, Cores
<1>3. IsFiniteSet(Cores \X Requests)
  BY <1>2, FS_Product
<1>4. Unreturned \in SUBSET (Cores \X Requests)
  BY DEF Unreturned
<1> QED BY <1>3, <1>4, FS_Subset

\* A result makes it one less.
LEMMA OneReturned ==
    ASSUME TypeOK, NEW c \in Cores, UNCHANGED asked,
           returned' = [returned EXCEPT ![c] = @ + 1], returned[c] < NumRequests(c)
    PROVE  Cardinality(Unreturned)' = Cardinality(Unreturned) - 1
<1> DEFINE p == <<c, returned[c] + 1>>
<1>1. /\ returned \in [Cores -> Nat] /\ Len(asked) \in Nat
      /\ \A b \in Cores : NumRequests(b) \in 0 .. Len(asked)
  BY RequestsFinite DEF TypeOK
<1>2. p \in Unreturned
  BY <1>1 DEF Unreturned, Requests
<1>3. Unreturned' = Unreturned \ {p}
  <2>1. ASSUME NEW b \in Cores, NEW n \in Requests
        PROVE  <<b, n>> \in Unreturned' <=> <<b, n>> \in Unreturned \ {p}
    <3>0. n \in Nat /\ <<b, n>> \in Cores \X Requests /\ Requests' = Requests
      BY <1>1, SameRequests DEF Requests
    <3>1. <<b, n>> \in Unreturned <=> returned[b] < n /\ n <= NumRequests(b)
      BY <3>0 DEF Unreturned
    <3>2. <<b, n>> \in Unreturned' <=> returned'[b] < n /\ n <= NumRequests(b)
      BY <3>0, SameRequests DEF Unreturned
    <3>3. CASE b = c
      BY <1>1, <3>0, <3>1, <3>2, <3>3
    <3>4. CASE b # c
      BY <1>1, <3>0, <3>1, <3>2, <3>4
    <3> QED BY <3>3, <3>4
  <2>2. Unreturned' \subseteq Cores \X Requests /\ Unreturned \subseteq Cores \X Requests
    BY SameRequests DEF Unreturned
  <2> QED BY <2>1, <2>2
<1> HIDE DEF p
<1> QED BY <1>2, <1>3, UnreturnedFinite, FS_RemoveElement

\* A request makes it one more.
LEMMA OneMoreUnreturned ==
    ASSUME TypeOK, NEW c \in Cores, AskCore(c), UNCHANGED returned, returned[c] <= NumRequests(c)
    PROVE  Cardinality(Unreturned)' = Cardinality(Unreturned) + 1
<1> DEFINE p == <<c, NumRequests(c) + 1>>
<1>1. /\ returned \in [Cores -> Nat] /\ Len(asked) \in Nat
      /\ \A b \in Cores : NumRequests(b) \in 0 .. Len(asked)
  BY RequestsFinite DEF TypeOK
<1>2. p \notin Unreturned
  BY <1>1 DEF Unreturned
<1>3. Unreturned' = Unreturned \cup {p}
  <2>0. Requests' = 1 .. Len(asked) + 1 /\ Requests = 1 .. Len(asked)
    BY <1>1, OneMoreRequest DEF Requests
  <2>1. ASSUME NEW b \in Cores, NEW n \in 1 .. Len(asked) + 1
        PROVE  <<b, n>> \in Unreturned' <=> <<b, n>> \in Unreturned \cup {p}
    <3>0. n \in Nat /\ (n \in 1 .. Len(asked) <=> n <= Len(asked))
      BY <1>1
    <3>1. <<b, n>> \in Unreturned <=> n <= Len(asked) /\ returned[b] < n /\ n <= NumRequests(b)
      BY <2>0, <3>0 DEF Unreturned
    <3>2. <<b, n>> \in Unreturned' <=> returned[b] < n /\ n <= NumRequests(b)'
      <4>1. <<b, n>> \in Cores \X Requests'
        BY <2>0
      <4>2. <<b, n>> \in Unreturned' <=> returned'[b] < n /\ n <= NumRequests(b)'
        BY <4>1, Zenon DEF Unreturned
      <4> QED BY <4>2
    <3>3. CASE b = c
      <4>1. NumRequests(b)' = NumRequests(c) + 1
        BY <3>3, OneMoreRequest
      <4>2. <<b, n>> = p <=> n = NumRequests(c) + 1
        BY <3>3
      <4> QED BY <1>1, <3>0, <3>1, <3>2, <3>3, <4>1, <4>2
    <3>4. CASE b # c
      <4>1. NumRequests(b)' = NumRequests(b)
        BY <3>4, OneMoreRequest
      <4> QED BY <1>1, <3>0, <3>1, <3>2, <3>4, <4>1
    <3> QED BY <3>3, <3>4
  <2>2. p \in Cores \X (1 .. Len(asked) + 1)
    BY <1>1
  <2>3. /\ Unreturned' \subseteq Cores \X (1 .. Len(asked) + 1)
        /\ Unreturned \subseteq Cores \X (1 .. Len(asked) + 1)
    <3>1. 1 .. Len(asked) \subseteq 1 .. Len(asked) + 1
      BY <1>1
    <3> QED BY <2>0, <3>1 DEF Unreturned
  <2> QED BY <2>1, <2>2, <2>3
<1> HIDE DEF p
<1> QED BY <1>2, <1>3, UnreturnedFinite, FS_AddElement

-----------------------------------------------------------------------------
(* How the Cores are left by the steps of the manager.                         *)

\* By what is neither a request, nor a result, nor a step of a Core.
LEMMA QuietStep ==
    ASSUME CoresOK, UNCHANGED <<asked, returned, cpc, numreceived, taken, got>>,
           toldcore \subseteq toldcore'
    PROVE  CoresOK' /\ Cardinality(Unreturned)' = Cardinality(Unreturned)
<1>1. /\ \A c \in Cores : RequestsOf(c)' = RequestsOf(c) /\ NumRequests(c)' = NumRequests(c)
      /\ Requests' = Requests
  BY SameRequests
<1>2. TimesRemembered'
  BY <1>1 DEF CoresOK, TimesRemembered, NumRequests
<1>3. ASSUME NEW c \in Cores PROVE CoreOK(c)'
  BY <1>1 DEF CoresOK, CoreOK
<1>4. ASSUME NEW c \in Cores, NEW s \in Streams PROVE GotOK(c, s)'
  BY <1>1 DEF CoresOK, GotOK
<1>5. Unreturned' = Unreturned
  BY DEF Unreturned, NumRequests, RequestsOf, Requests
<1> QED BY <1>2, <1>3, <1>4, <1>5 DEF CoresOK

\* By a request to a Core that has room for it.
LEMMA AskStep ==
    ASSUME TypeOK, CoresOK, NEW c \in Cores, AskCore(c), UNCHANGED <<returned, toldcore, cores, got>>,
           toldcore = {}, NumRequests(c) - returned[c] < RingLength
    PROVE  CoresOK' /\ Cardinality(Unreturned)' = Cardinality(Unreturned) + 1
<1>0. /\ Len(asked) \in Nat /\ RingLength \in Nat
      /\ returned \in [Cores -> Nat] /\ numreceived \in [Cores -> Nat] /\ taken \in [Cores -> Nat]
      /\ cpc \in [Cores -> {"recv", "data", "send", "drain", "done"}]
      /\ \A b \in Cores : NumRequests(b) \in 0 .. Len(asked)
      /\ UNCHANGED <<cpc, numreceived, taken>>
  BY SizeAssumption, RequestsFinite DEF TypeOK, cores
<1>1. /\ RequestsOf(c)' = RequestsOf(c) \cup {Len(asked) + 1}
      /\ NumRequests(c)' = NumRequests(c) + 1
      /\ \A b \in Cores \ {c} : RequestsOf(b)' = RequestsOf(b) /\ NumRequests(b)' = NumRequests(b)
  BY OneMoreRequest
<1>2. TimesRemembered'
  <2> SUFFICES ASSUME NEW b \in Cores PROVE NumRequests(b)' - returned'[b] <= RingLength
    BY DEF TimesRemembered, NumRequests
  <2>1. CASE b = c
    BY <1>0, <1>1, <2>1
  <2>2. CASE b # c
    BY <1>0, <1>1, <2>2 DEF CoresOK, TimesRemembered, NumRequests
  <2> QED BY <2>1, <2>2
<1>3. ASSUME NEW b \in Cores PROVE CoreOK(b)'
  <2>1. CoreOK(b) /\ NumRequests(b)' \in {NumRequests(b), NumRequests(b) + 1}
    BY <1>1 DEF CoresOK
  <2> QED BY <1>0, <2>1 DEF CoreOK
<1>4. ASSUME NEW b \in Cores, NEW s \in Streams PROVE GotOK(b, s)'
  <2>1. got[s] \subseteq 1 .. Len(asked)
    BY DEF TypeOK, Requests
  <2>2. GotOK(b, s)
    BY DEF CoresOK
  <2>3. CASE b = c
    <3>1. got[s] \cap RequestsOf(b)' = got[s] \cap RequestsOf(b)
      BY <1>0, <1>1, <2>1, <2>3
    <3>2. \A j \in got[s] : j < Len(asked) + 1
      BY <1>0, <2>1
    <3>3. RequestsOf(b)' \ got[s] \subseteq (RequestsOf(b) \ got[s]) \cup {Len(asked) + 1}
      BY <1>1, <2>3
    <3>4. \A j \in got[s] \cap RequestsOf(b), k \in RequestsOf(b)' \ got[s] : j < k
      BY <2>2, <3>2, <3>3 DEF GotOK
    <3> QED BY <1>0, <2>2, <3>1, <3>4 DEF GotOK
  <2>4. CASE b # c
    BY <1>0, <1>1, <2>2, <2>4 DEF GotOK
  <2> QED BY <2>3, <2>4
<1>5. returned[c] <= NumRequests(c)
  <2>1. CoreOK(c) /\ RingLength > 0
    BY SizeAssumption DEF CoresOK
  <2> QED BY <1>0, <2>1 DEF CoreOK
<1> QED BY <1>2, <1>3, <1>4, <1>5, OneMoreUnreturned DEF CoresOK

\* By the receipt of a result.
LEMMA ReceiveStep ==
    ASSUME TypeOK, CoresOK, NEW c \in Cores, Receive(c),
           UNCHANGED <<asked, toldcore, numreceived, taken, got>>
    PROVE  /\ CoresOK' /\ Cardinality(Unreturned)' = Cardinality(Unreturned) - 1
           /\ NumRequests(c)' - returned'[c] < RingLength
<1>0. /\ Len(asked) \in Nat /\ RingLength \in Nat
      /\ returned \in [Cores -> Nat] /\ numreceived \in [Cores -> Nat] /\ taken \in [Cores -> Nat]
      /\ cpc \in [Cores -> {"recv", "data", "send", "drain", "done"}]
      /\ \A b \in Cores : NumRequests(b) \in 0 .. Len(asked)
  BY SizeAssumption, RequestsFinite DEF TypeOK
<1>1. /\ returned' = [returned EXCEPT ![c] = @ + 1] /\ returned'[c] = returned[c] + 1
      /\ \A b \in Cores \ {c} : returned'[b] = returned[b] /\ cpc'[b] = cpc[b]
      /\ cpc[c] \in {"send", "drain"}
      /\ cpc'[c] = IF cpc[c] = "send" THEN "recv"
                   ELSE IF ResultsLeft(c) = 1 THEN "done" ELSE "drain"
  BY <1>0 DEF Receive, ResultFrom
<1>2. \A b \in Cores : RequestsOf(b)' = RequestsOf(b) /\ NumRequests(b)' = NumRequests(b)
  BY SameRequests
<1>3. returned[c] < NumRequests(c) /\ NumRequests(c) - returned[c] <= RingLength
  <2>1. CoreOK(c) /\ NumRequests(c) - returned[c] <= RingLength
    BY DEF CoresOK, TimesRemembered, NumRequests
  <2>2. RingLength > 0
    BY SizeAssumption
  <2> QED BY <1>0, <1>1, <2>1, <2>2 DEF CoreOK
<1>4. TimesRemembered'
  <2> SUFFICES ASSUME NEW b \in Cores PROVE NumRequests(b)' - returned'[b] <= RingLength
    BY DEF TimesRemembered, NumRequests
  <2>1. NumRequests(b) - returned[b] <= RingLength
    BY DEF CoresOK, TimesRemembered, NumRequests
  <2> QED BY <1>0, <1>1, <1>2, <2>1
<1>5. ASSUME NEW b \in Cores PROVE CoreOK(b)'
  <2>1. CoreOK(b)
    BY DEF CoresOK
  <2>2. CASE b # c
    BY <1>0, <1>1, <1>2, <2>1, <2>2 DEF CoreOK
  <2>3. CASE b = c /\ cpc[c] = "send"
    BY <1>0, <1>1, <1>2, <2>1, <2>3 DEF CoreOK
  <2>4. CASE b = c /\ cpc[c] = "drain"
    BY <1>0, <1>1, <1>2, <2>1, <2>4 DEF CoreOK, ResultsLeft
  <2> QED BY <1>1, <2>2, <2>3, <2>4
<1>6. ASSUME NEW b \in Cores, NEW s \in Streams PROVE GotOK(b, s)'
  <2>1. GotOK(b, s)
    BY DEF CoresOK
  <2>2. cpc'[b] = "data" <=> cpc[b] = "data"
    BY <1>1
  <2> QED BY <1>2, <2>1, <2>2 DEF GotOK
<1>7. Cardinality(Unreturned)' = Cardinality(Unreturned) - 1
  BY <1>1, <1>3, OneReturned
<1> QED BY <1>0, <1>1, <1>2, <1>3, <1>4, <1>5, <1>6, <1>7 DEF CoresOK

-----------------------------------------------------------------------------
(* How they are left by their own.                                             *)

\* What arrives is the first that a Core has not received from the data stream.
LEMMA ArrivingFirst ==
    ASSUME TypeOK, NEW c \in Cores, NEW s \in Streams, NEW k \in Arriving(s, c)
    PROVE  /\ k \in RequestsOf(c) /\ k \notin got[s]
           /\ \A j \in RequestsOf(c) \ got[s] : k <= j
<1>1. k \in 1 .. datasent[s] /\ k \in RequestsOf(c) /\ k \notin got[s]
  BY DEF Arriving, Pending
<1>2. datasent[s] \in Nat /\ RequestsOf(c) \subseteq Nat \ {0}
  <2>1. datasent[s] \in Nat /\ Len(asked) \in Nat
    BY DEF TypeOK
  <2> QED BY <2>1 DEF RequestsOf, Requests
<1>3. ASSUME NEW j \in RequestsOf(c) \ got[s] PROVE k <= j
  <2>1. CASE j <= datasent[s]
    <3>1. j \in Pending(s) \cap RequestsOf(c)
      BY <1>2, <1>3, <2>1 DEF Pending
    <3> QED BY <3>1 DEF Arriving
  <2>2. CASE ~(j <= datasent[s])
    BY <1>1, <1>2, <1>3, <2>2
  <2> QED BY <2>1, <2>2
<1> QED BY <1>1, <1>3

\* A Core takes the data of a data stream.
LEMMA TakeDataStep ==
    ASSUME TypeOK, CoresOK, NEW c \in Cores, NEW s \in Streams, TakeData(c, s)
    PROVE  CoresOK' /\ got' \in [Streams -> SUBSET Requests]
<1>0. /\ Len(asked) \in Nat /\ RingLength \in Nat /\ RingLength > 0
      /\ returned \in [Cores -> Nat] /\ numreceived \in [Cores -> Nat] /\ taken \in [Cores -> Nat]
      /\ cpc \in [Cores -> {"recv", "data", "send", "drain", "done"}]
      /\ got \in [Streams -> SUBSET Requests]
      /\ UNCHANGED <<asked, returned, toldcore, taken>> /\ cpc[c] = "data"
  <2>1. Len(asked) \in Nat /\ RingLength \in Nat /\ RingLength > 0
    BY SizeAssumption DEF TypeOK
  <2>2. UNCHANGED <<asked, returned, toldcore, taken>> /\ cpc[c] = "data"
    BY DEF TakeData, manager
  <2> QED BY <2>1, <2>2 DEF TypeOK
<1>1. PICK k \in Arriving(s, c) : got' = [got EXCEPT ![s] = @ \cup {k}]
  BY DEF TakeData
<1>2. /\ k \in RequestsOf(c) /\ k \notin got[s]
      /\ \A j \in RequestsOf(c) \ got[s] : k <= j
      /\ got'[s] = got[s] \cup {k} /\ \A t \in Streams \ {s} : got'[t] = got[t]
  BY <1>0, <1>1, ArrivingFirst
<1>3. /\ \A b \in Cores : RequestsOf(b)' = RequestsOf(b) /\ NumRequests(b)' = NumRequests(b)
      /\ \A b \in Cores \ {c} : k \notin RequestsOf(b)
  BY <1>0, <1>2, SameRequests DEF RequestsOf
<1>4. got' \in [Streams -> SUBSET Requests]
  BY <1>0, <1>1, <1>2 DEF RequestsOf
<1>5. /\ Cardinality(got'[s] \cap RequestsOf(c)) = taken[c]
      /\ \A j \in got'[s] \cap RequestsOf(c), i \in RequestsOf(c) \ got'[s] : j < i
  <2>1. GotOK(c, s) /\ IsFiniteSet(got[s] \cap RequestsOf(c))
    BY RequestsFinite DEF CoresOK
  <2>2. Cardinality(got[s] \cap RequestsOf(c)) = taken[c] - 1
    BY <1>0, <2>1 DEF GotOK, TakeData
  <2>3. got'[s] \cap RequestsOf(c) = (got[s] \cap RequestsOf(c)) \cup {k}
    BY <1>2
  <2>4. Cardinality(got'[s] \cap RequestsOf(c)) = taken[c]
    <3>1. k \notin got[s] \cap RequestsOf(c) /\ taken[c] \in Int
      BY <1>0, <1>2
    <3>2. Cardinality((got[s] \cap RequestsOf(c)) \cup {k}) = taken[c] - 1 + 1
      BY <2>1, <2>2, <3>1, FS_AddElement
    <3>3. Cardinality(got'[s] \cap RequestsOf(c)) = taken[c] - 1 + 1
      BY <2>3, <3>2, Zenon
    <3> QED BY <3>1, <3>3
  <2>5. ASSUME NEW j \in got'[s] \cap RequestsOf(c), NEW i \in RequestsOf(c) \ got'[s] PROVE j < i
    <3>1. i \in RequestsOf(c) \ got[s] /\ i # k
      BY <1>2
    <3>2. CASE j = k
      <4>1. i \in Nat /\ k \in Nat
        BY <1>2 DEF RequestsOf, Requests
      <4> QED BY <1>2, <3>1, <3>2, <4>1
    <3>3. CASE j # k
      BY <1>2, <2>1, <3>1, <3>3 DEF GotOK
    <3> QED BY <3>2, <3>3
  <2> QED BY <2>4, <2>5
<1>6. /\ \A b \in Cores \ {c} : cpc'[b] = cpc[b] /\ numreceived'[b] = numreceived[b]
      /\ \/ /\ \A t \in Streams : Cardinality(got'[t] \cap RequestsOf(c)) = taken[c]
            /\ numreceived'[c] = numreceived[c] + 1
            /\ cpc'[c] = IF taken[c] >= RingLength THEN "send" ELSE "recv"
         \/ cpc'[c] = "data" /\ numreceived'[c] = numreceived[c]
  BY <1>0 DEF TakeData
<1>7. TimesRemembered'
  BY <1>0, <1>3 DEF CoresOK, TimesRemembered, NumRequests
<1>8. ASSUME NEW b \in Cores PROVE CoreOK(b)'
  <2>1. CoreOK(b) /\ NumRequests(b)' = NumRequests(b)
    BY <1>3 DEF CoresOK
  <2>2. CASE b # c
    <3>1. UNCHANGED <<cpc[b], numreceived[b], taken[b], returned[b], toldcore>>
      BY <1>0, <1>6, <2>2
    <3> QED BY <2>1, <3>1 DEF CoreOK
  <2>3. CASE b = c
    BY <1>0, <1>6, <2>1, <2>3 DEF CoreOK
  <2> QED BY <2>2, <2>3
<1>9. ASSUME NEW b \in Cores, NEW t \in Streams PROVE GotOK(b, t)'
  <2>1. GotOK(b, t) /\ RequestsOf(b)' = RequestsOf(b)
    BY <1>3 DEF CoresOK
  <2>2. CASE b # c
    <3>1. UNCHANGED <<cpc[b], taken[b], got[t] \cap RequestsOf(b)>>
      BY <1>0, <1>2, <1>3, <1>6, <2>1, <2>2
    <3>2. RequestsOf(b) \ got'[t] \subseteq RequestsOf(b) \ got[t]
      BY <1>2
    <3> QED BY <2>1, <3>1, <3>2 DEF GotOK
  <2>3. CASE b = c /\ t = s
    BY <1>0, <1>5, <1>6, <2>1, <2>3 DEF GotOK
  <2>4. CASE b = c /\ t # s
    BY <1>0, <1>2, <1>6, <2>1, <2>4 DEF GotOK
  <2> QED BY <2>2, <2>3, <2>4
<1> QED BY <1>4, <1>7, <1>8, <1>9 DEF CoresOK

\* A Core takes a time or the message to terminate.
LEMMA TakeTimeStep ==
    ASSUME TypeOK, CoresOK, NEW c \in Cores, TakeTime(c) \/ CoreTerminate(c)
    PROVE  CoresOK'
<1>0. /\ Len(asked) \in Nat /\ RingLength \in Nat /\ RingLength >= 2
      /\ returned \in [Cores -> Nat] /\ numreceived \in [Cores -> Nat] /\ taken \in [Cores -> Nat]
      /\ cpc \in [Cores -> {"recv", "data", "send", "drain", "done"}]
      /\ NumRequests(c) \in 0 .. Len(asked)
      /\ UNCHANGED <<asked, returned, toldcore, numreceived, got>> /\ cpc[c] = "recv"
  BY SizeAssumption, RequestsFinite DEF TypeOK, TakeTime, CoreTerminate, manager
<1>1. /\ \A b \in Cores : RequestsOf(b)' = RequestsOf(b) /\ NumRequests(b)' = NumRequests(b)
      /\ \A b \in Cores \ {c} : cpc'[b] = cpc[b] /\ taken'[b] = taken[b]
      /\ \/ /\ cpc'[c] = "data" /\ taken'[c] = taken[c] + 1 /\ taken[c] < NumRequests(c)
         \/ /\ \/ cpc'[c] = "done" /\ numreceived[c] = 0
               \/ cpc'[c] = "drain" /\ numreceived[c] # 0
            /\ taken'[c] = taken[c] /\ taken[c] = NumRequests(c) /\ c \in toldcore
  BY <1>0, SameRequests DEF TakeTime, CoreTerminate, NumRequests
<1>2. TimesRemembered'
  BY <1>0, <1>1 DEF CoresOK, TimesRemembered, NumRequests
<1>3. ASSUME NEW b \in Cores PROVE CoreOK(b)'
  <2>1. CoreOK(b)
    BY DEF CoresOK
  <2>2. CASE b # c
    <3>1. /\ UNCHANGED <<cpc[b], numreceived[b], taken[b], returned[b], toldcore>>
          /\ NumRequests(b)' = NumRequests(b)
      BY <1>0, <1>1, <2>2
    <3> QED BY <2>1, <3>1 DEF CoreOK
  <2>3. CASE b = c
    <3>1. CoreOK(c) /\ NumRequests(c)' = NumRequests(c)
      BY <1>1, <2>1, <2>3
    <3>2. CASE cpc'[c] = "data" /\ taken'[c] = taken[c] + 1 /\ taken[c] < NumRequests(c)
      <4>1. /\ taken[c] \in Nat /\ taken'[c] - 1 = taken[c] /\ numreceived[c] \in Nat
            /\ UNCHANGED <<numreceived[c], returned[c], toldcore>>
        BY <1>0, <3>2
      <4>2. /\ numreceived[c] = taken[c]
            /\ returned[c] = IF numreceived[c] < RingLength THEN 0
                             ELSE numreceived[c] - RingLength + 1
        BY <1>0, <3>1 DEF CoreOK
      <4>3. taken'[c] <= NumRequests(c)
        BY <1>0, <3>2
      <4> QED BY <2>3, <3>1, <3>2, <4>1, <4>2, <4>3 DEF CoreOK
    <3>3. CASE /\ \/ cpc'[c] = "done" /\ numreceived[c] = 0
                  \/ cpc'[c] = "drain" /\ numreceived[c] # 0
               /\ taken'[c] = taken[c] /\ taken[c] = NumRequests(c) /\ c \in toldcore
      BY <1>0, <2>3, <3>1, <3>3 DEF CoreOK
    <3> QED BY <1>1, <3>2, <3>3
  <2> QED BY <2>2, <2>3
<1>4. ASSUME NEW b \in Cores, NEW s \in Streams PROVE GotOK(b, s)'
  <2>1. GotOK(b, s)
    BY DEF CoresOK
  <2>2. CASE b # c
    <3>1. UNCHANGED <<cpc[b], taken[b], got[s]>> /\ RequestsOf(b)' = RequestsOf(b)
      BY <1>0, <1>1, <2>2
    <3> QED BY <2>1, <3>1 DEF GotOK
  <2>3. CASE b = c
    <3>1. Cardinality(got[s] \cap RequestsOf(c)) = taken[c]
      BY <1>0, <2>1, <2>3 DEF GotOK
    <3>2. Cardinality(got[s] \cap RequestsOf(c)) \in
            IF cpc'[c] = "data" THEN {taken'[c] - 1, taken'[c]} ELSE {taken'[c]}
      <4>1. taken[c] \in Nat /\ taken[c] + 1 - 1 = taken[c]
        BY <1>0
      <4>2. \/ cpc'[c] = "data" /\ taken'[c] - 1 = taken[c]
            \/ cpc'[c] # "data" /\ taken'[c] = taken[c]
        BY <1>1, <4>1
      <4> QED BY <3>1, <4>2
    <3>3. UNCHANGED got[s] /\ RequestsOf(c)' = RequestsOf(c)
      BY <1>0, <1>1
    <3> QED BY <2>1, <2>3, <3>2, <3>3 DEF GotOK
  <2> QED BY <2>2, <2>3
<1> QED BY <1>2, <1>3, <1>4 DEF CoresOK

-----------------------------------------------------------------------------
(* The inductive invariant.                                                    *)

\* At the start nothing has been asked for.
LEMMA MessageInit == Init => MessageInv
<1> SUFFICES ASSUME Init PROVE MessageInv
  OBVIOUS
<1> USE DEF Init
<1>1. /\ RingLength \in Nat /\ RingLength >= 2 /\ NumCores \in Nat \ {0} /\ Len(asked) = 0
      /\ RingLength * NumCores \in Nat
  BY SizeAssumption, NextTurn
<1>2. TypeOK
  BY <1>1 DEF TypeOK, Requests
<1>3. \A c \in Cores : RequestsOf(c) = {} /\ NumRequests(c) = 0
  BY <1>1, FS_EmptySet DEF RequestsOf, NumRequests, Requests
<1>4. CoresOK
  <2>1. TimesRemembered
    BY <1>1, <1>3 DEF TimesRemembered, NumRequests
  <2>2. \A c \in Cores : CoreOK(c)
    BY <1>1, <1>3 DEF CoreOK
  <2>3. \A c \in Cores, s \in Streams : GotOK(c, s)
    BY <1>3, FS_EmptySet DEF GotOK
  <2> QED BY <2>1, <2>2, <2>3 DEF CoresOK
<1>5. FillOK
  <2>1. 0 * NumCores = 0 /\ 0 \in 0 .. RingLength - 1
    BY <1>1
  <2>2. \A c \in Cores : NumRequests(c) = IF c < Len(asked) - 0 * NumCores THEN 0 + 1 ELSE 0
    BY <1>1, <1>3, <2>1 DEF Cores
  <2>3. 0 * NumCores <= Len(asked) /\ Len(asked) < 0 * NumCores + NumCores
    BY <1>1, <2>1
  <2> QED BY <2>1, <2>2, <2>3 DEF FillOK
<1>6. CountOK
  <2>1. Unreturned = {}
    BY <1>1 DEF Unreturned, Requests
  <2>2. ResultsOut = 0
    BY <1>1 DEF ResultsOut, FillingUp
  <2> QED BY <2>1, <2>2, FS_EmptySet DEF CountOK
<1>7. ManagerOK
  BY DEF ManagerOK
<1> QED BY <1>2, <1>4, <1>5, <1>6, <1>7 DEF MessageInv

\* The state keeps its type; what a Core receives is seen to above.
LEMMA MessageType ==
    ASSUME MessageInv,
           \/ Manager \/ StopAsking \/ Finalize
           \/ \E s \in Streams : Stream(s)
           \/ \E c \in Cores : TakeTime(c) \/ CoreTerminate(c)
    PROVE  TypeOK'
<1>0. TypeOK /\ RingLength * NumCores \in Nat
  BY SizeAssumption, NextTurn DEF MessageInv
<1> USE <1>0 DEF TypeOK
<1>1. CASE FillUp
  <2>1. Len(asked) % NumCores \in Cores
    BY SizeAssumption DEF Cores
  <2> QED BY <1>1, <2>1, OneMoreRequest DEF FillUp, AskCore, streams, cores
<1>2. CASE ReceiveAndResend
  <2>1. PICK c \in Cores : Receive(c) /\ mpc' = "resend" /\ left' = {c}
    BY <1>2 DEF ReceiveAndResend
  <2>2. /\ returned' \in [Cores -> Nat]
        /\ cpc' \in [Cores -> {"recv", "data", "send", "drain", "done"}]
    BY <2>1 DEF Receive
  <2>3. left' \in (SUBSET Streams) \cup (SUBSET Cores)
    BY <2>1
  <2>4. UNCHANGED <<asked, todrain, toldcore, toldstream, streams, numreceived, taken, got>>
    BY <1>2 DEF ReceiveAndResend
  <2> QED BY <2>1, <2>2, <2>3, <2>4, SameRequests DEF streams
<1>3. CASE Resend
  <2>1. PICK c \in Cores : AskCore(c)
    BY <1>3 DEF Resend
  <2>2. UNCHANGED <<todrain, returned, toldcore, toldstream, streams, cores, got>>
    BY <1>3 DEF Resend
  <2>3. asked' \in Seq(Cores) /\ Requests \subseteq Requests' /\ left' = Streams /\ mpc' = "ask"
    BY <2>1, OneMoreRequest DEF AskCore
  <2> QED BY <2>2, <2>3 DEF streams, cores
<1>4. ASSUME NEW s \in Streams, AskStream(s) PROVE TypeOK'
  <2>1. left' \in (SUBSET Streams) \cup (SUBSET Cores) /\ mpc' \in {"next", "ask"}
    BY <1>4 DEF AskStream
  <2>2. posted' \in [Streams -> Nat]
    BY <1>4 DEF AskStream
  <2>3. UNCHANGED <<asked, todrain, returned, toldcore, toldstream, started, datasent, spc,
                    cores, got>>
    BY <1>4 DEF AskStream
  <2> QED BY <2>1, <2>2, <2>3, SameRequests DEF cores
<1>5. CASE StopAsking
  BY <1>5, SameRequests DEF StopAsking, streams, cores
<1>6. ASSUME NEW c \in Cores, TerminateCore(c) PROVE TypeOK'
  BY <1>6, SameRequests DEF TerminateCore, streams, cores
<1>7. ASSUME NEW s \in Streams, TerminateStream(s) PROVE TypeOK'
  <2>1. ResultsOut \in 0 .. RingLength * NumCores
    BY DEF ResultsOut, FillingUp
  <2> QED BY <1>7, <2>1, SameRequests DEF TerminateStream, streams, cores
<1>8. CASE Drain
  <2>1. PICK c \in Cores : Receive(c)
    BY <1>8 DEF Drain
  <2>2. /\ returned' \in [Cores -> Nat]
        /\ cpc' \in [Cores -> {"recv", "data", "send", "drain", "done"}]
    BY <2>1 DEF Receive
  <2>3. todrain' \in 0 .. RingLength * NumCores
    BY <1>8 DEF Drain
  <2> QED BY <1>8, <2>2, <2>3, SameRequests DEF Drain, streams
<1>9. CASE ManagerDone
  BY <1>9, SameRequests DEF ManagerDone, streams, cores
<1>10. ASSUME NEW s \in Streams, Stream(s) PROVE TypeOK'
  <2>1. CASE TakeRequest(s)
    BY <2>1, SameRequests DEF TakeRequest, manager, cores
  <2>2. CASE SendData(s)
    <3>1. datasent' \in [Streams -> Nat] /\ UNCHANGED <<manager, posted, started, cores, got>>
      BY <2>2 DEF SendData
    <3>2. spc' \in [Streams -> {"wait", "process", "flush", "done"}]
      BY <2>2 DEF SendData
    <3> QED BY <3>1, <3>2, SameRequests DEF manager, cores
  <2>3. CASE SendsComplete(s)
    BY <2>3, SameRequests DEF SendsComplete, manager, cores
  <2>4. CASE StreamDone(s)
    BY <2>4, SameRequests DEF StreamDone, manager, cores
  <2> QED BY <1>10, <2>1, <2>2, <2>3, <2>4 DEF Stream
<1>11. ASSUME NEW c \in Cores, TakeTime(c) \/ CoreTerminate(c) PROVE TypeOK'
  <2>1. CASE TakeTime(c)
    BY <2>1, SameRequests DEF TakeTime, manager, streams
  <2>2. CASE CoreTerminate(c)
    BY <2>2, SameRequests DEF CoreTerminate, manager, streams
  <2> QED BY <1>11, <2>1, <2>2
<1>12. CASE Finalize
  BY <1>12, SameRequests DEF Finalize, vars, manager, streams, cores
<1> QED BY <1>1, <1>2, <1>3, <1>4, <1>5, <1>6, <1>7, <1>8, <1>9, <1>10, <1>11, <1>12
        DEF Manager

\* A request that goes to the Core whose turn it is.
LEMMA FillUpStep == ASSUME MessageInv, FillUp PROVE CoresOK' /\ FillOK' /\ CountOK'
<1> DEFINE L == Len(asked)
           all == RingLength * NumCores
<1>a. L \in Nat /\ NumCores \in Nat \ {0} /\ RingLength \in Nat
  BY SizeAssumption DEF MessageInv, TypeOK
<1>b. PICK c \in Cores : c = L % NumCores
  BY <1>a DEF Cores
<1>0. /\ TypeOK /\ CoresOK /\ L \in Nat /\ NumCores \in Nat \ {0} /\ RingLength \in Nat
      /\ mpc = "next" /\ mpc' = "ask" /\ FillingUp /\ AskCore(c) /\ toldcore = {}
      /\ UNCHANGED <<todrain, returned, toldcore, toldstream, streams, cores, got>>
  BY <1>a, <1>b DEF MessageInv, FillUp, AskCore, ManagerOK
<1>1. all \in Nat
  BY <1>0, NextTurn
<1>2. PICK r \in 0 .. RingLength - 1 :
          /\ r * NumCores <= L /\ L < r * NumCores + NumCores
          /\ \A b \in Cores : NumRequests(b) = IF b < L - r * NumCores THEN r + 1 ELSE r
  BY <1>0 DEF MessageInv, FillOK
<1> DEFINE m == r * NumCores
<1>3. m \in Nat /\ (r + 1) * NumCores = m + NumCores /\ m <= L /\ L < m + NumCores
  BY <1>0, <1>2, NextTurn
<1>4. \A b \in Cores : NumRequests(b) = IF b < L - m THEN r + 1 ELSE r
  BY <1>2
<1>5. c = L - m
  <2>1. L - m \in 0 .. NumCores - 1 /\ r \in Nat
    BY <1>0, <1>3
  <2>2. (m + (L - m)) % NumCores = L - m
    BY <1>0, <2>1, TurnOf
  <2>3. m + (L - m) = L
    BY <1>0, <1>3
  <2> QED BY <1>b, <2>2, <2>3
<1>6. L < all /\ \A b \in Cores : returned[b] = 0
  BY <1>0 DEF MessageInv, FillOK, FillingUp
<1>7. FillingUp' = (Len(asked') < all) /\ FillingUp = (L < all)
  BY DEF FillingUp
<1>8. ResultsOut' = (IF FillingUp' THEN Len(asked') ELSE all)
      /\ ResultsOut = (IF FillingUp THEN L ELSE all)
  BY DEF ResultsOut
<1>9. FillOK' <=>
        (FillingUp' =>
            /\ mpc' # "resend"
            /\ mpc' \notin {"drain", "done"} => \A b \in Cores : returned'[b] = 0
            /\ \E q \in 0 .. RingLength - 1 :
                  /\ q * NumCores <= Len(asked') /\ Len(asked') < q * NumCores + NumCores
                  /\ \A b \in Cores :
                        NumRequests(b)' = IF b < Len(asked') - q * NumCores THEN q + 1 ELSE q)
  BY DEF FillOK
<1>10. ASSUME m + NumCores < all PROVE r + 1 \in 0 .. RingLength - 1
  <2>1. r + 1 \in Nat /\ (r + 1) * NumCores < RingLength * NumCores
    BY <1>3, <1>10
  <2>2. r + 1 < RingLength
    BY <1>0, <2>1, FewerTurns
  <2> QED BY <1>0, <2>2
<1> HIDE DEF all
<1>11. NumRequests(c) = r /\ NumRequests(c) - returned[c] < RingLength
  <2>1. ~(c < L - m) /\ r - 0 < RingLength
    BY <1>0, <1>3, <1>5
  <2> QED BY <1>1, <1>4, <1>6, <2>1
<1>12. CoresOK' /\ Cardinality(Unreturned)' = Cardinality(Unreturned) + 1
  BY <1>0, <1>1, <1>11, AskStep
<1>13. /\ Len(asked') = L + 1 /\ NumRequests(c)' = r + 1
       /\ \A b \in Cores \ {c} : NumRequests(b)' = NumRequests(b)
  BY <1>0, <1>1, <1>11, OneMoreRequest
<1>14. CountOK'
  <2>1. Cardinality(Unreturned) = L
    BY <1>0, <1>8 DEF MessageInv, CountOK
  <2>2. ResultsOut' = L + 1
    BY <1>0, <1>1, <1>6, <1>7, <1>8, <1>13
  <2> QED BY <1>0, <1>12, <2>1, <2>2 DEF CountOK
<1>15. FillOK'
  <2> SUFFICES ASSUME FillingUp'
               PROVE  \E q \in 0 .. RingLength - 1 :
                        /\ q * NumCores <= L + 1 /\ L + 1 < q * NumCores + NumCores
                        /\ \A b \in Cores :
                              NumRequests(b)' = IF b < L + 1 - q * NumCores THEN q + 1 ELSE q
    BY <1>0, <1>6, <1>9, <1>13
  <2>1. CASE L + 1 < m + NumCores
    <3>1. ASSUME NEW b \in Cores
          PROVE  NumRequests(b)' = IF b < L + 1 - m THEN r + 1 ELSE r
      <4> HIDE DEF m
      <4>1. b \in Nat /\ NumRequests(b) = IF b < L - m THEN r + 1 ELSE r
        BY <1>4 DEF Cores
      <4>2. CASE b = c
        <5>1. b < L + 1 - m
          BY <1>0, <1>3, <1>5, <4>2
        <5> QED BY <1>13, <4>2, <5>1
      <4>3. CASE b # c
        <5>1. (b < L + 1 - m) <=> (b < L - m)
          BY <1>0, <1>3, <1>5, <4>1, <4>3
        <5> QED BY <1>13, <4>1, <4>3, <5>1
      <4> QED BY <4>2, <4>3
    <3>2. m <= L + 1
      BY <1>0, <1>3
    <3> QED BY <2>1, <3>1, <3>2
  <2>2. CASE ~(L + 1 < m + NumCores)
    <3>1. m + NumCores = L + 1 /\ (r + 1) * NumCores = L + 1
      BY <1>0, <1>3, <2>2
    <3>2. r + 1 \in 0 .. RingLength - 1
      BY <1>7, <1>10, <1>13, <3>1
    <3>3. ASSUME NEW b \in Cores PROVE NumRequests(b)' = r + 1
      <4> HIDE DEF m
      <4>1. b \in 0 .. NumCores - 1 /\ NumRequests(b) = IF b < L - m THEN r + 1 ELSE r
        BY <1>4 DEF Cores
      <4>2. L - m = NumCores - 1
        BY <1>0, <1>3, <3>1
      <4>3. b = c \/ b < L - m
        BY <1>0, <1>5, <4>1, <4>2
      <4> QED BY <1>13, <4>1, <4>3
    <3>4. \A b \in Cores : NumRequests(b)' =
                             IF b < L + 1 - (r + 1) * NumCores THEN r + 1 + 1 ELSE r + 1
      <4>1. L + 1 - (r + 1) * NumCores = 0
        BY <1>0, <3>1
      <4>2. \A b \in Cores : ~(b < 0)
        BY DEF Cores
      <4> QED BY <3>3, <4>1, <4>2
    <3>5. (r + 1) * NumCores <= L + 1 /\ L + 1 < (r + 1) * NumCores + NumCores
      BY <1>0, <3>1
    <3> QED BY <3>2, <3>4, <3>5
  <2> QED BY <2>1, <2>2
<1> QED BY <1>12, <1>14, <1>15

\* A result, for which the Core is to be asked again or not.
LEMMA ResultStep ==
    ASSUME MessageInv, ReceiveAndResend \/ Drain
    PROVE  CoresOK' /\ FillOK' /\ CountOK' /\ ManagerOK'
<1>0. TypeOK /\ CoresOK /\ todrain \in Int
  BY DEF MessageInv, TypeOK
<1>1. CASE ReceiveAndResend
  <2>1. PICK c \in Cores : Receive(c) /\ mpc' = "resend" /\ left' = {c}
    BY <1>1 DEF ReceiveAndResend
  <2>2. /\ UNCHANGED <<asked, todrain, toldcore, numreceived, taken, got>>
        /\ mpc = "next" /\ ~FillingUp
    BY <1>1 DEF ReceiveAndResend
  <2>3. /\ CoresOK' /\ Cardinality(Unreturned)' = Cardinality(Unreturned) - 1
        /\ NumRequests(c)' - returned'[c] < RingLength
    BY <1>0, <2>1, <2>2, ReceiveStep
  <2>4. ~FillingUp' /\ ResultsOut' = ResultsOut
    BY <2>2, SameRequests
  <2>5. FillOK'
    BY <2>4 DEF FillOK
  <2>6. CountOK'
    BY <2>1, <2>2, <2>3, <2>4 DEF MessageInv, CountOK
  <2>7. ManagerOK'
    BY <2>1, <2>2, <2>3 DEF MessageInv, ManagerOK
  <2> QED BY <2>3, <2>5, <2>6, <2>7
<1>2. CASE Drain
  <2>1. PICK c \in Cores : Receive(c)
    BY <1>2 DEF Drain
  <2>2. /\ UNCHANGED <<mpc, asked, left, toldcore, numreceived, taken, got>>
        /\ mpc = "drain" /\ todrain' = todrain - 1
    BY <1>2 DEF Drain
  <2>3. CoresOK' /\ Cardinality(Unreturned)' = Cardinality(Unreturned) - 1
    BY <1>0, <2>1, <2>2, ReceiveStep
  <2>4. FillOK'
    <3>1. \A b \in Cores : NumRequests(b)' = NumRequests(b)
      BY <2>2, SameRequests
    <3>2. FillingUp' = FillingUp
      BY <2>2, SameRequests
    <3> QED BY <2>2, <3>1, <3>2 DEF MessageInv, FillOK
  <2>5. CountOK'
    BY <2>2, <2>3 DEF MessageInv, CountOK
  <2>6. ManagerOK'
    BY <2>2 DEF MessageInv, ManagerOK
  <2> QED BY <2>3, <2>4, <2>5, <2>6
<1> QED BY <1>1, <1>2

\* The request that goes to the Core a result came from.
LEMMA ResendStep == ASSUME MessageInv, Resend PROVE CoresOK' /\ FillOK' /\ CountOK' /\ ManagerOK'
<1>0. /\ TypeOK /\ CoresOK /\ Len(asked) \in Nat
      /\ RingLength * NumCores \in Nat /\ Cardinality(Unreturned) \in Nat
  <2>1. TypeOK /\ CoresOK
    BY DEF MessageInv
  <2>2. IsFiniteSet(Unreturned)
    BY <2>1, UnreturnedFinite
  <2>3. Cardinality(Unreturned) \in Nat
    BY <2>2, FS_CardinalityType
  <2>4. Len(asked) \in Nat
    BY <2>1 DEF TypeOK
  <2>5. RingLength * NumCores \in Nat
    BY SizeAssumption
  <2> QED BY <2>1, <2>3, <2>4, <2>5
<1>1. PICK c \in Cores : c \in left /\ AskCore(c)
  BY DEF Resend
<1>2. /\ mpc = "resend" /\ mpc' = "ask" /\ left' = Streams /\ ~FillingUp /\ toldcore = {}
      /\ UNCHANGED <<todrain, returned, toldcore, cores, got>>
  BY <1>1 DEF Resend, AskCore, MessageInv, FillOK, ManagerOK
<1>3. NumRequests(c) - returned[c] < RingLength
  BY <1>1, <1>2 DEF MessageInv, ManagerOK
<1>4. CoresOK' /\ Cardinality(Unreturned)' = Cardinality(Unreturned) + 1
  BY <1>0, <1>1, <1>2, <1>3, AskStep
<1>5. ~FillingUp'
  <2> DEFINE all == RingLength * NumCores
  <2>1. Len(asked') = Len(asked) + 1 /\ ~(Len(asked) < all) /\ (FillingUp' <=> Len(asked') < all)
    BY <1>0, <1>1, <1>2, OneMoreRequest DEF FillingUp
  <2> HIDE DEF all
  <2>2. all \in Nat
    BY <1>0 DEF all
  <2> QED BY <1>0, <2>1, <2>2
<1>6. FillOK'
  BY <1>5 DEF FillOK
<1>7. CountOK'
  <2>1. ResultsOut' = ResultsOut /\ ResultsOut \in Nat
    BY <1>0, <1>2, <1>5 DEF ResultsOut
  <2>2. Cardinality(Unreturned) = ResultsOut - 1
    BY <1>2 DEF MessageInv, CountOK
  <2> QED BY <1>2, <1>4, <2>1, <2>2 DEF CountOK
<1>8. ManagerOK'
  BY <1>2 DEF ManagerOK
<1> QED BY <1>4, <1>6, <1>7, <1>8

\* The rest of the manager asks a Core for nothing and receives nothing from it.
LEMMA ManagerStep ==
    ASSUME MessageInv,
           \/ \E s \in Streams : AskStream(s) \/ TerminateStream(s) \/ Stream(s)
           \/ \E c \in Cores : TerminateCore(c)
           \/ StopAsking \/ ManagerDone \/ UNCHANGED vars
    PROVE  CoresOK' /\ FillOK' /\ CountOK' /\ ManagerOK'
<1>1. /\ UNCHANGED <<asked, returned, cpc, numreceived, taken, got>>
      /\ toldcore \subseteq toldcore'
  BY DEF AskStream, TerminateStream, Stream, TakeRequest, SendData, SendsComplete, StreamDone,
         TerminateCore, StopAsking, ManagerDone, vars, manager, streams, cores
<1>2. CoresOK' /\ Cardinality(Unreturned)' = Cardinality(Unreturned)
  BY <1>1, QuietStep DEF MessageInv
<1>3. /\ \A c \in Cores : NumRequests(c)' = NumRequests(c)
      /\ FillingUp' = FillingUp /\ ResultsOut' = ResultsOut /\ Len(asked') = Len(asked)
  BY <1>1, SameRequests
<1>4. \/ mpc = "ask" /\ mpc' \in {"next", "ask"} /\ UNCHANGED <<toldcore, todrain>>
         /\ left' \subseteq left
      \/ mpc = "next" /\ mpc' = "term" /\ UNCHANGED <<toldcore, todrain>>
      \/ mpc = "term" /\ mpc' = "term" /\ UNCHANGED todrain
      \/ mpc = "term" /\ mpc' = "drain" /\ todrain' = ResultsOut
      \/ mpc = "drain" /\ mpc' = "done" /\ todrain = 0 /\ todrain' = 0
      \/ UNCHANGED manager
  BY DEF AskStream, TerminateStream, Stream, TakeRequest, SendData, SendsComplete, StreamDone,
         TerminateCore, StopAsking, ManagerDone, vars, manager
<1>5. FillOK'
  <2>1. /\ mpc' = "resend" => mpc = "resend"
        /\ mpc' \notin {"drain", "done"} => mpc \notin {"drain", "done"}
    BY <1>4 DEF manager
  <2> QED BY <1>1, <1>3, <2>1 DEF MessageInv, FillOK
<1>6. CountOK'
  BY <1>2, <1>3, <1>4 DEF MessageInv, CountOK, manager
<1>7. ManagerOK'
  <2>1. CASE UNCHANGED manager
    BY <1>3, <2>1 DEF MessageInv, ManagerOK, manager
  <2>2. CASE ~UNCHANGED manager
    BY <1>4, <2>2 DEF MessageInv, ManagerOK
  <2> QED BY <2>1, <2>2
<1> QED BY <1>2, <1>5, <1>6, <1>7

\* The steps of the Cores leave the manager alone.
LEMMA CoreStep ==
    ASSUME MessageInv, NEW c \in Cores, Core(c) PROVE MessageInv'
<1>1. UNCHANGED <<manager, streams>>
  BY DEF Core, TakeTime, CoreTerminate, TakeData
<1>2. /\ \A b \in Cores : NumRequests(b)' = NumRequests(b)
      /\ Requests' = Requests /\ Unreturned' = Unreturned
      /\ FillingUp' = FillingUp /\ ResultsOut' = ResultsOut
  <2>1. UNCHANGED <<asked, returned>>
    BY <1>1 DEF manager
  <2> QED BY <2>1, SameRequests DEF Unreturned, NumRequests, RequestsOf, Requests
<1>3. FillOK' /\ CountOK' /\ ManagerOK'
  BY <1>1, <1>2 DEF MessageInv, FillOK, CountOK, ManagerOK, manager
<1>4. TypeOK' /\ CoresOK'
  <2>1. CASE TakeTime(c) \/ CoreTerminate(c)
    BY <2>1, MessageType, TakeTimeStep DEF MessageInv
  <2>2. ASSUME NEW s \in Streams, TakeData(c, s) PROVE TypeOK' /\ CoresOK'
    <3>1. CoresOK' /\ got' \in [Streams -> SUBSET Requests]
      BY <2>2, TakeDataStep DEF MessageInv
    <3>2. /\ numreceived' \in [Cores -> Nat]
          /\ cpc' \in [Cores -> {"recv", "data", "send", "drain", "done"}] /\ UNCHANGED taken
      <4>0. /\ numreceived \in [Cores -> Nat] /\ UNCHANGED taken
            /\ cpc \in [Cores -> {"recv", "data", "send", "drain", "done"}]
        BY <2>2 DEF TakeData, MessageInv, TypeOK
      <4>1. CASE /\ numreceived' = [numreceived EXCEPT ![c] = @ + 1]
                 /\ cpc' = [cpc EXCEPT ![c] = IF taken[c] >= RingLength THEN "send" ELSE "recv"]
        BY <4>0, <4>1
      <4>2. CASE UNCHANGED <<numreceived, cpc>>
        BY <4>0, <4>2
      <4> QED BY <2>2, <4>1, <4>2 DEF TakeData
    <3> QED BY <1>1, <1>2, <3>1, <3>2 DEF MessageInv, TypeOK, manager, streams
  <2> QED BY <2>1, <2>2 DEF Core
<1> QED BY <1>3, <1>4 DEF MessageInv

\* The invariant is inductive.
LEMMA MessageNext == MessageInv /\ [Next]_vars => MessageInv'
<1> SUFFICES ASSUME MessageInv, [Next]_vars PROVE MessageInv'
  OBVIOUS
<1>1. CASE FillUp
  <2>1. ManagerOK'
    BY <1>1 DEF FillUp, AskCore, MessageInv, ManagerOK
  <2> QED BY <1>1, <2>1, FillUpStep, MessageType DEF MessageInv, Manager
<1>2. CASE ReceiveAndResend \/ Drain
  BY <1>2, ResultStep, MessageType DEF MessageInv, Manager
<1>3. CASE Resend
  BY <1>3, ResendStep, MessageType DEF MessageInv, Manager
<1>4. CASE \/ \E s \in Streams : AskStream(s) \/ TerminateStream(s) \/ Stream(s)
           \/ \E c \in Cores : TerminateCore(c)
           \/ StopAsking \/ ManagerDone \/ Finalize
  <2>1. TypeOK'
    BY <1>4, MessageType DEF Manager
  <2>2. CoresOK' /\ FillOK' /\ CountOK' /\ ManagerOK'
    BY <1>4, ManagerStep DEF Finalize
  <2> QED BY <2>1, <2>2 DEF MessageInv
<1>5. ASSUME NEW c \in Cores, Core(c) PROVE MessageInv'
  BY <1>5, CoreStep
<1>6. CASE UNCHANGED vars
  <2>1. TypeOK'
    BY <1>6 DEF MessageInv, TypeOK, Requests, vars, manager, streams, cores
  <2> QED BY <1>6, <2>1, ManagerStep DEF MessageInv
<1> QED BY <1>1, <1>2, <1>3, <1>4, <1>5, <1>6 DEF Next, Manager

\* What the ranks have sent and received goes together, in every job.
LEMMA MessagesRight == Spec => []MessageInv
BY MessageInit, MessageNext, PTL DEF Spec

-----------------------------------------------------------------------------
(* What follows from it.                                                       *)

\* The manager remembers the times of as many requests of a Core as can be
\* without a result, and when it leaves it has received a result for every
\* request, also when the job ended before the rings of the Cores were full.
THEOREM ResultsAreCounted == Spec => []ResultsCounted
<1>1. MessageInv => ResultsCounted
  <2> SUFFICES ASSUME MessageInv PROVE TimesRemembered /\ AllReturned
    BY DEF MessageInv, ResultsCounted
  <2>1. ASSUME mpc = "done", NEW c \in Cores PROVE returned[c] = NumRequests(c)
    <3>0. /\ TypeOK /\ CoreOK(c) /\ RingLength \in Nat /\ RingLength >= 2
          /\ returned[c] \in Nat /\ numreceived[c] \in Nat /\ taken[c] \in Nat
          /\ Len(asked) \in Nat /\ NumRequests(c) \in 0 .. Len(asked)
          /\ cpc[c] \in {"recv", "data", "send", "drain", "done"}
      BY RequestsFinite, SizeAssumption DEF MessageInv, CoresOK, TypeOK
    <3>1. Unreturned = {}
      <4>1. Cardinality(Unreturned) = 0
        BY <2>1 DEF MessageInv, CountOK, ManagerOK
      <4> QED BY <3>0, <4>1, UnreturnedFinite, FS_EmptySet
    <3>2. ~(returned[c] < NumRequests(c))
      <4> SUFFICES ASSUME returned[c] < NumRequests(c) PROVE FALSE
        OBVIOUS
      <4>1. <<c, NumRequests(c)>> \in Unreturned
        BY <3>0 DEF Unreturned, Requests
      <4> QED BY <3>1, <4>1
    <3>3. returned[c] <= NumRequests(c)
      BY <3>0 DEF CoreOK
    <3> QED BY <3>0, <3>2, <3>3
  <2> QED BY <2>1 DEF MessageInv, CoresOK, AllReturned, NumRequests
<1> QED BY <1>1, MessagesRight, PTL

\* A Core that waits for the manager to receive a result has received all that
\* it was asked for from every data stream.
THEOREM NothingIsOnItsWay == Spec => []NothingForSender
<1>1. MessageInv => NothingForSender
  <2> SUFFICES ASSUME MessageInv, NEW c \in Cores, cpc[c] = "send"
               PROVE  /\ taken[c] = NumRequests(c)
                      /\ \A s \in Streams : RequestsOf(c) \subseteq got[s]
    BY DEF NothingForSender, NumRequests
  <2>1. /\ TypeOK /\ CoreOK(c) /\ NumRequests(c) - returned[c] <= RingLength
        /\ returned[c] \in Nat /\ numreceived[c] \in Nat /\ taken[c] \in Nat /\ RingLength \in Nat
        /\ Len(asked) \in Nat /\ NumRequests(c) \in 0 .. Len(asked)
    BY RequestsFinite, SizeAssumption
       DEF MessageInv, CoresOK, TimesRemembered, NumRequests, TypeOK
  <2>2. taken[c] = NumRequests(c)
    BY <2>1 DEF CoreOK
  <2>3. ASSUME NEW s \in Streams PROVE RequestsOf(c) \subseteq got[s]
    <3>1. Cardinality(got[s] \cap RequestsOf(c)) = Cardinality(RequestsOf(c))
      BY <2>2 DEF MessageInv, CoresOK, GotOK, NumRequests
    <3>2. IsFiniteSet(RequestsOf(c)) /\ got[s] \cap RequestsOf(c) \in SUBSET RequestsOf(c)
      BY <2>1, RequestsFinite
    <3>3. got[s] \cap RequestsOf(c) = RequestsOf(c)
      BY <3>1, <3>2, FS_Subset
    <3> QED BY <3>3
  <2> QED BY <2>2, <2>3
<1> QED BY <1>1, MessagesRight, PTL

\* The data a Core takes for that of a request is the data of that request.
THEOREM DataIsOfRequest == Spec => []DataMatches
<1>1. MessageInv => DataMatches
  <2> SUFFICES ASSUME MessageInv, NEW c \in Cores, NEW s \in Streams, cpc[c] = "data",
                      Cardinality(got[s] \cap RequestsOf(c)) < taken[c], NEW k \in Arriving(s, c)
               PROVE  k = Current(c)
    BY DEF DataMatches
  <2> DEFINE Upto(n) == {j \in RequestsOf(c) : j <= n}
  <2>1. /\ TypeOK /\ GotOK(c, s) /\ taken[c] \in Nat /\ RequestsOf(c) \subseteq Nat
        /\ IsFiniteSet(RequestsOf(c)) /\ IsFiniteSet(got[s] \cap RequestsOf(c))
    <3>1. TypeOK /\ GotOK(c, s)
      BY DEF MessageInv, CoresOK
    <3>2. taken[c] \in Nat /\ RequestsOf(c) \subseteq Nat
      BY <3>1 DEF TypeOK, RequestsOf, Requests
    <3> QED BY <3>1, <3>2, RequestsFinite
  <2>2. /\ k \in RequestsOf(c) /\ k \notin got[s]
        /\ \A j \in RequestsOf(c) \ got[s] : k <= j
    BY <2>1, ArrivingFirst
  <2>3. Upto(k) = (got[s] \cap RequestsOf(c)) \cup {k}
    <3>1. ASSUME NEW j \in got[s] \cap RequestsOf(c) PROVE j <= k
      BY <2>1, <2>2 DEF GotOK
    <3>2. ASSUME NEW j \in RequestsOf(c), j <= k, j \notin got[s] PROVE j = k
      BY <2>1, <2>2, <3>2
    <3> QED BY <2>1, <2>2, <3>1, <3>2
  <2>4. Cardinality(Upto(k)) = taken[c]
    <3>1. Cardinality(got[s] \cap RequestsOf(c)) = taken[c] - 1
      BY <2>1 DEF GotOK
    <3>2. k \notin got[s] \cap RequestsOf(c)
      BY <2>2
    <3>3. Cardinality((got[s] \cap RequestsOf(c)) \cup {k}) = taken[c] - 1 + 1
      BY <2>1, <3>1, <3>2, FS_AddElement
    <3>4. Cardinality(Upto(k)) = taken[c] - 1 + 1
      BY <2>3, <3>3, Zenon
    <3> HIDE DEF Upto
    <3> QED BY <2>1, <3>4
  <2>5. ASSUME NEW i \in RequestsOf(c), Cardinality(Upto(i)) = taken[c] PROVE i = k
    <3>1. ASSUME NEW a \in RequestsOf(c), NEW b \in RequestsOf(c), a < b
          PROVE  Cardinality(Upto(a)) # Cardinality(Upto(b))
      <4>1. Upto(a) \in SUBSET Upto(b) /\ b \in Upto(b) /\ b \notin Upto(a)
        BY <2>1, <3>1
      <4>2. IsFiniteSet(Upto(b))
        BY <2>1, FS_Subset
      <4> HIDE DEF Upto
      <4> QED BY <4>1, <4>2, FS_Subset
    <3> HIDE DEF Upto
    <3>2. ~(i < k) /\ ~(k < i)
      BY <2>2, <2>4, <2>5, <3>1
    <3> QED BY <2>1, <2>2, <3>2
  <2> QED
    <3>1. k \in RequestsOf(c) /\ Cardinality(Upto(k)) = taken[c]
      BY <2>2, <2>4
    <3>2. Current(c) = CHOOSE i \in RequestsOf(c) : Cardinality(Upto(i)) = taken[c]
      BY DEF Current, NthRequest
    <3> HIDE DEF Upto
    <3> QED BY <2>5, <3>1, <3>2
<1> QED BY <1>1, MessagesRight, PTL
=============================================================================
