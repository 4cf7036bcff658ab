---------------------------- MODULE FxManagerProofs ----------------------------
(* Proofs about the FxManager, for any number of Cores, length of the buffer   *)
(* and scans: a result is taken for that of the subintegration it is of, the   *)
(* main and the write thread keep to the locks of the buffer, and what is put  *)
(* on disk are integrations in the order of time, each once, and no result in  *)
(* two of them, though Visibilities are reused and old ones given up.  With    *)
(* one integration time, and while the buffer is long enough, each result is   *)
(* added to the Visibility it belongs to and is on disk at the end.            *)
EXTENDS FxManager, Induction, FiniteSetTheorems

-------------------------------------------------------------------------------
(* Time.                                                                       *)

\* The scans and their integration times.
LEMMA ScansType ==
    /\ NumScans \in Nat /\ 1 .. NumScans = DOMAIN ScanDuration
    /\ \A s \in 1 .. NumScans : ScanDuration[s] \in Nat \ {0} /\ IntTime[s] \in Nat
    /\ Configured \subseteq 1 .. NumScans /\ Configured # {}
<1>1. NumScans \in Nat /\ 1 .. NumScans = DOMAIN ScanDuration
  BY ScansAssumption DEF NumScans
<1>2. \A s \in 1 .. NumScans : ScanDuration[s] \in Nat \ {0} /\ IntTime[s] \in Nat
  BY <1>1, ScansAssumption
<1>3. Configured \subseteq 1 .. NumScans /\ Configured # {}
  BY <1>1, ScansAssumption DEF Configured
<1> QED BY <1>1, <1>2, <1>3

\* The first subintegration of each scan.
LEMMA ScanStartIs ==
    /\ \A s \in 1 .. NumScans + 1 : ScanStart[s] \in Nat
    /\ ScanStart[1] = 0
    /\ \A s \in 1 .. NumScans :
          ScanStart[s + 1] = ScanStart[s] + IF s \in Configured THEN ScanDuration[s] ELSE 0
<1> DEFINE D(s) == IF s \in Configured THEN ScanDuration[s] ELSE 0
           F == [n \in Nat |-> [x \in Nat |-> x + D(n + 1)]]
           Def(g) == [s \in 1 .. NumScans + 1 |-> IF s = 1 THEN 0 ELSE g[s - 1] + D(s - 1)]
<1>1. \A s \in Nat : D(s) \in Nat
  BY ScansType
<1> HIDE DEF D
<1>2. F \in [Nat -> [Nat -> Nat]]
  BY <1>1
<1>3. PICK f \in [Nat -> Nat] : f[0] = 0 /\ \A n \in Nat : f[n + 1] = F[n][f[n]]
  <2> DEFINE V == Nat
             z == 0
  <2>1. z \in V /\ StepsIn(F, V)
    BY <1>2 DEF StepsIn
  <2> HIDE DEF F, V, z
  <2>2. PICK f : FollowsSteps(f, V, z, F)
    BY <2>1, Recursion, Zenon
  <2>3. f \in [Nat -> Nat] /\ f[0] = 0 /\ \A n \in Nat : f[n + 1] = F[n][f[n]]
    BY <2>2 DEF V, z, FollowsSteps
  <2> QED BY <2>3
<1> DEFINE g0 == [s \in 1 .. NumScans + 1 |-> f[s - 1]]
<1>4. g0 = Def(g0)
  <2>0. NumScans \in Nat
    BY ScansType
  <2>1. ASSUME NEW s \in 1 .. NumScans + 1
        PROVE  g0[s] = IF s = 1 THEN 0 ELSE g0[s - 1] + D(s - 1)
    <3>1. CASE s = 1
      BY <1>3, <2>0, <3>1
    <3>2. CASE s # 1
      <4>1. s - 2 \in Nat /\ (s - 2) + 1 = s - 1 /\ s - 1 \in 1 .. NumScans + 1 /\ (s - 1) - 1 = s - 2
        BY <2>0, <3>2
      <4>2. f[(s - 2) + 1] = f[s - 2] + D((s - 2) + 1)
        BY <1>3, <4>1
      <4> QED BY <3>2, <4>1, <4>2
    <3> QED BY <3>1, <3>2
  <2> QED BY <2>1
<1>5. ScanStart = CHOOSE g : g = Def(g)
  BY DEF ScanStart, D
<1> HIDE DEF g0
<1>6. ScanStart = Def(ScanStart)
  <2> HIDE DEF Def
  <2> QED BY <1>4, <1>5
<1>7. \A s \in 1 .. NumScans + 1 : ScanStart[s] = IF s = 1 THEN 0 ELSE ScanStart[s - 1] + D(s - 1)
  BY <1>6
<1>8. ScanStart[1] = 0
  BY <1>7, ScansType
<1>9. ASSUME NEW s \in 1 .. NumScans PROVE ScanStart[s + 1] = ScanStart[s] + D(s)
  <2>1. s + 1 \in 1 .. NumScans + 1 /\ s + 1 # 1 /\ (s + 1) - 1 = s
    BY ScansType
  <2> QED BY <1>7, <2>1
<1>10. \A s \in 1 .. NumScans + 1 : ScanStart[s] \in Nat
  <2> DEFINE S == {n \in Nat : n + 1 \in 1 .. NumScans + 1 => ScanStart[n + 1] \in Nat}
  <2>1. 0 \in S
    BY <1>8
  <2>2. ASSUME NEW n \in Nat, n \in S PROVE n + 1 \in S
    <3> SUFFICES ASSUME (n + 1) + 1 \in 1 .. NumScans + 1 PROVE ScanStart[(n + 1) + 1] \in Nat
      OBVIOUS
    <3>1. n + 1 \in 1 .. NumScans /\ n + 1 \in 1 .. NumScans + 1
      BY ScansType
    <3>2. ScanStart[n + 1] \in Nat /\ D(n + 1) \in Nat
      BY <1>1, <2>2, <3>1
    <3> QED BY <1>9, <3>1, <3>2
  <2>3. Nat \subseteq S
    BY <2>1, <2>2, SetInduction
  <2>4. ASSUME NEW s \in 1 .. NumScans + 1 PROVE ScanStart[s] \in Nat
    <3>1. s - 1 \in Nat /\ (s - 1) + 1 = s
      BY ScansType
    <3> QED BY <2>3, <3>1
  <2> QED BY <2>4
<1> QED BY <1>8, <1>9, <1>10 DEF D

\* Every subintegration is of a scan with a configuration.
LEMMA ScanOfIs ==
    /\ NumSubints \in Nat
    /\ \A k \in Subints : /\ ScanOf(k) \in Configured /\ OffsetOf(k) \in Nat
                          /\ OffsetOf(k) < ScanDuration[ScanOf(k)]
                          /\ k = ScanStart[ScanOf(k)] + OffsetOf(k)
<1>0. NumScans \in Nat /\ NumScans + 1 \in 1 .. NumScans + 1
  BY ScansType
<1>1. NumSubints \in Nat
  BY <1>0, ScanStartIs DEF NumSubints
<1>2. ASSUME NEW k \in Subints
      PROVE  \E s \in Configured : ScanStart[s] <= k /\ k < ScanStart[s + 1]
  <2> DEFINE T == {s \in 1 .. NumScans + 1 : k < ScanStart[s]}
  <2>0. k \in Nat /\ k < NumSubints
    BY <1>1 DEF Subints
  <2>1. T # {} /\ T \subseteq Nat
    BY <1>0, <2>0 DEF NumSubints
  <2>2. PICK t \in T : \A y \in T : t <= y
    BY <2>1, NatLeast
  <2>3. t \in 1 .. NumScans + 1 /\ k < ScanStart[t] /\ t # 1
    BY <1>0, <2>0, <2>2, ScanStartIs
  <2> DEFINE s == t - 1
  <2>4. s \in 1 .. NumScans /\ s + 1 = t /\ s \in 1 .. NumScans + 1 /\ ~(t <= s)
    BY <1>0, <2>3
  <2>5. ~(k < ScanStart[s])
    BY <2>2, <2>4
  <2>6. ScanStart[s] <= k /\ k < ScanStart[s + 1]
    BY <2>0, <2>3, <2>4, <2>5, ScanStartIs
  <2>7. s \in Configured
    <3> HIDE DEF s
    <3>1. ScanStart[s] \in Nat
      BY <2>4, ScanStartIs
    <3>2. s \notin Configured => ScanStart[s + 1] = ScanStart[s] + 0
      BY <2>4, ScanStartIs
    <3> QED BY <2>0, <2>6, <3>1, <3>2
  <2> QED BY <2>6, <2>7
<1>3. ASSUME NEW k \in Subints
      PROVE  /\ ScanOf(k) \in Configured /\ OffsetOf(k) \in Nat
             /\ OffsetOf(k) < ScanDuration[ScanOf(k)]
             /\ k = ScanStart[ScanOf(k)] + OffsetOf(k)
  <2> DEFINE s == ScanOf(k)
  <2>1. s \in Configured /\ ScanStart[s] <= k /\ k < ScanStart[s + 1]
    BY <1>2 DEF ScanOf
  <2>2. s \in 1 .. NumScans /\ s \in 1 .. NumScans + 1 /\ k \in Nat /\ OffsetOf(k) = k - ScanStart[s]
    <3>2. OffsetOf(k) = k - ScanStart[s] /\ k \in Nat
      BY <1>1 DEF OffsetOf, Subints
    <3> HIDE DEF s
    <3>1. s \in 1 .. NumScans
      BY <2>1, ScansType
    <3> QED BY <1>0, <3>1, <3>2
  <2> HIDE DEF s
  <2>3. ScanStart[s] \in Nat /\ ScanStart[s + 1] = ScanStart[s] + ScanDuration[s]
        /\ ScanDuration[s] \in Nat
    BY <2>1, <2>2, ScanStartIs, ScansType
  <2>4. OffsetOf(k) \in Nat /\ OffsetOf(k) < ScanDuration[s] /\ k = ScanStart[s] + OffsetOf(k)
    BY <2>1, <2>2, <2>3
  <2> QED BY <2>1, <2>4 DEF s
<1> QED BY <1>1, <1>3

\* A Visibility at an integration period of the job, or past its end
GoodVis == {v \in VisType : ScanOK(v)}

\* One with the period and the data given
Vis5(s, a, i, e, g) == [scan |-> s, start |-> a, inttime |-> i, expected |-> e, got |-> g]

\* The job begins with a scan that has a configuration.
LEMMA FirstScanIs == FirstScan \in Configured /\ \A r \in Configured : FirstScan <= r
<1>1. Configured # {} /\ Configured \subseteq Nat
  BY ScansType
<1>2. \E s \in Configured : \A r \in Configured : s <= r
  BY <1>1, NatLeast
<1> QED BY <1>2 DEF FirstScan

\* A scan is followed by one with a configuration, or is the last.
LEMMA NextScanIs ==
    ASSUME NEW s \in Configured
    PROVE  /\ NextScan(s) \in Configured \cup {NumScans + 1} /\ NextScan(s) > s
           /\ \A q \in Configured : q > s => NextScan(s) <= q
<1> DEFINE T == {r \in (s + 1) .. NumScans + 1 : r \in Configured \cup {NumScans + 1}}
<1>1. NumScans \in Nat /\ s \in 1 .. NumScans
  BY ScansType
<1>2. T # {} /\ T \subseteq Nat
  BY <1>1
<1>3. PICK r \in T : \A y \in T : r <= y
  BY <1>2, NatLeast
<1>4. ASSUME NEW q \in (s + 1) .. (r - 1) PROVE q \notin Configured
  <2>1. q \in (s + 1) .. NumScans + 1 /\ ~(r <= q)
    BY <1>1, <1>3
  <2> QED BY <1>3, <2>1
<1>5. \E x \in (s + 1) .. NumScans + 1 : /\ x \in Configured \cup {NumScans + 1}
                                         /\ \A q \in (s + 1) .. (x - 1) : q \notin Configured
  BY <1>3, <1>4
<1>6. /\ NextScan(s) \in (s + 1) .. NumScans + 1 /\ NextScan(s) \in Configured \cup {NumScans + 1}
      /\ \A q \in (s + 1) .. (NextScan(s) - 1) : q \notin Configured
  BY <1>5 DEF NextScan
<1>7. ASSUME NEW q \in Configured, q > s PROVE NextScan(s) <= q
  <2>1. q \in Int /\ s \in Int /\ NextScan(s) \in Int
    BY <1>1, <1>6, ScansType
  <2>2. q \notin (s + 1) .. (NextScan(s) - 1)
    BY <1>6
  <2> QED BY <1>7, <2>1, <2>2
<1> QED BY <1>1, <1>6, <1>7

\* A Visibility and what it is made of.
LEMMA VisParts ==
    /\ \A v \in GoodVis :
          /\ v = Vis5(v.scan, v.start, v.inttime, v.expected, v.got)
          /\ v.scan \in Nat /\ v.start \in Nat /\ v.inttime \in Nat \ {0} /\ v.expected \in Nat
          /\ v.got \in SUBSET Subints /\ v.scan \in Configured \cup {NumScans + 1}
          /\ PastEnd(v) <=> v.scan = NumScans + 1
          /\ ~PastEnd(v) => v.scan \in Configured
          /\ Zeroed(v) = Vis5(v.scan, v.start, v.inttime, v.expected, {}) /\ Zeroed(v) \in GoodVis
    /\ \A s \in Configured \cup {NumScans + 1}, a \in Nat, i \in Nat \ {0}, e \in Nat,
          g \in SUBSET Subints : Vis5(s, a, i, e, g) \in GoodVis
<1>0. NumScans \in Nat /\ Configured \subseteq 1 .. NumScans
  BY ScansType
<1>1. ASSUME NEW s \in Configured \cup {NumScans + 1}, NEW a \in Nat, NEW i \in Nat \ {0},
             NEW e \in Nat, NEW g \in SUBSET Subints
      PROVE  Vis5(s, a, i, e, g) \in GoodVis
  <2>1. s \in Nat
    BY <1>0
  <2> QED BY <2>1 DEF GoodVis, ScanOK, VisType, Vis5
<1>2. ASSUME NEW v \in GoodVis
      PROVE  /\ v = Vis5(v.scan, v.start, v.inttime, v.expected, v.got)
             /\ v.scan \in Nat /\ v.start \in Nat /\ v.inttime \in Nat \ {0} /\ v.expected \in Nat
             /\ v.got \in SUBSET Subints /\ v.scan \in Configured \cup {NumScans + 1}
  BY DEF GoodVis, ScanOK, VisType, Vis5
<1>3. ASSUME NEW v \in GoodVis
      PROVE  /\ PastEnd(v) <=> v.scan = NumScans + 1
             /\ ~PastEnd(v) => v.scan \in Configured
  <2>1. v.scan \in Nat /\ v.scan \in Configured \cup {NumScans + 1}
    BY <1>2
  <2> QED BY <1>0, <2>1 DEF PastEnd
<1>4. ASSUME NEW v \in GoodVis
      PROVE  /\ Zeroed(v) = Vis5(v.scan, v.start, v.inttime, v.expected, {})
             /\ Zeroed(v) \in GoodVis
  <2>1. Zeroed(v) = Vis5(v.scan, v.start, v.inttime, v.expected, {})
    BY <1>2 DEF Zeroed, Vis5
  <2>2. {} \in SUBSET Subints
    OBVIOUS
  <2> QED BY <1>1, <1>2, <2>1, <2>2
<1> QED BY <1>1, <1>2, <1>3, <1>4

\* The period after that of a Visibility.
LEMMA UpdateTimeIs ==
    ASSUME NEW v \in GoodVis, ~PastEnd(v)
    PROVE  LET start == v.start + v.inttime
               left == ScanDuration[v.scan] - start
               scan == NextScan(v.scan)
           IN  /\ start \in Nat /\ start > v.start /\ left \in Int
               /\ scan \in Configured \cup {NumScans + 1} /\ scan > v.scan
               /\ left <= 0 => /\ (IF scan > NumScans THEN v.inttime ELSE IntTime[scan]) \in Nat \ {0}
                               /\ UpdateTime(v) =
                                    Vis5(scan, 0, IF scan > NumScans THEN v.inttime ELSE IntTime[scan],
                                         v.inttime, v.got)
               /\ ~(left <= 0) => /\ (IF left < v.inttime THEN left ELSE v.inttime) \in Nat
                                  /\ UpdateTime(v) =
                                       Vis5(v.scan, start, v.inttime,
                                            IF left < v.inttime THEN left ELSE v.inttime, v.got)
<1> DEFINE start == v.start + v.inttime
           left == ScanDuration[v.scan] - start
           scan == NextScan(v.scan)
<1>1. /\ v = [scan |-> v.scan, start |-> v.start, inttime |-> v.inttime,
              expected |-> v.expected, got |-> v.got]
      /\ v.start \in Nat /\ v.inttime \in Nat \ {0}
      /\ NumScans \in Nat /\ v.scan \in Configured /\ v.scan \in 1 .. NumScans
  BY ScansType, VisParts DEF Vis5
<1>2. start \in Nat /\ start > v.start /\ left \in Int
  BY <1>1, ScansType
<1>3. scan \in Configured \cup {NumScans + 1} /\ scan > v.scan
  BY <1>1, NextScanIs
<1> HIDE DEF start, left, scan
<1>4. CASE left <= 0
  <2> DEFINE w == [scan |-> scan, start |-> 0, inttime |-> v.inttime,
                   expected |-> v.inttime, got |-> v.got]
  <2>1. [v EXCEPT !.scan = scan, !.start = 0, !.expected = v.inttime] = w
    <3> DEFINE u == [v EXCEPT !.scan = scan, !.start = 0, !.expected = v.inttime]
    <3>1. DOMAIN v = {"scan", "start", "inttime", "expected", "got"}
      BY <1>1
    <3>2. u = [x \in {"scan", "start", "inttime", "expected", "got"} |-> u[x]]
      BY <3>1
    <3>3. /\ u.scan = scan /\ u.start = 0 /\ u.expected = v.inttime
          /\ u.inttime = v.inttime /\ u.got = v.got
      BY <3>1
    <3> HIDE DEF u
    <3>4. u = w
      BY <3>2, <3>3
    <3> QED BY <3>4 DEF u
  <2>2. UpdateTime(v) = ChangeConfig(w)
    BY <1>4, <2>1 DEF UpdateTime, start, left, scan
  <2>3. ChangeConfig(w) = Vis5(scan, 0, IF scan > NumScans THEN v.inttime ELSE IntTime[scan],
                               v.inttime, v.got)
    BY DEF ChangeConfig, PastEnd, Vis5
  <2>4. (IF scan > NumScans THEN v.inttime ELSE IntTime[scan]) \in Nat \ {0}
    <3>1. scan \in Configured => IntTime[scan] \in Nat \ {0}
      BY ScansType DEF Configured
    <3>2. scan \notin Configured => scan > NumScans
      BY <1>1, <1>3
    <3> QED BY <1>1, <3>1, <3>2
  <2> HIDE DEF w
  <2> QED BY <1>2, <1>3, <1>4, <2>2, <2>3, <2>4 DEF start, left, scan
<1>5. CASE ~(left <= 0)
  <2> DEFINE e == IF left < v.inttime THEN left ELSE v.inttime
  <2>1. UpdateTime(v) = [v EXCEPT !.start = start, !.expected = e]
    BY <1>5 DEF UpdateTime, start, left
  <2>2. e \in Nat
    BY <1>1, <1>2, <1>5
  <2>3. UpdateTime(v) = Vis5(v.scan, start, v.inttime, e, v.got)
    <3> HIDE DEF e
    <3> QED BY <1>1, <2>1 DEF Vis5
  <2> QED BY <1>2, <1>3, <1>5, <2>2, <2>3 DEF start, left, scan
<1> QED BY <1>4, <1>5

\* updateTime moves a Visibility to a later period and keeps what it has.
LEMMA UpdateTimeType ==
    ASSUME NEW v \in GoodVis
    PROVE  /\ UpdateTime(v) \in GoodVis /\ Zeroed(UpdateTime(v)) \in GoodVis
           /\ UpdateTime(v).got = v.got
<1>1. CASE PastEnd(v)
  BY <1>1, VisParts DEF UpdateTime
<1>2. CASE ~PastEnd(v)
  <2>1. v.scan \in Configured \cup {NumScans + 1} /\ v.inttime \in Nat \ {0} /\ v.inttime \in Nat
        /\ v.got \in SUBSET Subints /\ 0 \in Nat
    BY VisParts
  <2>2. UpdateTime(v) \in GoodVis
    BY <1>2, <2>1, UpdateTimeIs, VisParts
  <2>3. UpdateTime(v).got = v.got
    BY <1>2, UpdateTimeIs DEF Vis5
  <2> QED BY <2>2, <2>3, VisParts
<1> QED BY <1>1, <1>2

\* The constructor, too, makes empty Visibilities, each a period after the one before.
LEMMA NewVisType ==
    /\ \A i \in Nat : /\ NewVis[i] \in GoodVis /\ NewVis[i].got = {}
                      /\ NewVis[i + 1] = UpdateTime(NewVis[i])
    /\ NewVis[0] = [scan |-> FirstScan, start |-> 0, inttime |-> IntTime[FirstScan],
                    expected |-> IntTime[FirstScan], got |-> {}]
<1> DEFINE V == GoodVis
           z == [scan |-> FirstScan, start |-> 0, inttime |-> IntTime[FirstScan],
                 expected |-> IntTime[FirstScan], got |-> {}]
           F == [n \in Nat |-> [v \in V |-> UpdateTime(v)]]
           Def(g) == [i \in Nat |-> IF i = 0 THEN z ELSE UpdateTime(g[i - 1])]
<1>1. z \in V
  <2>1. FirstScan \in Configured /\ FirstScan \in Nat /\ IntTime[FirstScan] \in Nat \ {0}
    BY FirstScanIs, ScansType DEF Configured
  <2> QED BY <2>1 DEF GoodVis, ScanOK, VisType
<1>2. StepsIn(F, V)
  BY UpdateTimeType DEF StepsIn
<1>3. NewVis = CHOOSE g : g = Def(g)
  BY DEF NewVis
<1> HIDE DEF z
<1>4. PICK f : FollowsSteps(f, V, z, F)
  <2> HIDE DEF V, F
  <2> QED BY <1>1, <1>2, Recursion, Zenon
<1>5. f \in [Nat -> V] /\ f[0] = z /\ \A n \in Nat : f[n + 1] = UpdateTime(f[n])
  BY <1>4 DEF FollowsSteps
<1>6. f = Def(f)
  <2>1. ASSUME NEW i \in Nat PROVE f[i] = IF i = 0 THEN z ELSE UpdateTime(f[i - 1])
    <3>1. CASE i = 0
      BY <1>5, <3>1
    <3>2. CASE i # 0
      <4>1. i - 1 \in Nat /\ (i - 1) + 1 = i
        BY <3>2
      <4>2. f[(i - 1) + 1] = UpdateTime(f[i - 1])
        BY <1>5, <4>1
      <4> QED BY <3>2, <4>1, <4>2
    <3> QED BY <3>1, <3>2
  <2> QED BY <1>5, <2>1
<1>7. NewVis = Def(NewVis)
  <2> HIDE DEF Def
  <2> QED BY <1>3, <1>6
<1>8. \A i \in Nat : NewVis[i] = IF i = 0 THEN z ELSE UpdateTime(NewVis[i - 1])
  BY <1>7
<1> HIDE DEF Def
<1> DEFINE S == {i \in Nat : NewVis[i] \in GoodVis /\ NewVis[i].got = {}}
<1>9. 0 \in S
  <2>1. z.got = {}
    BY DEF z
  <2> QED BY <1>1, <1>8, <2>1
<1>10. ASSUME NEW n \in Nat PROVE NewVis[n + 1] = UpdateTime(NewVis[n])
  <2>1. n + 1 \in Nat /\ n + 1 # 0 /\ (n + 1) - 1 = n
    OBVIOUS
  <2> QED BY <1>8, <2>1
<1>11. ASSUME NEW n \in Nat, n \in S PROVE n + 1 \in S
  BY <1>10, <1>11, UpdateTimeType
<1>12. Nat \subseteq S
  BY <1>9, <1>11, SetInduction
<1>13. NewVis[0] = z
  BY <1>8
<1> QED BY <1>10, <1>12, <1>13 DEF z

-------------------------------------------------------------------------------
(* The ring of Visibilities.                                                   *)

\* Once round the ring is back at the start.
LEMMA OnceRound ==
    ASSUME NEW n \in Nat \ {0}, NEW x \in 0 .. 2 * n - 1
    PROVE  x % n = IF x < n THEN x ELSE x - n
<1>1. CASE x < n
  BY <1>1
<1>2. CASE ~(x < n)
  <2> DEFINE y == x - n
  <2>1. y \in 0 .. n - 1 /\ x = n + y
    BY <1>2
  <2> HIDE DEF y
  <2>2. (n + y) % n = y
    BY <2>1
  <2> QED BY <1>2, <2>1, <2>2
<1> QED BY <1>1, <1>2

\* How far a Visibility is from another, round the ring.
LEMMA WindowIs ==
    ASSUME NEW o \in Vis, NEW v \in Vis
    PROVE  /\ Window(o, v) = IF v >= o THEN v - o ELSE v - o + VisBufferLength
           /\ Window(o, v) \in 0 .. VisBufferLength - 1
<1>1. /\ VisBufferLength \in Nat \ {0} /\ o \in 0 .. VisBufferLength - 1
      /\ v \in 0 .. VisBufferLength - 1
  BY VisBufferLengthAssumption DEF Vis
<1> DEFINE x == v - o + VisBufferLength
<1>2. x \in 0 .. 2 * VisBufferLength - 1
  BY <1>1
<1>3. Window(o, v) = x % VisBufferLength
  BY DEF Window
<1>4. x = v - o + VisBufferLength
  OBVIOUS
<1> HIDE DEF x
<1>5. x % VisBufferLength = IF x < VisBufferLength THEN x ELSE x - VisBufferLength
  BY <1>1, <1>2, OnceRound
<1> QED BY <1>1, <1>3, <1>4, <1>5

\* The Visibility at a distance is that far.
LEMMA PlaceIs ==
    ASSUME NEW o \in Vis, NEW i \in 0 .. VisBufferLength - 1
    PROVE  (o + i) % VisBufferLength \in Vis /\ Window(o, (o + i) % VisBufferLength) = i
<1>1. VisBufferLength \in Nat \ {0} /\ o \in 0 .. VisBufferLength - 1
  BY VisBufferLengthAssumption DEF Vis
<1> DEFINE x == o + i
<1>2. x \in 0 .. 2 * VisBufferLength - 1
  BY <1>1
<1>3. (o + i) % VisBufferLength = IF o + i < VisBufferLength THEN o + i ELSE o + i - VisBufferLength
  <2>1. x = o + i
    OBVIOUS
  <2> HIDE DEF x
  <2>2. x % VisBufferLength = IF x < VisBufferLength THEN x ELSE x - VisBufferLength
    BY <1>1, <1>2, OnceRound
  <2> QED BY <1>1, <1>2, <2>1, <2>2
<1>4. (o + i) % VisBufferLength \in Vis
  BY <1>1, <1>3 DEF Vis
<1> QED BY <1>1, <1>3, <1>4, WindowIs

\* The Visibilities before and after one.
LEMMA SuccIs ==
    ASSUME NEW v \in Vis
    PROVE  /\ Succ(v) = IF v = VisBufferLength - 1 THEN 0 ELSE v + 1
           /\ Pred(v) = IF v = 0 THEN VisBufferLength - 1 ELSE v - 1
           /\ Succ(v) \in Vis /\ Pred(v) \in Vis
           /\ Pred(Succ(v)) = v /\ Succ(Pred(v)) = v /\ Pred(v) # v
<1>1. VisBufferLength \in Nat \ {0} /\ VisBufferLength > 1
  BY VisBufferLengthAssumption
<1>2. \A u \in Vis : /\ Succ(u) = IF u = VisBufferLength - 1 THEN 0 ELSE u + 1
                     /\ Pred(u) = IF u = 0 THEN VisBufferLength - 1 ELSE u - 1
  <2> SUFFICES ASSUME NEW u \in Vis
               PROVE  /\ Succ(u) = IF u = VisBufferLength - 1 THEN 0 ELSE u + 1
                      /\ Pred(u) = IF u = 0 THEN VisBufferLength - 1 ELSE u - 1
    OBVIOUS
  <2>1. u \in 0 .. VisBufferLength - 1
    BY DEF Vis
  <2> DEFINE x == u + 1
             y == u + VisBufferLength - 1
  <2>2. x \in 0 .. 2 * VisBufferLength - 1 /\ y \in 0 .. 2 * VisBufferLength - 1
    BY <1>1, <2>1
  <2>3. Succ(u) = x % VisBufferLength /\ Pred(u) = y % VisBufferLength
    BY DEF Succ, Pred
  <2>4. x = u + 1 /\ y = u + VisBufferLength - 1
    OBVIOUS
  <2> HIDE DEF x, y
  <2>5. /\ x % VisBufferLength = IF x < VisBufferLength THEN x ELSE x - VisBufferLength
        /\ y % VisBufferLength = IF y < VisBufferLength THEN y ELSE y - VisBufferLength
    BY <1>1, <2>2, OnceRound
  <2> QED BY <1>1, <2>1, <2>3, <2>4, <2>5
<1>3. \A u \in Vis : Succ(u) \in Vis /\ Pred(u) \in Vis
  BY <1>1, <1>2 DEF Vis
<1>4. Pred(Succ(v)) = v /\ Succ(Pred(v)) = v /\ Pred(v) # v
  <2>1. v \in 0 .. VisBufferLength - 1
    BY DEF Vis
  <2> QED BY <1>1, <1>2, <1>3, <2>1
<1> QED BY <1>2, <1>3, <1>4

\* Distances along the ring.
LEMMA WindowFacts ==
    ASSUME NEW o \in Vis, NEW u \in Vis, NEW v \in Vis
    PROVE  /\ Window(o, o) = 0
           /\ Window(o, u) = Window(o, v) => u = v
           /\ Window(o, Succ(v)) = IF Succ(v) = o THEN 0 ELSE Window(o, v) + 1
           /\ Window(u, v) = IF Window(o, u) <= Window(o, v) THEN Window(o, v) - Window(o, u)
                             ELSE Window(o, v) - Window(o, u) + VisBufferLength
<1>1. /\ VisBufferLength \in Nat \ {0} /\ o \in 0 .. VisBufferLength - 1
      /\ u \in 0 .. VisBufferLength - 1 /\ v \in 0 .. VisBufferLength - 1
  BY VisBufferLengthAssumption DEF Vis
<1>2. /\ Window(o, o) = 0
      /\ Window(o, u) = IF u >= o THEN u - o ELSE u - o + VisBufferLength
      /\ Window(o, v) = IF v >= o THEN v - o ELSE v - o + VisBufferLength
      /\ Window(u, v) = IF v >= u THEN v - u ELSE v - u + VisBufferLength
  BY <1>1, WindowIs
<1>3. /\ Succ(v) = IF v = VisBufferLength - 1 THEN 0 ELSE v + 1
      /\ Window(o, Succ(v)) = IF Succ(v) >= o THEN Succ(v) - o ELSE Succ(v) - o + VisBufferLength
  BY SuccIs, WindowIs
<1>4. Window(o, u) = Window(o, v) => u = v
  BY <1>1, <1>2
<1>5. Window(o, Succ(v)) = IF Succ(v) = o THEN 0 ELSE Window(o, v) + 1
  BY <1>1, <1>2, <1>3
<1>6. Window(u, v) = IF Window(o, u) <= Window(o, v) THEN Window(o, v) - Window(o, u)
                     ELSE Window(o, v) - Window(o, u) + VisBufferLength
  BY <1>1, <1>2
<1> QED BY <1>2, <1>4, <1>5, <1>6

\* The first locked Visibility from a place on.
LEMMA AdvanceIs ==
    ASSUME NEW o \in Vis, NEW locked \in [Vis -> BOOLEAN], NEW v \in Vis, locked[v]
    PROVE  /\ Advance(o, locked) \in Vis /\ locked[Advance(o, locked)]
           /\ \A u \in Vis : locked[u] => Window(o, Advance(o, locked)) <= Window(o, u)
<1> DEFINE At(i) == (o + i) % VisBufferLength
           T == {i \in 0 .. VisBufferLength - 1 : locked[At(i)]}
           First(i) == locked[At(i)] /\ \A j \in 0 .. i - 1 : ~locked[At(j)]
           n == CHOOSE i \in 0 .. VisBufferLength - 1 : First(i)
<1>0. VisBufferLength \in Nat
  BY VisBufferLengthAssumption
<1>1. ASSUME NEW u \in Vis PROVE Window(o, u) \in 0 .. VisBufferLength - 1 /\ At(Window(o, u)) = u
  <2>1. Window(o, u) \in 0 .. VisBufferLength - 1
    BY WindowIs
  <2>2. At(Window(o, u)) \in Vis /\ Window(o, At(Window(o, u))) = Window(o, u)
    BY <2>1, PlaceIs
  <2> HIDE DEF At
  <2> QED BY <2>1, <2>2, WindowFacts
<1>2. \A i \in 0 .. VisBufferLength - 1 : At(i) \in Vis /\ Window(o, At(i)) = i
  BY PlaceIs
<1>3. Advance(o, locked) = At(n)
  BY DEF Advance
<1> HIDE DEF At
<1>4. \E i \in 0 .. VisBufferLength - 1 : First(i)
  <2>1. T \subseteq Nat /\ T # {}
    BY <1>0, <1>1
  <2>2. PICK i \in T : \A y \in T : i <= y
    BY <2>1, NatLeast
  <2>3. ASSUME NEW j \in 0 .. i - 1 PROVE ~locked[At(j)]
    <3>1. j \in 0 .. VisBufferLength - 1 /\ ~(i <= j)
      BY <1>0, <2>2
    <3> QED BY <2>2, <3>1
  <2> QED BY <2>2, <2>3
<1>5. n \in 0 .. VisBufferLength - 1 /\ First(n)
  BY <1>4
<1> HIDE DEF n
<1>6. ASSUME NEW u \in Vis, locked[u] PROVE Window(o, Advance(o, locked)) <= Window(o, u)
  <2>1. Window(o, u) \in 0 .. VisBufferLength - 1 /\ ~(Window(o, u) \in 0 .. n - 1)
    BY <1>1, <1>5, <1>6
  <2> QED BY <1>0, <1>2, <1>3, <1>5, <2>1
<1> QED BY <1>2, <1>3, <1>5, <1>6

-------------------------------------------------------------------------------
(* Dispatch: the queue of a Core and the ring of times remembered for it.      *)

\* What of the types the dispatch needs.
LEMMA DispatchTypes ==
    ASSUME TypeOK, NEW c \in Cores
    PROVE  /\ next \in 0 .. NumSubints /\ sendcount \in 0 .. NumSubints /\ NumSubints \in Nat
           /\ inflight[c] \in Seq(Subints) /\ Len(inflight[c]) \in Nat
           /\ coretimes[c] \in [0 .. 3 -> Nat]
           /\ numsent[c] \in Nat /\ extrareceived[c] \in Nat /\ source \in Cores
           /\ AtHand(c) \in {0, 1} /\ AtHand(c)' \in {0, 1}
<1>1. NumSubints \in Nat
  BY ScansType, ScanStartIs DEF NumSubints
<1>2. AtHand(c) \in {0, 1} /\ AtHand(c)' \in {0, 1}
  BY DEF AtHand
<1> QED BY <1>1, <1>2 DEF TypeOK, RECEIVE_RING_LENGTH

\* The queue of a Core as numbers and a ring of four.
LEMMA QueueIs ==
    ASSUME NEW c \in Cores
    PROVE  QueueOK(c) <=>
             /\ Len(inflight[c]) = (IF numsent[c] < 4 THEN numsent[c] ELSE 4)
                                    - extrareceived[c] - AtHand(c)
             /\ \A i \in 1 .. Len(inflight[c]) :
                   inflight[c][i] = coretimes[c][(numsent[c] - Len(inflight[c]) + i - 1) % 4]
             /\ resend => extrareceived[c] = 0
BY DEF QueueOK, RECEIVE_RING_LENGTH

\* A Core that is sent one more has it last in its queue, and remembered.
LEMMA SendQueue ==
    ASSUME TypeOK, NEW c \in Cores, QueueOK(c), SendData(c), resend, resend',
           extrareceived' = extrareceived,
           numsent[c] < 4 => AtHand(c) = 0 /\ AtHand(c)' = 0,
           numsent[c] >= 4 => AtHand(c) = 1 /\ AtHand(c)' = 0,
           next \in Subints
    PROVE  QueueOK(c)'
<1> DEFINE n == numsent[c]
           q == inflight[c]
           t == coretimes[c]
           k == next
<1>1. /\ n \in Nat /\ q \in Seq(Subints) /\ Len(q) \in Nat /\ t \in [0 .. 3 -> Nat] /\ k \in Subints
      /\ extrareceived[c] = 0 /\ extrareceived'[c] = 0
  BY DispatchTypes, QueueIs
<1>2. /\ Len(q) = (IF n < 4 THEN n ELSE 4) - AtHand(c)
      /\ \A i \in 1 .. Len(q) : q[i] = t[(n - Len(q) + i - 1) % 4]
  BY <1>1, QueueIs, DispatchTypes
<1>3. /\ inflight'[c] = Append(q, k) /\ coretimes'[c] = [t EXCEPT ![n % 4] = k]
      /\ numsent'[c] = n + 1
  BY DEF SendData, TypeOK, RECEIVE_RING_LENGTH
<1>4. Len(inflight'[c]) = Len(q) + 1 /\ inflight'[c][Len(q) + 1] = k
      /\ \A i \in 1 .. Len(q) : inflight'[c][i] = q[i]
  BY <1>1, <1>3
<1>5. Len(q) = (IF n < 4 THEN n ELSE 3) /\ n % 4 \in 0 .. 3
  BY <1>1, <1>2
<1>6. Len(inflight'[c]) = (IF n + 1 < 4 THEN n + 1 ELSE 4) - 0 - 0
  BY <1>1, <1>4, <1>5
<1> HIDE DEF n, q, t, k
<1>7. ASSUME NEW i \in 1 .. Len(q) + 1
      PROVE  inflight'[c][i] = coretimes'[c][(n + 1 - (Len(q) + 1) + i - 1) % 4]
  <2>1. CASE i = Len(q) + 1
    <3>1. n + 1 - (Len(q) + 1) + i - 1 = n
      BY <1>1, <2>1
    <3> QED BY <1>1, <1>3, <1>4, <1>5, <2>1, <3>1
  <2>2. CASE i # Len(q) + 1
    <3>1. i \in 1 .. Len(q)
      BY <1>1, <2>2
    <3> DEFINE j == n - Len(q) + i - 1
    <3>2. n + 1 - (Len(q) + 1) + i - 1 = j
      BY <1>1, <3>1
    <3>3. j \in Nat /\ j < n /\ j + 4 > n
      BY <1>1, <1>5, <3>1
    <3>4. q[i] = t[j % 4]
      BY <1>2, <3>1
    <3> HIDE DEF j
    <3>5. j % 4 \in 0 .. 3 /\ j % 4 # n % 4
      BY <1>1, <3>3
    <3> QED BY <1>1, <1>3, <1>4, <3>1, <3>2, <3>4, <3>5
  <2> QED BY <2>1, <2>2
<1>8. AtHand(c)' = 0
  BY <1>1 DEF n
<1>9. /\ Len(inflight[c])' = (IF numsent'[c] < 4 THEN numsent'[c] ELSE 4)
                              - extrareceived'[c] - AtHand(c)'
      /\ \A i \in 1 .. Len(inflight[c])' :
            inflight'[c][i] = coretimes'[c][(numsent'[c] - Len(inflight[c])' + i - 1) % 4]
  BY <1>1, <1>3, <1>4, <1>6, <1>7, <1>8
<1> QED BY <1>1, <1>9 DEF QueueOK, RECEIVE_RING_LENGTH

\* The queue of a Core from which a result is received.
LEMMA ReceiveQueue ==
    ASSUME TypeOK, NEW c \in Cores, QueueOK(c), Receive(c)
    PROVE  QueueOK(c)' /\ corevis' = result' /\ result' \in Subints
<1> DEFINE n == numsent[c]
           q == inflight[c]
           t == coretimes[c]
           e == extrareceived[c]
<1>1. /\ n \in Nat /\ q \in Seq(Subints) /\ Len(q) \in Nat /\ t \in [0 .. 3 -> Nat] /\ e \in Nat
      /\ q # <<>>
  BY DispatchTypes DEF Receive
<1>2. AtHand(c) = 0 /\ AtHand(c)' = 1
  BY DEF Receive, AtHand
<1>3. /\ Len(q) = (IF n < 4 THEN n ELSE 4) - e
      /\ \A i \in 1 .. Len(q) : q[i] = t[(n - Len(q) + i - 1) % 4]
      /\ resend => e = 0
  BY <1>1, <1>2, QueueIs
<1>4. /\ inflight'[c] = Tail(q) /\ UNCHANGED <<coretimes, numsent, extrareceived, resend>>
      /\ result' = Head(q) /\ corevis' = t[InfoIndex(c)]
  BY DEF Receive, TypeOK
<1>5. InfoIndex(c) = IF n < 4 THEN e ELSE (n + e) % 4
  BY DEF InfoIndex, RECEIVE_RING_LENGTH
<1>6. Len(q) > 0 /\ Head(q) = q[1] /\ q[1] \in Subints
  BY <1>1
<1>7. Len(Tail(q)) = Len(q) - 1 /\ \A i \in 1 .. Len(q) - 1 : Tail(q)[i] = q[i + 1]
  BY <1>1
<1> HIDE DEF n, q, t, e
<1>8. corevis' = result'
  <2>1. q[1] = t[(n - Len(q) + 1 - 1) % 4]
    BY <1>1, <1>3, <1>6
  <2>2. CASE n < 4
    <3>1. n - Len(q) + 1 - 1 = e /\ e \in 0 .. 3
      BY <1>1, <1>3, <1>6, <2>2
    <3>2. e % 4 = e
      BY <3>1
    <3> QED BY <1>4, <1>5, <1>6, <2>1, <2>2, <3>1, <3>2
  <2>3. CASE ~(n < 4)
    <3>1. n - Len(q) + 1 - 1 = (n + e) - 4 /\ (n + e) - 4 \in Nat
      BY <1>1, <1>3, <1>6, <2>3
    <3>2. ((n + e) - 4) % 4 = (n + e) % 4
      BY <1>1, <3>1
    <3> QED BY <1>4, <1>5, <1>6, <2>1, <2>3, <3>1, <3>2
  <2> QED BY <2>2, <2>3
<1>9. ASSUME NEW i \in 1 .. Len(q) - 1
      PROVE  Tail(q)[i] = t[(n - (Len(q) - 1) + i - 1) % 4]
  <2>1. n - (Len(q) - 1) + i - 1 = n - Len(q) + (i + 1) - 1 /\ i + 1 \in 1 .. Len(q)
    BY <1>1
  <2>2. q[i + 1] = t[(n - Len(q) + (i + 1) - 1) % 4]
    BY <1>3, <2>1
  <2> QED BY <1>7, <2>1, <2>2
<1>10. Len(Tail(q)) = (IF n < 4 THEN n ELSE 4) - e - 1
  BY <1>1, <1>3, <1>7
<1>11. numsent'[c] = n /\ coretimes'[c] = t /\ extrareceived'[c] = e
  BY <1>4 DEF n, t, e
<1>12. /\ Len(inflight[c])' = (IF numsent'[c] < 4 THEN numsent'[c] ELSE 4)
                               - extrareceived'[c] - AtHand(c)'
       /\ \A i \in 1 .. Len(inflight[c])' :
             inflight'[c][i] = coretimes'[c][(numsent'[c] - Len(inflight[c])' + i - 1) % 4]
       /\ resend' => extrareceived'[c] = 0
  <2>1. Len(inflight[c])' = Len(q) - 1
    BY <1>4, <1>7
  <2>2. Len(q) - 1 = (IF n < 4 THEN n ELSE 4) - e - 1
    BY <1>7, <1>10
  <2>3. ASSUME NEW i \in 1 .. Len(q) - 1
        PROVE  inflight'[c][i] = t[(n - (Len(q) - 1) + i - 1) % 4]
    BY <1>4, <1>9
  <2>4. resend' => e = 0
    BY <1>3, <1>4
  <2> QED BY <1>2, <1>11, <2>1, <2>2, <2>3, <2>4
<1>13. QueueOK(c)'
  BY <1>12 DEF QueueOK, RECEIVE_RING_LENGTH
<1> QED BY <1>4, <1>6, <1>8, <1>13

\* The queue of a Core that has no part in a step.
LEMMA QueueKept ==
    ASSUME NEW c \in Cores, QueueOK(c), resend' => resend, AtHand(c)' = AtHand(c),
           inflight'[c] = inflight[c], coretimes'[c] = coretimes[c],
           numsent'[c] = numsent[c], extrareceived'[c] = extrareceived[c]
    PROVE  QueueOK(c)'
BY DEF QueueOK

\* A subintegration is sent to a Core: the queues of the others.
LEMMA SendOthers ==
    ASSUME TypeOK, NEW c \in Cores, SendData(c), NEW b \in Cores, b # c,
           UNCHANGED <<resend, source, extrareceived>>, QueueOK(b),
           source # b \/ (mpc = "loop" /\ mpc' = "loop")
    PROVE  QueueOK(b)'
<1>1. AtHand(b)' = AtHand(b)
  BY DEF AtHand
<1>2. inflight'[b] = inflight[b] /\ coretimes'[b] = coretimes[b] /\ numsent'[b] = numsent[b]
  BY DEF SendData, TypeOK
<1> QED BY <1>1, <1>2, QueueKept

\* Each Core in its turn is sent one more while they are filled up.
LEMMA FillUpStep ==
    ASSUME TypeOK, DispatchInv, FillUp
    PROVE  DispatchInv'
<1> DEFINE L == sendcount
           c == L % NumCores
<1>1. /\ L \in Nat /\ NumCores \in Nat \ {0} /\ mpc = "loop" /\ mpc' = "loop" /\ resend /\ resend'
      /\ L < 4 * NumCores /\ next \in Subints /\ sendcount' = L + 1 /\ next' = next + 1 /\ L = next
      /\ SendData(c) /\ UNCHANGED <<resend, keepwriting, source, result, corevis, extrareceived>>
  <2>1. NumSubints \in Nat
    BY ScansType, ScanStartIs DEF NumSubints
  <2> QED BY NumCoresAssumption, <2>1 DEF TypeOK, DispatchInv, PhaseOK, FillUp, More, Filling,
       SendData, RECEIVE_RING_LENGTH, Subints, resultvars
<1>2. PICK r \in 0 .. 3 :
          /\ r * NumCores <= L /\ L < r * NumCores + NumCores
          /\ \A b \in Cores : numsent[b] = IF b < L - r * NumCores THEN r + 1 ELSE r
  BY <1>1 DEF DispatchInv, FillOK, Filling, RECEIVE_RING_LENGTH
<1> DEFINE m == r * NumCores
<1>3. /\ m \in Nat /\ m <= L /\ L < m + NumCores /\ (r + 1) * NumCores = m + NumCores
      /\ r = 3 => m = 3 * NumCores
  BY <1>1, <1>2
<1>4. \A b \in Cores : numsent[b] = IF b < L - m THEN r + 1 ELSE r
  BY <1>2
<1>5. c = L - m /\ c \in Cores
  <2>1. L - m \in 0 .. NumCores - 1 /\ r \in Nat
    BY <1>1, <1>3
  <2>2. (r * NumCores + (L - m)) % NumCores = L - m
    <3> DEFINE i == L - m
    <3>1. i \in 0 .. NumCores - 1
      BY <2>1
    <3> HIDE DEF i, m
    <3>2. (r * NumCores + i) % NumCores = i
      BY <1>1, <2>1, <3>1
    <3> QED BY <3>2 DEF i
  <2>3. r * NumCores + (L - m) = L
    BY <1>1, <1>3
  <2> QED BY <2>1, <2>2, <2>3 DEF Cores
<1>6. numsent'[c] = r + 1 /\ \A b \in Cores \ {c} : numsent'[b] = numsent[b]
  <2>1. numsent[c] = r
    <3>1. ~(c < L - m)
      BY <1>1, <1>3, <1>5
    <3> QED BY <1>4, <1>5, <3>1
  <2>2. numsent' = [numsent EXCEPT ![c] = @ + 1]
    BY <1>1 DEF SendData
  <2> QED BY <1>5, <2>1, <2>2 DEF TypeOK
<1>7. \A b \in Cores : numsent'[b] = IF b < L + 1 - m THEN r + 1 ELSE r
  <2> SUFFICES ASSUME NEW b \in Cores PROVE numsent'[b] = IF b < L + 1 - m THEN r + 1 ELSE r
    OBVIOUS
  <2>1. b \in Int /\ numsent[b] = IF b < L - m THEN r + 1 ELSE r
    BY <1>4 DEF Cores
  <2> HIDE DEF c, m, L
  <2>2. CASE b = c
    BY <1>1, <1>3, <1>5, <1>6, <2>1, <2>2
  <2>3. CASE b # c
    <3>1. b < L + 1 - m <=> b < L - m
      BY <1>1, <1>3, <1>5, <2>1, <2>3
    <3> QED BY <1>6, <2>1, <2>3, <3>1
  <2> QED BY <2>2, <2>3
<1>8. FillOK'
  <2>0. FillOK' <=> (IF L + 1 < 4 * NumCores
                     THEN \E q \in 0 .. 3 :
                             /\ q * NumCores <= L + 1 /\ L + 1 < q * NumCores + NumCores
                             /\ \A b \in Cores :
                                   numsent'[b] = IF b < L + 1 - q * NumCores THEN q + 1 ELSE q
                     ELSE \A b \in Cores : numsent'[b] >= 4)
    BY <1>1 DEF FillOK, Filling, RECEIVE_RING_LENGTH
  <2>1. CASE L + 1 < m + NumCores
    <3>1. L + 1 < 4 * NumCores
      <4>1. m <= 3 * NumCores
        BY <1>1, <1>2
      <4> QED BY <1>1, <1>3, <2>1, <4>1
    <3>2. m <= L + 1
      BY <1>1, <1>3
    <3> QED BY <1>2, <1>7, <2>0, <2>1, <3>1, <3>2
  <2>2. CASE ~(L + 1 < m + NumCores)
    <3>1. L + 1 = m + NumCores
      BY <1>1, <1>3, <2>2
    <3>2. \A b \in Cores : b < L + 1 - m
      BY <1>1, <1>3, <3>1 DEF Cores
    <3>3. \A b \in Cores : numsent'[b] = r + 1
      BY <1>7, <3>2
    <3>4. CASE r = 3
      <4>1. ~(L + 1 < 4 * NumCores)
        BY <1>1, <1>3, <3>1, <3>4
      <4> QED BY <2>0, <3>3, <3>4, <4>1
    <3>5. CASE r # 3
      <4> DEFINE q == r + 1
      <4>1. q \in 0 .. 3
        BY <1>2, <3>5
      <4>2. q * NumCores = L + 1 /\ L + 1 < q * NumCores + NumCores
        BY <1>1, <1>3, <3>1
      <4>3. \A b \in Cores : numsent'[b] = IF b < L + 1 - q * NumCores THEN q + 1 ELSE q
        <5>1. \A b \in Cores : ~(b < L + 1 - q * NumCores)
          BY <1>1, <4>2 DEF Cores
        <5> QED BY <3>3, <5>1
      <4>4. L + 1 < 4 * NumCores
        <5>1. m <= 2 * NumCores
          BY <1>1, <1>2, <3>5
        <5> QED BY <1>1, <1>3, <3>1, <5>1
      <4>5. q * NumCores <= L + 1
        BY <1>1, <4>2
      <4> HIDE DEF q, L
      <4> QED BY <2>0, <4>1, <4>2, <4>3, <4>4, <4>5
    <3> QED BY <3>4, <3>5
  <2> QED BY <2>1, <2>2
<1>9. PhaseOK' /\ Attribution'
  BY <1>1 DEF DispatchInv, PhaseOK, Attribution, Receiving, MainSteps
<1>10. ASSUME NEW b \in Cores PROVE QueueOK(b)'
  <2>1. QueueOK(b)
    BY DEF DispatchInv
  <2>2. CASE b = c
    <3>1. numsent[c] < 4
      <4>1. ~(c < L - m)
        BY <1>1, <1>3, <1>5
      <4> QED BY <1>2, <1>4, <1>5, <4>1
    <3>2. AtHand(b) = 0 /\ AtHand(b)' = 0
      BY <1>1 DEF AtHand
    <3> HIDE DEF c
    <3>3. numsent[b] < 4 /\ numsent[b] \in Nat /\ SendData(b)
      BY <1>1, <2>2, <3>1, DispatchTypes
    <3>4. numsent[b] >= 4 => AtHand(b) = 1 /\ AtHand(b)' = 0
      BY <3>3
    <3> QED BY <1>1, <2>1, <3>2, <3>3, <3>4, SendQueue
  <2>3. CASE b # c
    <3> HIDE DEF c
    <3> QED BY <1>1, <1>5, <2>1, <2>3, SendOthers
  <2> QED BY <2>2, <2>3
<1> QED BY <1>8, <1>9, <1>10 DEF DispatchInv

\* The main thread stays at the same result, or has none: the dispatch is not touched.
LEMMA OtherStep ==
    ASSUME TypeOK, DispatchInv, mpc \in MainSteps, mpc' \in MainSteps, mpc # "loop" \/ mpc' = "loop",
           UNCHANGED <<resend, dispatchvars, source, result, corevis>>, PhaseOK',
           mpc' \in Receiving => mpc \in Receiving,
           mpc' \in {"locate", "more", "drop", "send"} <=> mpc \in {"locate", "more", "drop", "send"}
    PROVE  DispatchInv'
<1>1. Attribution'
  BY DEF DispatchInv, Attribution
<1>2. FillOK'
  <2> SUFFICES ASSUME resend' PROVE FillOK'
    BY DEF FillOK
  <2>1. CASE Filling
    BY <2>1 DEF DispatchInv, FillOK, Filling, dispatchvars
  <2>2. CASE ~Filling
    BY <2>2 DEF DispatchInv, FillOK, Filling, dispatchvars
  <2> QED BY <2>1, <2>2
<1>3. ASSUME NEW c \in Cores PROVE QueueOK(c)'
  <2>1. AtHand(c)' = AtHand(c)
    BY DEF AtHand
  <2>2. QueueOK(c)
    BY DEF DispatchInv
  <2> QED BY <2>1, <2>2, QueueKept DEF dispatchvars
<1> QED BY <1>1, <1>2, <1>3 DEF DispatchInv

\* A result is received.
LEMMA ReceiveStep ==
    ASSUME TypeOK, DispatchInv, NEW c \in Cores, Receive(c)
    PROVE  DispatchInv'
<1>1. /\ mpc = "final" \/ (mpc = "loop" /\ next < NumSubints /\ ~Filling)
      /\ mpc' = "locate" /\ source' = c
      /\ UNCHANGED <<resend, next, sendcount, coretimes, numsent, extrareceived, keepwriting>>
      /\ \A b \in Cores \ {c} : inflight'[b] = inflight[b]
  BY DEF Receive, More, TypeOK
<1>2. QueueOK(c)' /\ corevis' = result' /\ result' \in Subints
  BY ReceiveQueue DEF DispatchInv
<1>3. ASSUME NEW b \in Cores, b # c PROVE QueueOK(b)'
  <2>1. AtHand(b)' = AtHand(b)
    BY <1>1, <1>3 DEF AtHand
  <2> QED BY <1>1, <1>3, <2>1, QueueKept DEF DispatchInv
<1>4. PhaseOK'
  BY <1>1, <1>2 DEF DispatchInv, PhaseOK, MainSteps, Receiving
<1>5. FillOK'
  <2>1. resend' => ~Filling' /\ ~Filling
    BY <1>1 DEF DispatchInv, PhaseOK, Filling, MainSteps, Receiving
  <2> QED BY <1>1, <2>1 DEF DispatchInv, FillOK
<1> QED BY <1>2, <1>3, <1>4, <1>5 DEF DispatchInv, Attribution

\* The Core whose result was received is sent one more.
LEMMA ResendStep ==
    ASSUME TypeOK, DispatchInv, Resend
    PROVE  DispatchInv'
<1>0. source \in Cores /\ NumSubints \in Nat /\ next \in Nat /\ sendcount \in Nat
  <2>1. source \in Cores /\ next \in Nat /\ sendcount \in Nat
    BY DEF TypeOK
  <2> QED BY <2>1, DispatchTypes
<1>1. /\ mpc = "send" /\ mpc' = "add" /\ resend /\ resend' /\ SendData(source)
      /\ sendcount' = sendcount + 1 /\ next' = next + 1
      /\ UNCHANGED <<resend, keepwriting, source, result, corevis, extrareceived>>
  BY DEF Resend, SendData, resultvars
<1>2. /\ sendcount = next /\ next < NumSubints /\ next \in Subints
      /\ ~Filling /\ \A b \in Cores : numsent[b] >= 4
  BY <1>0, <1>1 DEF DispatchInv, PhaseOK, FillOK, RECEIVE_RING_LENGTH, Subints
<1>3. ASSUME NEW b \in Cores PROVE QueueOK(b)'
  <2>1. QueueOK(b) /\ numsent[b] >= 4 /\ numsent[b] \in Nat
    BY <1>2, DispatchTypes DEF DispatchInv
  <2>2. CASE b = source
    <3>1. AtHand(b) = 1 /\ AtHand(b)' = 0 /\ SendData(b) /\ ~(numsent[b] < 4)
      BY <1>1, <2>1, <2>2 DEF AtHand
    <3> QED BY <1>1, <1>2, <2>1, <3>1, SendQueue
  <2>3. CASE b # source
    <3>1. PICK c \in Cores : c = source
      BY <1>0
    <3> QED BY <1>1, <2>1, <2>3, <3>1, SendOthers
  <2> QED BY <2>2, <2>3
<1>4. PhaseOK' /\ Attribution'
  BY <1>1, <1>2 DEF DispatchInv, PhaseOK, Attribution, MainSteps, Receiving
<1>5. FillOK'
  <2>1. ~Filling'
    <3>1. NumCores \in Nat
      BY NumCoresAssumption
    <3> QED BY <1>0, <1>1, <1>2, <3>1 DEF Filling, RECEIVE_RING_LENGTH
  <2>2. ASSUME NEW b \in Cores PROVE numsent'[b] >= 4
    <3>1. numsent[b] \in Nat /\ numsent[b] >= 4 /\ numsent' = [numsent EXCEPT ![source] = @ + 1]
          /\ numsent \in [Cores -> Nat]
      BY <1>1, <1>2 DEF SendData, TypeOK
    <3> QED BY <3>1
  <2> QED BY <2>1, <2>2 DEF FillOK, RECEIVE_RING_LENGTH
<1> QED BY <1>3, <1>4, <1>5 DEF DispatchInv

\* A result that was received is counted.
LEMMA AcknowledgeStep ==
    ASSUME TypeOK, DispatchInv, Acknowledge
    PROVE  DispatchInv'
<1>1. /\ mpc = "send" /\ mpc' = "add" /\ ~resend /\ ~resend' /\ source \in Cores
      /\ extrareceived' = [extrareceived EXCEPT ![source] = @ + 1]
      /\ UNCHANGED <<resend, inflight, coretimes, numsent, keepwriting, source, result, corevis>>
  BY DEF Acknowledge, resultvars, TypeOK
<1>2. ASSUME NEW b \in Cores PROVE QueueOK(b)'
  <2>1. QueueOK(b)
    BY DEF DispatchInv
  <2>2. CASE b = source
    <3>1. AtHand(b) = 1 /\ AtHand(b)' = 0 /\ extrareceived'[b] = extrareceived[b] + 1
      BY <1>1, <2>2 DEF AtHand, TypeOK
    <3>2. extrareceived[b] \in Nat /\ numsent[b] \in Nat
      BY DispatchTypes
    <3> DEFINE n == IF numsent[b] < 4 THEN numsent[b] ELSE 4
    <3>3. n \in Nat
      BY <3>2
    <3>4. Len(inflight[b]) = n - extrareceived[b] - 1
      BY <2>1, <3>1, QueueIs
    <3>5. n - (extrareceived[b] + 1) - 0 = n - extrareceived[b] - 1
      BY <3>2, <3>3
    <3>6. /\ Len(inflight'[b]) = (IF numsent'[b] < 4 THEN numsent'[b] ELSE 4)
                                 - extrareceived'[b] - AtHand(b)'
          /\ \A i \in 1 .. Len(inflight'[b]) :
                inflight'[b][i] = coretimes'[b][(numsent'[b] - Len(inflight'[b]) + i - 1) % 4]
      BY <1>1, <2>1, <3>1, <3>4, <3>5, QueueIs
    <3> QED BY <1>1, <3>6 DEF QueueOK, RECEIVE_RING_LENGTH
  <2>3. CASE b # source
    <3>1. AtHand(b)' = AtHand(b) /\ extrareceived'[b] = extrareceived[b]
      BY <1>1, <2>3 DEF AtHand, TypeOK
    <3> QED BY <1>1, <2>1, <3>1, QueueKept
  <2> QED BY <2>2, <2>3
<1>3. PhaseOK' /\ Attribution' /\ FillOK'
  BY <1>1 DEF DispatchInv, PhaseOK, Attribution, FillOK, MainSteps, Receiving
<1> QED BY <1>2, <1>3 DEF DispatchInv

\* All is dispatched.
LEMMA TerminateStep ==
    ASSUME TypeOK, DispatchInv, Terminate
    PROVE  DispatchInv'
<1>1. /\ mpc = "loop" /\ ~resend' /\ sendcount' = FinalResults
      /\ mpc' = IF sendcount = 0 THEN "stopwriter" ELSE "final"
      /\ UNCHANGED <<inflight, coretimes, numsent, extrareceived, keepwriting, source>>
  BY DEF Terminate, resultvars
<1>2. sendcount # 0 => sendcount' > 0
  <2>1. NumCores \in Nat \ {0} /\ sendcount \in Nat
    BY NumCoresAssumption DEF TypeOK
  <2> QED BY <1>1, <2>1 DEF FinalResults, RECEIVE_RING_LENGTH
<1>3. ASSUME NEW b \in Cores PROVE QueueOK(b)'
  <2>1. AtHand(b)' = AtHand(b)
    BY <1>1 DEF AtHand
  <2> QED BY <1>1, <2>1, QueueKept DEF DispatchInv
<1>4. PhaseOK' /\ Attribution' /\ FillOK'
  BY <1>1, <1>2 DEF DispatchInv, PhaseOK, Attribution, FillOK, MainSteps, Receiving
<1> QED BY <1>3, <1>4 DEF DispatchInv

\* No step takes a result for another's.
LEMMA DispatchStep ==
    ASSUME TypeOK, DispatchInv, [Next]_vars
    PROVE  DispatchInv'
<1> DEFINE Quiet == UNCHANGED <<resend, dispatchvars, source, result, corevis>>
<1>0. mpc \in MainSteps /\ PhaseOK
  BY DEF TypeOK, DispatchInv
<1>1. CASE Locate
  <2>1. mpc = "locate" /\ mpc' \in {"send", "more"} /\ Quiet /\ UNCHANGED keepwriting
    BY <1>1 DEF Locate, dispatchvars
  <2> QED BY <1>0, <2>1, OtherStep DEF PhaseOK, MainSteps, Receiving, dispatchvars
<1>2. CASE LockMore
  <2>1. mpc = "more" /\ mpc' \in {"send", "more"} /\ Quiet /\ UNCHANGED keepwriting
    BY <1>2 DEF LockMore, dispatchvars
  <2> QED BY <1>0, <2>1, OtherStep DEF PhaseOK, MainSteps, Receiving, dispatchvars
<1>3. CASE GiveUp \/ Drop \/ DropLock \/ Dropped
  <2>1. mpc \in {"more", "drop"} /\ mpc' \in {"drop", "send"} /\ Quiet /\ UNCHANGED keepwriting
    BY <1>3 DEF GiveUp, Drop, DropLock, Dropped, dispatchvars, resultvars
  <2> QED BY <1>0, <2>1, OtherStep DEF PhaseOK, MainSteps, Receiving, dispatchvars
<1>4. CASE IgnoreStale \/ AddData \/ LockAhead \/ ReleaseVis
  <2>1. /\ mpc \in {"add", "ahead", "release"} /\ Quiet /\ UNCHANGED keepwriting
        /\ mpc' \in {"ahead", "release"} \/ Return
    BY <1>4 DEF IgnoreStale, AddData, LockAhead, ReleaseVis, dispatchvars, resultvars
  <2>2. /\ mpc' \in {"ahead", "release", "loop", "stopwriter", "final"}
        /\ mpc' = "loop" => resend
        /\ mpc' \in {"stopwriter", "final"} => ~resend
        /\ mpc' = "final" => sendcount # 0
    BY <1>0, <2>1 DEF Return
  <2>3. sendcount # 0 => sendcount > 0
    BY DEF TypeOK
  <2> QED BY <1>0, <2>1, <2>2, <2>3, OtherStep DEF PhaseOK, MainSteps, Receiving, dispatchvars
<1>5. CASE StopWriter \/ UnlockAll \/ JoinWriter
  <2>1. /\ Quiet
        /\ \/ mpc = "stopwriter" /\ mpc' = "unlockall" /\ ~keepwriting'
           \/ mpc = "unlockall" /\ mpc' \in {"unlockall", "join"} /\ UNCHANGED keepwriting
           \/ mpc = "join" /\ mpc' = "done" /\ UNCHANGED keepwriting
    BY <1>5 DEF StopWriter, UnlockAll, JoinWriter, dispatchvars, resultvars
  <2> QED BY <1>0, <2>1, OtherStep DEF PhaseOK, MainSteps, Receiving, dispatchvars
<1>6. CASE Interrupt \/ Writer \/ Finished \/ UNCHANGED vars
  <2>1. Quiet /\ UNCHANGED <<mpc, keepwriting>>
    <3>1. CASE Interrupt
      BY <3>1 DEF Interrupt, dispatchvars, resultvars
    <3>2. CASE Writer
      BY <3>2 DEF Writer, CheckWriting, LockSegment, UnlockPrevSegment, WriteSegment,
         IncrementSegment, UnlockLast, FlushSegment, mainside, dispatchvars, resultvars
    <3>3. CASE Finished \/ UNCHANGED vars
      BY <3>3 DEF Finished, vars, dispatchvars, resultvars
    <3> QED BY <1>6, <3>1, <3>2, <3>3
  <2> QED BY <1>0, <2>1, OtherStep DEF PhaseOK, MainSteps, Receiving, dispatchvars
<1> QED
  BY <1>1, <1>2, <1>3, <1>4, <1>5, <1>6, FillUpStep, ReceiveStep, ResendStep, AcknowledgeStep,
     TerminateStep DEF Next, Main

\* Nothing is dispatched at first.
LEMMA DispatchInit == Init => DispatchInv
<1> SUFFICES ASSUME Init PROVE DispatchInv
  OBVIOUS
<1>1. NumCores \in Nat \ {0}
  BY NumCoresAssumption
<1>2. PhaseOK /\ Attribution
  BY DEF Init, PhaseOK, Attribution, MainSteps, Receiving
<1>3. FillOK
  <2>1. 0 * NumCores = 0 /\ 0 < 4 * NumCores
    BY <1>1
  <2>2. \A c \in Cores : ~(c < 0 - 0) /\ numsent[c] = 0
    BY <1>1 DEF Init, Cores
  <2>3. sendcount = 0 /\ mpc = "loop"
    BY DEF Init
  <2>4. /\ Filling /\ 0 \in 0 .. RECEIVE_RING_LENGTH - 1
        /\ 0 * NumCores <= sendcount /\ sendcount < 0 * NumCores + NumCores
        /\ \A c \in Cores : numsent[c] = IF c < sendcount - 0 * NumCores THEN 0 + 1 ELSE 0
    BY <1>1, <2>1, <2>2, <2>3 DEF Filling, RECEIVE_RING_LENGTH
  <2>5. \E r \in 0 .. RECEIVE_RING_LENGTH - 1 :
           /\ r * NumCores <= sendcount /\ sendcount < r * NumCores + NumCores
           /\ \A c \in Cores : numsent[c] = IF c < sendcount - r * NumCores THEN r + 1 ELSE r
    BY <2>4
  <2> QED BY <2>3, <2>4, <2>5 DEF FillOK
<1>4. ASSUME NEW c \in Cores PROVE QueueOK(c)
  <2>1. inflight[c] = <<>> /\ numsent[c] = 0 /\ extrareceived[c] = 0 /\ AtHand(c) = 0
    BY DEF Init, AtHand
  <2>2. Len(<<>>) = 0
    OBVIOUS
  <2> QED BY <2>1, <2>2 DEF QueueOK, RECEIVE_RING_LENGTH
<1> QED BY <1>2, <1>3, <1>4 DEF DispatchInv

-------------------------------------------------------------------------------
(* The locks.                                                                  *)

\* The window without its first Visibilities.
LEMMA WindowShrinks ==
    ASSUME NEW o \in Vis, NEW p \in Vis, NEW n \in Vis, Window(o, p) <= Window(o, n)
    PROVE  \A v \in Vis : Window(p, v) <= Window(p, n) <=>
                             Window(o, p) <= Window(o, v) /\ Window(o, v) <= Window(o, n)
<1> SUFFICES ASSUME NEW v \in Vis
             PROVE  Window(p, v) <= Window(p, n) <=>
                       Window(o, p) <= Window(o, v) /\ Window(o, v) <= Window(o, n)
  OBVIOUS
<1>1. /\ Window(o, p) \in 0 .. VisBufferLength - 1 /\ Window(o, n) \in 0 .. VisBufferLength - 1
      /\ Window(o, v) \in 0 .. VisBufferLength - 1 /\ VisBufferLength \in Nat
  BY WindowIs, VisBufferLengthAssumption
<1>2. Window(p, v) = IF Window(o, p) <= Window(o, v) THEN Window(o, v) - Window(o, p)
                     ELSE Window(o, v) - Window(o, p) + VisBufferLength
  BY WindowFacts
<1>3. Window(p, n) = Window(o, n) - Window(o, p)
  BY WindowFacts
<1> QED BY <1>1, <1>2, <1>3

\* The window with one Visibility more.
LEMMA WindowGrows ==
    ASSUME NEW o \in Vis, NEW n \in Vis, Succ(n) # o
    PROVE  \A v \in Vis : Window(o, v) <= Window(o, Succ(n)) <=>
                             Window(o, v) <= Window(o, n) \/ v = Succ(n)
<1> SUFFICES ASSUME NEW v \in Vis
             PROVE  Window(o, v) <= Window(o, Succ(n)) <=>
                       Window(o, v) <= Window(o, n) \/ v = Succ(n)
  OBVIOUS
<1>1. Succ(n) \in Vis
  BY SuccIs
<1>2. Window(o, n) \in Int /\ Window(o, v) \in Int
  BY WindowIs
<1>3. Window(o, Succ(n)) = Window(o, n) + 1
  BY WindowFacts
<1>4. Window(o, v) = Window(o, Succ(n)) => v = Succ(n)
  BY <1>1, WindowFacts
<1> QED BY <1>2, <1>3, <1>4

\* What of the types the locks need.
LEMMA LockTypes ==
    ASSUME TypeOK
    PROVE  /\ oldest \in Vis /\ newest \in Vis /\ writesegment \in Vis
           /\ islocked \in [Vis -> BOOLEAN] /\ owner \in [Vis -> {"free", "main", "writer"}]
           /\ visindex \in Vis \cup {-1} /\ count \in 0 .. VisBufferLength
           /\ wpc \in WriterSteps
           /\ keepwriting \in BOOLEAN /\ mpc \in MainSteps
BY DEF TypeOK

\* The oldest Visibility is released, and the next locked one is the oldest.
LEMMA ReleaseOldest ==
    ASSUME TypeOK, WriterOK, WindowOK, keepwriting, oldest # newest, mpc' # "unlockall",
           owner' = [owner EXCEPT ![oldest] = "free"],
           islocked' = [islocked EXCEPT ![oldest] = FALSE],
           oldest' = Advance(oldest, [islocked EXCEPT ![oldest] = FALSE]),
           UNCHANGED <<newest, keepwriting, wpc, writesegment>>
    PROVE  /\ WriterOK' /\ WindowOK' /\ oldest' \in Vis /\ oldest' # oldest
           /\ Window(oldest, oldest') \in 1 .. VisBufferLength - 1
<1> DEFINE locked == [islocked EXCEPT ![oldest] = FALSE]
           W(v) == Window(oldest, v)
<1>1. /\ oldest \in Vis /\ newest \in Vis /\ writesegment \in Vis
      /\ islocked \in [Vis -> BOOLEAN] /\ owner \in [Vis -> {"free", "main", "writer"}]
  BY LockTypes
<1>2. /\ islocked[oldest] /\ islocked[newest] /\ owner[oldest] = "main"
      /\ \A v \in Vis : islocked[v] => W(v) <= W(newest)
      /\ \A v \in Vis : islocked[v] <=> owner[v] = "main"
      /\ \A v \in Vis : W(v) <= W(newest) => owner[v] # "writer"
      /\ writesegment = oldest \/ ~(W(writesegment) <= W(newest))
  BY <1>1 DEF WindowOK, InWindow
<1>3. /\ locked \in [Vis -> BOOLEAN] /\ locked[newest] /\ ~locked[oldest]
      /\ \A v \in Vis : locked[v] <=> islocked[v] /\ v # oldest
  BY <1>1, <1>2
<1> HIDE DEF locked
<1>4. PICK p \in Vis : /\ p = Advance(oldest, locked) /\ locked[p]
                       /\ \A u \in Vis : locked[u] => W(p) <= W(u)
  BY <1>1, <1>3, AdvanceIs
<1>5. oldest' = p /\ islocked' = locked /\ p # oldest
  BY <1>3, <1>4 DEF locked
<1>6. /\ \A v \in Vis : W(v) \in 0 .. VisBufferLength - 1
      /\ VisBufferLength \in Nat /\ W(oldest) = 0
      /\ \A v \in Vis : W(v) = 0 => v = oldest
  <2>1. \A v \in Vis : W(v) \in 0 .. VisBufferLength - 1
    BY <1>1, WindowIs
  <2>2. W(oldest) = 0 /\ \A v \in Vis : W(v) = W(oldest) => v = oldest
    BY <1>1, WindowFacts
  <2> QED BY <2>1, <2>2, VisBufferLengthAssumption
<1>7. W(p) <= W(newest) /\ W(p) \in 1 .. VisBufferLength - 1
  BY <1>1, <1>3, <1>4, <1>5, <1>6
<1>8. \A v \in Vis : InWindow(v)' <=> W(p) <= W(v) /\ W(v) <= W(newest)
  <2>1. \A v \in Vis : Window(p, v) <= Window(p, newest) <=> W(p) <= W(v) /\ W(v) <= W(newest)
    BY <1>1, <1>7, WindowShrinks
  <2>2. \A v \in Vis : InWindow(v)' <=> Window(p, v) <= Window(p, newest)
    BY <1>5 DEF InWindow
  <2> QED BY <2>1, <2>2
<1>9. WriterOK'
  <2>1. \A v \in Vis : owner'[v] = "writer" <=> owner[v] = "writer"
    BY <1>1, <1>2
  <2> QED BY <2>1 DEF WriterOK
<1> HIDE DEF W
<1>10. WindowOK'
  <2>1. islocked'[oldest'] /\ islocked'[newest']
    BY <1>3, <1>4, <1>5
  <2>2. ASSUME NEW v \in Vis, islocked'[v] PROVE InWindow(v)'
    BY <1>2, <1>3, <1>4, <1>5, <1>8, <2>2
  <2>3. \A v \in Vis : islocked'[v] <=> owner'[v] = "main"
    BY <1>1, <1>2, <1>3, <1>5
  <2>4. \A v \in Vis : InWindow(v)' => owner'[v] # "writer"
    BY <1>1, <1>2, <1>8
  <2>5. ~InWindow(writesegment)'
    <3>1. ~(W(p) <= W(oldest))
      BY <1>6, <1>7
    <3>2. ~(W(p) <= W(writesegment) /\ W(writesegment) <= W(newest))
      BY <1>2, <3>1
    <3>3. PICK s \in Vis : s = writesegment
      BY <1>1
    <3>4. ~InWindow(s)'
      BY <1>8, <3>2, <3>3
    <3> QED BY <3>3, <3>4 DEF InWindow
  <2> QED BY <2>1, <2>2, <2>3, <2>4, <2>5 DEF WindowOK
<1> QED BY <1>4, <1>5, <1>7, <1>9, <1>10 DEF W

\* The next Visibility is locked when its mutex is free: the write thread is not there.
LEMMA LockNewestStep ==
    ASSUME TypeOK, WriterOK, WindowOK, keepwriting, mpc' # "unlockall", LockNewest,
           UNCHANGED <<oldest, keepwriting, wpc, writesegment>>
    PROVE  /\ WriterOK' /\ WindowOK' /\ newest' \in Vis /\ newest' # oldest' /\ newest' # newest
           /\ InWindow(newest)' /\ \A v \in Vis : InWindow(v) => InWindow(v)'
<1> DEFINE n == Succ(newest)
<1>1. /\ oldest \in Vis /\ newest \in Vis /\ writesegment \in Vis /\ n \in Vis
      /\ islocked \in [Vis -> BOOLEAN] /\ owner \in [Vis -> {"free", "main", "writer"}]
      /\ wpc \in WriterSteps
  BY LockTypes, SuccIs
<1>2. /\ owner[n] = "free" /\ newest' = n /\ owner' = [owner EXCEPT ![n] = "main"]
      /\ islocked' = [islocked EXCEPT ![n] = TRUE]
  BY DEF LockNewest
<1>3. /\ islocked[oldest] /\ islocked[newest]
      /\ \A v \in Vis : islocked[v] => InWindow(v)
      /\ \A v \in Vis : islocked[v] <=> owner[v] = "main"
      /\ \A v \in Vis : InWindow(v) => owner[v] # "writer"
      /\ writesegment = oldest \/ ~InWindow(writesegment)
  BY DEF WindowOK
<1>4. owner[oldest] = "main" /\ owner[newest] = "main" /\ n # oldest /\ n # newest
  BY <1>1, <1>2, <1>3
<1>5. \A v \in Vis : InWindow(v)' <=> InWindow(v) \/ v = n
  <2>1. \A v \in Vis : Window(oldest, v) <= Window(oldest, n) <=>
                          Window(oldest, v) <= Window(oldest, newest) \/ v = n
    BY <1>1, <1>4, WindowGrows
  <2> HIDE DEF n
  <2> QED BY <1>2, <2>1 DEF InWindow
<1>6. writesegment # n
  <2>1. Pred(n) = newest
    BY <1>1, SuccIs
  <2> QED BY <1>1, <1>2, <1>4, <2>1 DEF WriterOK, WriterSteps
<1> HIDE DEF n
<1>7. WriterOK'
  <2>1. \A v \in Vis : owner'[v] = "writer" <=> owner[v] = "writer"
    BY <1>1, <1>2
  <2> QED BY <2>1 DEF WriterOK
<1>8. WindowOK'
  <2>1. islocked'[oldest'] /\ islocked'[newest']
    BY <1>1, <1>2, <1>3
  <2>2. \A v \in Vis : islocked'[v] => InWindow(v)'
    BY <1>1, <1>2, <1>3, <1>5
  <2>3. \A v \in Vis : islocked'[v] <=> owner'[v] = "main"
    BY <1>1, <1>2, <1>3
  <2>4. \A v \in Vis : InWindow(v)' => owner'[v] # "writer"
    BY <1>1, <1>2, <1>3, <1>5
  <2>5. writesegment' = oldest' \/ ~InWindow(writesegment)'
    <3>1. PICK s \in Vis : s = writesegment
      BY <1>1
    <3>2. s = oldest \/ ~InWindow(s)'
      <4>1. ~InWindow(writesegment) => ~InWindow(s)
        BY <3>1 DEF InWindow
      <4> QED BY <1>3, <1>5, <1>6, <3>1, <4>1
    <3> QED BY <3>1, <3>2 DEF InWindow
  <2> QED BY <2>1, <2>2, <2>3, <2>4, <2>5 DEF WindowOK
<1>9. InWindow(newest)'
  <2>1. Window(oldest, n) \in Int
    BY <1>1, WindowIs
  <2> QED BY <1>2, <2>1 DEF InWindow
<1> QED BY <1>1, <1>2, <1>4, <1>5, <1>7, <1>8, <1>9

\* A Visibility in the window that is neither the oldest nor the newest is released.
LEMMA ReleaseInner ==
    ASSUME TypeOK, WriterOK, WindowOK, keepwriting, mpc' # "unlockall",
           visindex \in Vis, InWindow(visindex), visindex # oldest, visindex # newest,
           owner' = [owner EXCEPT ![visindex] = "free"],
           islocked' = [islocked EXCEPT ![visindex] = FALSE],
           UNCHANGED <<oldest, newest, keepwriting, wpc, writesegment>>
    PROVE  WriterOK' /\ WindowOK'
<1>1. /\ oldest \in Vis /\ newest \in Vis /\ writesegment \in Vis
      /\ islocked \in [Vis -> BOOLEAN] /\ owner \in [Vis -> {"free", "main", "writer"}]
  BY LockTypes
<1>2. \A v \in Vis : InWindow(v)' <=> InWindow(v)
  BY DEF InWindow
<1>3. owner[visindex] # "writer"
  BY DEF WindowOK, InWindow
<1>4. WriterOK'
  <2>1. \A v \in Vis : owner'[v] = "writer" <=> owner[v] = "writer"
    BY <1>1, <1>3
  <2> QED BY <2>1 DEF WriterOK
<1>5. WindowOK'
  <2>1. islocked'[oldest'] /\ islocked'[newest'] /\ \A v \in Vis : islocked'[v] => InWindow(v)'
    BY <1>1, <1>2 DEF WindowOK
  <2>2. \A v \in Vis : /\ islocked'[v] <=> owner'[v] = "main"
                       /\ InWindow(v)' => owner'[v] # "writer"
    BY <1>1, <1>2 DEF WindowOK
  <2>3. writesegment' = oldest' \/ ~InWindow(writesegment)'
    BY DEF WindowOK, InWindow
  <2> QED BY <2>1, <2>2, <2>3 DEF WindowOK
<1> QED BY <1>4, <1>5

\* A step that leaves the locks alone.
LEMMA LocksKept ==
    ASSUME WriterOK, WindowOK, mpc' # "unlockall",
           UNCHANGED <<oldest, newest, islocked, owner, keepwriting, wpc, writesegment>>
    PROVE  WriterOK' /\ WindowOK'
<1>1. \A v \in Vis : InWindow(v)' <=> InWindow(v)
  BY DEF InWindow
<1>2. InWindow(writesegment)' <=> InWindow(writesegment)
  BY DEF InWindow
<1> QED BY <1>1, <1>2 DEF WriterOK, WindowOK

\* The Visibility at a place of the window is in the window.
LEMMA PlaceInWindow ==
    ASSUME NEW o \in Vis, NEW n \in Vis, NEW i \in 0 .. Window(o, n)
    PROVE  /\ (o + i) % VisBufferLength \in Vis /\ i \in 0 .. VisBufferLength - 1
           /\ Window(o, (o + i) % VisBufferLength) = i
<1>1. Window(o, n) \in 0 .. VisBufferLength - 1 /\ VisBufferLength \in Nat
  BY WindowIs, VisBufferLengthAssumption
<1>2. i \in 0 .. VisBufferLength - 1
  BY <1>1
<1> QED BY <1>2, PlaceIs

\* A window with two Visibilities at least.
LEMMA CrowdedIs ==
    ASSUME TypeOK, Window(oldest, newest) >= VisBufferLength - 3
    PROVE  oldest # newest
<1>1. oldest \in Vis /\ newest \in Vis
  BY LockTypes
<1>2. Window(oldest, oldest) = 0
  BY <1>1, WindowFacts
<1> QED BY <1>2, VisBufferLengthAssumption

\* locateVisIndex looks for the place of a result.
LEMMA LocateLocks ==
    ASSUME TypeOK, DispatchInv, LockInv, Locate
    PROVE  LockInv' /\ oldest' \in Vis /\ visindex' \in Vis \cup {-1}
<1>1. /\ mpc = "locate" /\ mpc' \in {"send", "more"} /\ keepwriting /\ oldest' = OldestAfter
      /\ UNCHANGED <<newest, keepwriting, wpc, writesegment>> /\ WriterOK /\ WindowOK
  BY DEF Locate, DispatchInv, PhaseOK, LockInv, writevars
<1>2. oldest \in Vis /\ newest \in Vis
  BY LockTypes
<1>3. WriterOK' /\ WindowOK' /\ oldest' \in Vis
  <2>1. CASE Crowded
    <3>1. /\ owner' = [owner EXCEPT ![oldest] = "free"]
          /\ islocked' = [islocked EXCEPT ![oldest] = FALSE]
          /\ oldest' = Advance(oldest, [islocked EXCEPT ![oldest] = FALSE])
      BY <2>1 DEF Locate, OldestAfter
    <3>2. oldest # newest
      BY <2>1, CrowdedIs DEF Crowded
    <3> QED BY <1>1, <3>1, <3>2, ReleaseOldest
  <2>2. CASE ~Crowded
    <3>1. UNCHANGED <<owner, islocked, oldest>>
      BY <2>2 DEF Locate, OldestAfter
    <3> QED BY <1>1, <1>2, <3>1, LocksKept
  <2> QED BY <2>1, <2>2
<1>4. \/ visindex' = -1
      \/ \E i \in 0 .. Window(oldest', newest) : visindex' = (oldest' + i) % VisBufferLength
  <2>1. DOMAIN Candidates = 0 .. Window(OldestAfter, newest)
    BY DEF Candidates
  <2> QED BY <1>1, <2>1 DEF Locate
<1>5. visindex' = -1 \/ (visindex' \in Vis /\ InWindow(visindex)')
  <2> SUFFICES ASSUME visindex' # -1 PROVE visindex' \in Vis /\ InWindow(visindex)'
    OBVIOUS
  <2>1. PICK i \in 0 .. Window(oldest', newest) : visindex' = (oldest' + i) % VisBufferLength
    BY <1>4
  <2>2. visindex' \in Vis /\ Window(oldest', visindex') = i
    BY <1>2, <1>3, <2>1, PlaceInWindow
  <2>3. i <= Window(oldest', newest)
    <3>1. Window(oldest', newest) \in Int
      BY <1>2, <1>3, WindowIs
    <3> QED BY <2>1, <3>1
  <2> QED BY <1>1, <2>2, <2>3 DEF InWindow
<1>6. PlaceOK'
  BY <1>1, <1>5 DEF PlaceOK
<1> QED BY <1>3, <1>5, <1>6 DEF LockInv

\* Visibilities are locked, and given up, until the one of the result is locked.
LEMMA SearchLocks ==
    ASSUME TypeOK, DispatchInv, LockInv, LockMore \/ GiveUp \/ Drop \/ DropLock \/ Dropped
    PROVE  /\ LockInv' /\ oldest' \in Vis /\ newest' \in Vis /\ visindex' \in Vis \cup {-1}
           /\ count' \in 0 .. VisBufferLength
<1>1. mpc \in {"more", "drop"} /\ keepwriting /\ UNCHANGED <<keepwriting, wpc, writesegment>>
  BY DEF LockMore, GiveUp, Drop, DropLock, Dropped, DispatchInv, PhaseOK, writevars
<1>2. /\ WriterOK /\ WindowOK /\ PlaceOK /\ oldest \in Vis /\ newest \in Vis
      /\ visindex \in Vis \cup {-1} /\ count \in 0 .. VisBufferLength /\ VisBufferLength \in Nat
  BY LockTypes, VisBufferLengthAssumption DEF LockInv
<1>3. CASE LockMore
  <2>1. /\ LockNewest /\ mpc' \in {"send", "more"} /\ UNCHANGED <<oldest, count>>
        /\ (visindex' = newest' /\ mpc' = "send") \/ (UNCHANGED visindex /\ mpc' = "more")
    BY <1>1, <1>3 DEF LockMore, LockNewest
  <2>2. WriterOK' /\ WindowOK' /\ newest' \in Vis /\ newest' # oldest' /\ InWindow(newest)'
    BY <1>1, <1>2, <2>1, LockNewestStep
  <2>3. PlaceOK'
    BY <2>1, <2>2 DEF PlaceOK, InWindow
  <2> QED BY <1>2, <2>1, <2>2, <2>3 DEF LockInv
<1>4. CASE GiveUp
  <2>1. /\ mpc' = "drop" /\ UNCHANGED <<oldest, newest, islocked, owner, visindex, count>>
        /\ Window(oldest, newest) >= VisBufferLength - 3
    BY <1>4 DEF GiveUp, lockvars, resultvars
  <2>2. oldest # newest
    BY <2>1, CrowdedIs
  <2> QED BY <1>1, <1>2, <2>1, <2>2, LocksKept DEF LockInv, PlaceOK
<1>5. CASE Drop
  <2>1. /\ mpc = "drop" /\ mpc' = "drop" /\ count = 0 /\ UNCHANGED <<newest, visindex>>
        /\ owner' = [owner EXCEPT ![oldest] = "free"]
        /\ islocked' = [islocked EXCEPT ![oldest] = FALSE]
        /\ oldest' = Advance(oldest, [islocked EXCEPT ![oldest] = FALSE])
        /\ count' = Window(oldest, oldest')
    BY <1>5 DEF Drop
  <2>2. /\ WriterOK' /\ WindowOK' /\ oldest' \in Vis /\ count' \in 1 .. VisBufferLength - 1
    BY <1>1, <1>2, <2>1, ReleaseOldest DEF PlaceOK
  <2>3. PlaceOK' /\ count' \in 0 .. VisBufferLength
    BY <1>2, <2>1, <2>2 DEF PlaceOK
  <2> QED BY <1>2, <2>1, <2>2, <2>3 DEF LockInv
<1>6. CASE DropLock
  <2>1. /\ mpc = "drop" /\ mpc' = "drop" /\ count > 0 /\ LockNewest /\ UNCHANGED <<oldest, visindex>>
        /\ count' \in {0, count - 1}
    BY <1>6 DEF DropLock
  <2>2. WriterOK' /\ WindowOK' /\ newest' \in Vis /\ newest' # oldest'
    BY <1>1, <1>2, <2>1, LockNewestStep
  <2>3. PlaceOK' /\ count' \in 0 .. VisBufferLength
    BY <1>2, <2>1, <2>2 DEF PlaceOK
  <2> QED BY <1>2, <2>1, <2>2, <2>3 DEF LockInv
<1>7. CASE Dropped
  <2>1. /\ mpc' = "send" /\ visindex' = newest /\ UNCHANGED <<oldest, newest, islocked, owner, count>>
    BY <1>7 DEF Dropped, lockvars
  <2>2. Window(oldest, newest) \in Int
    BY <1>2, WindowIs
  <2>3. PlaceOK'
    BY <2>1, <2>2 DEF PlaceOK, InWindow
  <2> QED BY <1>1, <1>2, <2>1, <2>3, LocksKept DEF LockInv
<1> QED BY <1>3, <1>4, <1>5, <1>6, <1>7

\* The result is added, and the Visibility released when it is complete.
LEMMA AddLocks ==
    ASSUME TypeOK, DispatchInv, LockInv,
           Resend \/ Acknowledge \/ IgnoreStale \/ AddData \/ LockAhead \/ ReleaseVis
    PROVE  LockInv' /\ oldest' \in Vis /\ newest' \in Vis /\ UNCHANGED <<visindex, count>>
<1>1. /\ mpc \in {"send", "add", "ahead", "release"} /\ keepwriting
      /\ UNCHANGED <<visindex, count, keepwriting, wpc, writesegment>>
  BY DEF Resend, Acknowledge, IgnoreStale, AddData, LockAhead, ReleaseVis, DispatchInv, PhaseOK,
     writevars, resultvars
<1>2. /\ WriterOK /\ WindowOK /\ PlaceOK /\ oldest \in Vis /\ newest \in Vis
      /\ visindex \in Vis \cup {-1}
  BY LockTypes DEF LockInv
<1>3. CASE Resend \/ Acknowledge \/ IgnoreStale \/ AddData
  <2>1. /\ UNCHANGED <<oldest, newest, islocked, owner>> /\ mpc \in {"send", "add"}
        /\ mpc' \in {"add", "ahead", "release", "loop", "stopwriter", "final"}
        /\ mpc' = "ahead" => visindex >= 0 /\ visindex = newest
        /\ mpc' = "release" => visindex >= 0 /\ visindex # newest
    BY <1>3 DEF Resend, Acknowledge, IgnoreStale, AddData, Return, lockvars
  <2>2. visindex >= 0 => visindex # -1
    OBVIOUS
  <2>3. visindex = -1 \/ InWindow(visindex)
    BY <1>2, <2>1 DEF PlaceOK
  <2>4. PlaceOK'
    BY <1>1, <2>1, <2>2, <2>3 DEF PlaceOK, InWindow
  <2> QED BY <1>1, <1>2, <2>1, <2>4, LocksKept DEF LockInv
<1>4. CASE LockAhead
  <2>1. mpc = "ahead" /\ mpc' = "release" /\ LockNewest /\ UNCHANGED oldest
    BY <1>4 DEF LockAhead
  <2>2. /\ WriterOK' /\ WindowOK' /\ newest' \in Vis /\ newest' # newest
        /\ \A v \in Vis : InWindow(v) => InWindow(v)'
    BY <1>1, <1>2, <2>1, LockNewestStep
  <2>3. visindex = newest /\ visindex # -1 /\ InWindow(visindex)
    BY <1>2, <2>1 DEF PlaceOK
  <2>4. PICK v \in Vis : v = visindex
    BY <1>2, <2>3
  <2>5. InWindow(v)'
    BY <2>2, <2>3, <2>4 DEF InWindow
  <2>6. InWindow(visindex)'
    BY <1>1, <2>4, <2>5 DEF InWindow
  <2>7. PlaceOK'
    BY <1>1, <2>1, <2>2, <2>3, <2>6 DEF PlaceOK
  <2> QED BY <1>1, <1>2, <2>1, <2>2, <2>7 DEF LockInv
<1>5. CASE ReleaseVis
  <2>1. /\ mpc = "release" /\ mpc' \in {"loop", "stopwriter", "final"} /\ UNCHANGED newest
        /\ owner' = [owner EXCEPT ![visindex] = "free"]
        /\ islocked' = [islocked EXCEPT ![visindex] = FALSE]
        /\ oldest' = OldestOnceReleased
    BY <1>5 DEF ReleaseVis, Return
  <2>2. visindex \in Vis /\ visindex # newest /\ InWindow(visindex)
    BY <1>2, <2>1 DEF PlaceOK
  <2>3. WriterOK' /\ WindowOK' /\ oldest' \in Vis
    <3>1. CASE oldest = visindex
      BY <1>1, <1>2, <2>1, <2>2, <3>1, ReleaseOldest DEF OldestOnceReleased
    <3>2. CASE oldest # visindex
      BY <1>1, <1>2, <2>1, <2>2, <3>2, ReleaseInner DEF OldestOnceReleased
    <3> QED BY <3>1, <3>2
  <2>4. PlaceOK'
    BY <2>1 DEF PlaceOK
  <2> QED BY <1>1, <1>2, <2>1, <2>3, <2>4 DEF LockInv
<1> QED BY <1>3, <1>4, <1>5

\* Steps of the main thread that have nothing to do with the locks.
LEMMA OtherLocks ==
    ASSUME TypeOK, DispatchInv, LockInv,
           FillUp \/ Terminate \/ JoinWriter \/ Interrupt \/ Finished \/ UNCHANGED vars
             \/ \E c \in Cores : Receive(c)
    PROVE  LockInv' /\ UNCHANGED <<oldest, newest, visindex, count>>
<1> DEFINE Kept == UNCHANGED <<oldest, newest, islocked, owner, visindex, count, keepwriting, wpc,
                               writesegment>>
<1>1. CASE FillUp \/ Terminate \/ JoinWriter \/ \E c \in Cores : Receive(c)
  <2>1. Kept /\ mpc' \in {"loop", "locate", "stopwriter", "final", "done"}
    BY <1>1 DEF FillUp, Terminate, JoinWriter, Receive, lockvars, resultvars, writevars
  <2>2. PlaceOK'
    BY <2>1 DEF PlaceOK
  <2> QED BY <2>1, <2>2, LocksKept DEF LockInv
<1>2. CASE Interrupt \/ Finished \/ UNCHANGED vars
  <2>1. Kept /\ UNCHANGED mpc
    BY <1>2 DEF Interrupt, Finished, vars, lockvars, resultvars, writevars
  <2>2. PlaceOK'
    BY <2>1 DEF LockInv, PlaceOK, InWindow
  <2>3. \A v \in Vis : InWindow(v)' <=> InWindow(v)
    BY <2>1 DEF InWindow
  <2>4. InWindow(writesegment)' <=> InWindow(writesegment)
    BY <2>1 DEF InWindow
  <2>5. \A v \in Vis : Window(oldest, v)' = Window(oldest, v)
    BY <2>1
  <2>6. WriterOK'
    BY <2>1 DEF LockInv, WriterOK
  <2>7. WindowOK'
    <3>1. Window(oldest, newest)' = Window(oldest, newest)
      BY <2>1
    <3> QED BY <2>1, <2>3, <2>4, <2>5, <3>1 DEF LockInv, WindowOK
  <2> QED BY <2>1, <2>2, <2>6, <2>7 DEF LockInv
<1> QED BY <1>1, <1>2

\* The end of execute(): the window is unlocked, from the oldest on.
LEMMA UnlockLocks ==
    ASSUME TypeOK, DispatchInv, LockInv, StopWriter \/ UnlockAll
    PROVE  /\ LockInv' /\ UNCHANGED <<oldest, newest, visindex>>
           /\ count' \in 0 .. VisBufferLength
<1>1. /\ oldest \in Vis /\ newest \in Vis /\ writesegment \in Vis /\ count \in 0 .. VisBufferLength
      /\ islocked \in [Vis -> BOOLEAN] /\ owner \in [Vis -> {"free", "main", "writer"}]
      /\ VisBufferLength \in Nat
  BY LockTypes, VisBufferLengthAssumption
<1>2. \A v \in Vis : Window(oldest, v) \in 0 .. VisBufferLength - 1
  BY <1>1, WindowIs
<1>3. CASE StopWriter
  <2>1. /\ keepwriting /\ ~keepwriting' /\ count' = 0 /\ mpc' = "unlockall"
        /\ UNCHANGED <<oldest, newest, islocked, owner, visindex, wpc, writesegment>>
    BY <1>3 DEF StopWriter, DispatchInv, PhaseOK, lockvars, writevars
  <2>2. \A v \in Vis : InWindow(v)' <=> InWindow(v)
    BY <2>1 DEF InWindow
  <2>3. writesegment = oldest \/ ~InWindow(writesegment)'
    BY <2>1 DEF LockInv, WindowOK, InWindow
  <2>4. 0 <= Window(oldest, newest) /\ Window(oldest, newest)' = Window(oldest, newest)
    BY <1>1, <1>2, <2>1
  <2>5. WriterOK' /\ PlaceOK'
    BY <2>1 DEF LockInv, WriterOK, PlaceOK
  <2>6. WindowOK'
    <3>1. \A v \in Vis : InWindow(v)' => owner'[v] # "writer" /\ (islocked'[v] => owner'[v] = "main")
      BY <2>1, <2>2 DEF LockInv, WindowOK
    <3>2. islocked'[oldest'] /\ islocked'[newest'] /\ \A v \in Vis : islocked'[v] => InWindow(v)'
      BY <2>1, <2>2 DEF LockInv, WindowOK
    <3> QED BY <2>1, <2>3, <2>4, <3>1, <3>2 DEF WindowOK
  <2> QED BY <1>1, <2>1, <2>5, <2>6 DEF LockInv
<1>4. CASE UnlockAll
  <2> DEFINE p == (oldest + count) % VisBufferLength
  <2>1. /\ mpc = "unlockall" /\ ~keepwriting /\ owner' = [owner EXCEPT ![p] = "free"]
        /\ UNCHANGED <<oldest, newest, islocked, visindex, keepwriting, wpc, writesegment>>
        /\ \/ mpc' = "join" /\ count' = count
           \/ mpc' = "unlockall" /\ count # Window(oldest, newest) /\ count' = count + 1
    BY <1>4 DEF UnlockAll, DispatchInv, PhaseOK, writevars
  <2>2. /\ islocked[oldest] /\ islocked[newest] /\ count <= Window(oldest, newest)
        /\ \A v \in Vis : islocked[v] => InWindow(v)
        /\ \A v \in Vis : InWindow(v) /\ Window(oldest, v) >= count =>
              owner[v] # "writer" /\ (islocked[v] => owner[v] = "main")
    BY <2>1 DEF LockInv, WindowOK
  <2>3. p \in Vis /\ Window(oldest, p) = count
    <3>1. count \in 0 .. Window(oldest, newest)
      BY <1>1, <1>2, <2>2
    <3> QED BY <1>1, <3>1, PlaceInWindow
  <2> HIDE DEF p
  <2>4. owner[p] # "writer"
    BY <1>1, <2>2, <2>3 DEF InWindow
  <2>5. WriterOK'
    <3>1. \A v \in Vis : owner'[v] = "writer" <=> owner[v] = "writer"
      BY <1>1, <2>1, <2>3, <2>4
    <3> QED BY <2>1, <3>1 DEF LockInv, WriterOK
  <2>6. PlaceOK'
    BY <2>1 DEF PlaceOK
  <2>7. \A v \in Vis : InWindow(v)' <=> InWindow(v)
    BY <2>1 DEF InWindow
  <2>8. ASSUME mpc' = "unlockall"
        PROVE  /\ count' <= Window(oldest, newest)
               /\ \A v \in Vis : InWindow(v)' /\ Window(oldest, v) >= count' =>
                     owner'[v] # "writer" /\ (islocked'[v] => owner'[v] = "main")
    <3>1. count' = count + 1 /\ count # Window(oldest, newest)
      BY <2>1, <2>8
    <3>2. count' <= Window(oldest, newest)
      BY <1>1, <1>2, <2>2, <3>1
    <3>3. ASSUME NEW v \in Vis, InWindow(v)', Window(oldest, v) >= count'
          PROVE  owner'[v] # "writer" /\ (islocked'[v] => owner'[v] = "main")
      <4>1. v # p /\ Window(oldest, v) >= count
        BY <1>1, <1>2, <2>3, <3>1, <3>3
      <4>2. owner'[v] = owner[v]
        BY <1>1, <2>1, <2>3, <4>1
      <4> QED BY <2>1, <2>2, <2>7, <3>3, <4>1, <4>2
    <3> QED BY <3>2, <3>3
  <2>9. WindowOK'
    <3>1. InWindow(writesegment)' <=> InWindow(writesegment)
      BY <2>1 DEF InWindow
    <3>2. wpc \in {"lock", "unlockprev", "write", "increment"}
            => writesegment = oldest \/ ~InWindow(writesegment)
      BY DEF LockInv, WindowOK
    <3>3. /\ Window(oldest, newest)' = Window(oldest, newest)
          /\ \A v \in Vis : Window(oldest, v)' = Window(oldest, v)
      BY <2>1
    <3> QED BY <2>1, <2>2, <2>7, <2>8, <3>1, <3>2, <3>3 DEF WindowOK
  <2>10. count' \in 0 .. VisBufferLength
    BY <1>1, <1>2, <2>1, <2>2
  <2> QED BY <2>1, <2>5, <2>6, <2>9, <2>10 DEF LockInv
<1> QED BY <1>3, <1>4

\* The write thread takes the mutex of the next Visibility before it lets go of the last.
LEMMA WriterLocks ==
    ASSUME TypeOK, DispatchInv, LockInv, Writer
    PROVE  LockInv' /\ writesegment' \in Vis
<1> DEFINE s == writesegment
<1>1. /\ oldest \in Vis /\ newest \in Vis /\ s \in Vis /\ Pred(s) \in Vis /\ Pred(s) # s
      /\ islocked \in [Vis -> BOOLEAN] /\ owner \in [Vis -> {"free", "main", "writer"}]
      /\ wpc \in WriterSteps
      /\ VisBufferLength \in Nat
  BY LockTypes, SuccIs, VisBufferLengthAssumption
<1>2. UNCHANGED <<oldest, newest, islocked, keepwriting, mpc, visindex, count>>
  BY DEF Writer, CheckWriting, LockSegment, UnlockPrevSegment, WriteSegment,
     IncrementSegment, UnlockLast, FlushSegment, mainside, resultvars
<1>3. /\ \A v \in Vis : InWindow(v)' <=> InWindow(v)
      /\ \A v \in Vis : Window(oldest, v)' = Window(oldest, v)
      /\ Window(oldest, newest)' = Window(oldest, newest)
  BY <1>2 DEF InWindow
<1>4. WriterOK /\ WindowOK /\ PlaceOK
  BY DEF LockInv
<1>5. PlaceOK'
  BY <1>2, <1>4 DEF PlaceOK, InWindow
<1>6. islocked'[oldest'] /\ islocked'[newest'] /\ \A v \in Vis : islocked'[v] => InWindow(v)'
  BY <1>2, <1>3, <1>4 DEF WindowOK
<1>7. CASE CheckWriting \/ WriteSegment \/ FlushSegment
  <2>1. /\ UNCHANGED <<owner, writesegment>>
        /\ \/ wpc = "check" /\ wpc' = "lock" /\ keepwriting
           \/ wpc = "check" /\ wpc' = "flush" /\ ~keepwriting
           \/ wpc = "write" /\ wpc' = "increment"
           \/ wpc = "flushing" /\ wpc' \in {"flushing", "ended"}
    BY <1>7 DEF CheckWriting, WriteSegment, FlushSegment
  <2>2. WriterOK'
    BY <1>2, <1>4, <2>1 DEF WriterOK
  <2>3. InWindow(writesegment)' <=> InWindow(writesegment)
    BY <1>2, <2>1 DEF InWindow
  <2>4. WindowOK'
    BY <1>2, <1>3, <1>4, <1>6, <2>1, <2>3 DEF WindowOK
  <2> QED BY <1>1, <1>5, <2>1, <2>2, <2>4 DEF LockInv
<1>8. CASE LockSegment
  <2>1. /\ wpc = "lock" /\ wpc' = "unlockprev" /\ owner[s] = "free"
        /\ owner' = [owner EXCEPT ![s] = "writer"] /\ writesegment' = s
    BY <1>8 DEF LockSegment
  <2>2. s = oldest \/ ~InWindow(s)
    BY <1>4, <2>1 DEF WindowOK
  <2>3. keepwriting => ~InWindow(s)
    BY <1>1, <1>4, <2>1, <2>2 DEF WindowOK
  <2>4. mpc = "unlockall" => ~(InWindow(s) /\ Window(oldest, s) >= count)
    BY <1>1, <1>4, <2>1, <2>2 DEF WindowOK
  <2>5. \A v \in Vis : v # s => owner'[v] = owner[v]
    BY <1>1, <2>1
  <2>6. WriterOK'
    <3>1. \A v \in Vis : owner'[v] = "writer" <=> v = Pred(s) \/ v = s
      BY <1>1, <1>4, <2>1 DEF WriterOK
    <3> QED BY <2>1, <3>1 DEF WriterOK
  <2>7. WindowOK'
    <3>1. keepwriting => \A v \in Vis : /\ islocked'[v] <=> owner'[v] = "main"
                                        /\ InWindow(v)' => owner'[v] # "writer"
      BY <1>1, <1>2, <1>3, <1>4, <2>1, <2>3, <2>5 DEF WindowOK
    <3>2. mpc = "unlockall" =>
            \A v \in Vis : InWindow(v)' /\ Window(oldest, v)' >= count =>
                              owner'[v] # "writer" /\ (islocked'[v] => owner'[v] = "main")
      BY <1>1, <1>2, <1>3, <1>4, <2>1, <2>4, <2>5 DEF WindowOK
    <3>3. writesegment' = oldest' \/ ~InWindow(writesegment)'
      BY <1>2, <2>1, <2>2 DEF InWindow
    <3>4. mpc = "unlockall" => count <= Window(oldest, newest)'
      BY <1>3, <1>4 DEF WindowOK
    <3> QED BY <1>2, <1>6, <3>1, <3>2, <3>3, <3>4 DEF WindowOK
  <2> QED BY <1>1, <1>5, <2>1, <2>6, <2>7 DEF LockInv
<1>9. CASE UnlockPrevSegment \/ UnlockLast
  <2>1. /\ \/ wpc = "unlockprev" /\ wpc' = "write"
           \/ wpc = "flush" /\ wpc' = "flushing"
        /\ owner' = [owner EXCEPT ![Pred(s)] = "free"] /\ writesegment' = s
    BY <1>9 DEF UnlockPrevSegment, UnlockLast
  <2>2. owner[Pred(s)] = "writer"
    BY <1>1, <1>4, <2>1 DEF WriterOK
  <2>3. \A v \in Vis : /\ owner'[v] = "main" <=> owner[v] = "main"
                       /\ owner'[v] = "writer" <=> owner[v] = "writer" /\ v # Pred(s)
    BY <1>1, <2>1, <2>2
  <2>4. WriterOK'
    <3>1. \A v \in Vis : owner'[v] = "writer" <=> v = s /\ wpc = "unlockprev"
      BY <1>1, <1>4, <2>1, <2>3 DEF WriterOK
    <3> QED BY <1>2, <1>4, <2>1, <3>1 DEF WriterOK
  <2>5. WindowOK'
    <3>1. InWindow(writesegment)' <=> InWindow(writesegment)
      BY <1>2, <2>1 DEF InWindow
    <3>2. keepwriting' => \A v \in Vis : islocked'[v] <=> owner'[v] = "main"
      BY <1>2, <1>4, <2>3 DEF WindowOK
    <3>3. keepwriting' => \A v \in Vis : InWindow(v)' => owner'[v] # "writer"
      BY <1>2, <1>3, <1>4, <2>3 DEF WindowOK
    <3>4. mpc' = "unlockall" =>
            /\ count' <= Window(oldest, newest)'
            /\ \A v \in Vis : InWindow(v)' /\ Window(oldest, v)' >= count' =>
                  owner'[v] # "writer" /\ (islocked'[v] => owner'[v] = "main")
      BY <1>2, <1>3, <1>4, <2>3 DEF WindowOK
    <3>5. keepwriting' \/ wpc' \in {"lock", "unlockprev", "write", "increment"}
             => writesegment' = oldest' \/ ~InWindow(writesegment)'
      BY <1>2, <1>4, <2>1, <3>1 DEF WindowOK
    <3> QED BY <1>6, <3>2, <3>3, <3>4, <3>5 DEF WindowOK
  <2> QED BY <1>1, <1>5, <2>1, <2>4, <2>5 DEF LockInv
<1>10. CASE IncrementSegment
  <2>1. /\ wpc = "increment" /\ UNCHANGED owner
        /\ \/ wpc' = "increment" /\ writesegment' = s
           \/ wpc' = "check" /\ writesegment' = Succ(s)
    BY <1>10 DEF IncrementSegment, NextSegment
  <2>2. owner[s] = "writer" /\ (keepwriting => ~InWindow(s))
    BY <1>1, <1>4, <2>1 DEF WriterOK, WindowOK
  <2>3. Succ(s) \in Vis /\ Pred(Succ(s)) = s
    BY <1>1, SuccIs
  <2>4. WriterOK'
    <3>1. \A v \in Vis : owner'[v] = "writer" <=> v = s
      BY <1>1, <1>4, <2>1 DEF WriterOK
    <3> QED BY <1>2, <1>4, <2>1, <2>3, <3>1 DEF WriterOK
  <2>5. ASSUME keepwriting, Succ(s) # oldest
        PROVE  ~(Window(oldest, Succ(s)) <= Window(oldest, newest))
    <3>1. Window(oldest, Succ(s)) = Window(oldest, s) + 1
      BY <1>1, <2>5, WindowFacts
    <3>2. Window(oldest, s) \in Int /\ Window(oldest, newest) \in Int
      BY <1>1, WindowIs
    <3> QED BY <2>2, <2>5, <3>1, <3>2 DEF InWindow
  <2>6. keepwriting' \/ wpc' \in {"lock", "unlockprev", "write", "increment"}
           => writesegment' = oldest' \/ ~InWindow(writesegment)'
    <3>1. CASE writesegment' = s
      BY <1>2, <1>4, <2>1, <3>1 DEF WindowOK, InWindow
    <3>2. CASE writesegment' # s
      BY <1>2, <2>1, <2>5, <3>2 DEF InWindow
    <3> QED BY <3>1, <3>2
  <2>7. WindowOK'
    BY <1>2, <1>3, <1>4, <1>6, <2>1, <2>6 DEF WindowOK
  <2> QED BY <1>1, <1>5, <2>1, <2>3, <2>4, <2>7 DEF LockInv
<1> QED BY <1>7, <1>8, <1>9, <1>10 DEF Writer

\* No step of either thread breaks the discipline of the locks.
LEMMA LockStep ==
    ASSUME TypeOK, DispatchInv, LockInv, [Next]_vars
    PROVE  /\ LockInv' /\ oldest' \in Vis /\ newest' \in Vis /\ writesegment' \in Vis
           /\ visindex' \in Vis \cup {-1} /\ count' \in 0 .. VisBufferLength
<1>1. /\ oldest \in Vis /\ newest \in Vis /\ writesegment \in Vis
      /\ visindex \in Vis \cup {-1} /\ count \in 0 .. VisBufferLength
  BY LockTypes
<1>2. CASE Writer
  <2>1. UNCHANGED <<oldest, newest, visindex, count>>
    BY <1>2 DEF Writer, CheckWriting, LockSegment, UnlockPrevSegment, WriteSegment,
       IncrementSegment, UnlockLast, FlushSegment, mainside, resultvars
  <2> QED BY <1>1, <1>2, <2>1, WriterLocks
<1>3. CASE ~Writer
  <2>1. UNCHANGED writesegment
    BY <1>3 DEF Next, Main, FillUp, Terminate, Locate, LockMore, GiveUp, Drop, DropLock, Dropped,
       Resend, Acknowledge, IgnoreStale, AddData, LockAhead, ReleaseVis, StopWriter, UnlockAll,
       JoinWriter, Receive, Interrupt, Finished, vars, writevars
  <2>2. CASE Locate
    <3>1. UNCHANGED <<newest, count>>
      BY <2>2 DEF Locate
    <3> QED BY <1>1, <2>1, <2>2, <3>1, LocateLocks
  <2>3. CASE LockMore \/ GiveUp \/ Drop \/ DropLock \/ Dropped
    BY <1>1, <2>1, <2>3, SearchLocks
  <2>4. CASE Resend \/ Acknowledge \/ IgnoreStale \/ AddData \/ LockAhead \/ ReleaseVis
    BY <1>1, <2>1, <2>4, AddLocks
  <2>5. CASE FillUp \/ Terminate \/ JoinWriter \/ Interrupt \/ Finished \/ UNCHANGED vars
               \/ \E c \in Cores : Receive(c)
    BY <1>1, <2>1, <2>5, OtherLocks
  <2>6. CASE StopWriter \/ UnlockAll
    BY <1>1, <2>1, <2>6, UnlockLocks
  <2> QED BY <1>3, <2>2, <2>3, <2>4, <2>5, <2>6 DEF Next, Main
<1> QED BY <1>2, <1>3

\* The locks at first.
LEMMA LockInit == Init => LockInv
<1> SUFFICES ASSUME Init PROVE LockInv
  OBVIOUS
<1>1. VisBufferLength \in Nat /\ VisBufferLength >= 4 /\ 0 \in Vis /\ 1 \in Vis
  BY VisBufferLengthAssumption DEF Vis
<1>2. /\ oldest = 0 /\ newest = 1 /\ writesegment = 0 /\ wpc = "check" /\ mpc = "loop" /\ keepwriting
      /\ islocked = [v \in Vis |-> v \in {0, 1}]
      /\ owner = [v \in Vis |-> IF v \in {0, 1} THEN "main"
                                ELSE IF v = VisBufferLength - 1 THEN "writer" ELSE "free"]
  BY DEF Init
<1>3. Pred(0) = VisBufferLength - 1
  BY <1>1, SuccIs
<1>4. \A v \in Vis : Window(0, v) = v
  <2> SUFFICES ASSUME NEW v \in Vis PROVE Window(0, v) = v
    OBVIOUS
  <2>1. v \in Nat
    BY DEF Vis
  <2>2. Window(0, v) = IF v >= 0 THEN v - 0 ELSE v - 0 + VisBufferLength
    BY <1>1, WindowIs
  <2> QED BY <2>1, <2>2
<1>5. \A v \in Vis : InWindow(v) <=> v \in {0, 1}
  <2> SUFFICES ASSUME NEW v \in Vis PROVE v <= 1 <=> v \in {0, 1}
    BY <1>1, <1>2, <1>4 DEF InWindow
  <2> QED BY DEF Vis
<1>6. WriterOK
  BY <1>1, <1>2, <1>3 DEF WriterOK, Vis
<1>7. WindowOK
  BY <1>1, <1>2, <1>5 DEF WindowOK
<1>8. PlaceOK
  BY <1>2 DEF PlaceOK
<1> QED BY <1>6, <1>7, <1>8 DEF LockInv

-------------------------------------------------------------------------------
(* The types, which need both.                                                 *)

\* There is a longest integration time.
LEMMA LongestIs == Longest \in Configured /\ \A r \in Configured : IntTime[r] <= IntTime[Longest]
<1> DEFINE Best(n) == \E s \in Configured : \A r \in Configured : r <= n => IntTime[r] <= IntTime[s]
           P == {n \in Nat : Best(n)}
<1>1. /\ NumScans \in Nat /\ Configured \subseteq 1 .. NumScans /\ Configured # {}
      /\ \A s \in Configured : s \in Int /\ IntTime[s] \in Nat
  BY ScansType
<1>2. 0 \in P
  <2>1. \A r \in Configured : ~(r <= 0)
    BY <1>1
  <2> QED BY <1>1, <2>1
<1>3. ASSUME NEW n \in P PROVE n + 1 \in P
  <2>1. PICK s \in Configured : \A r \in Configured : r <= n => IntTime[r] <= IntTime[s]
    OBVIOUS
  <2>2. \A r \in Configured : r <= n + 1 => r <= n \/ r = n + 1
    BY <1>1
  <2>3. CASE n + 1 \in Configured /\ IntTime[n + 1] > IntTime[s]
    <3>1. \A r \in Configured : r <= n + 1 => IntTime[r] <= IntTime[n + 1]
      BY <1>1, <2>1, <2>2, <2>3
    <3> QED BY <2>3, <3>1
  <2>4. CASE ~(n + 1 \in Configured /\ IntTime[n + 1] > IntTime[s])
    <3>1. \A r \in Configured : r <= n + 1 => IntTime[r] <= IntTime[s]
      BY <1>1, <2>1, <2>2, <2>4
    <3> QED BY <3>1
  <2> QED BY <2>3, <2>4
<1>4. NumScans \in P
  <2> HIDE DEF P
  <2>1. \A n \in P : n + 1 \in P
    BY <1>3
  <2> QED BY <1>1, <1>2, <2>1, SetInduction
<1>5. \E s \in Configured : \A r \in Configured : IntTime[r] <= IntTime[s]
  BY <1>1, <1>4
<1> QED BY <1>5 DEF Longest

\* A time difference is a number.
LEMMA DifferenceType ==
    ASSUME TypeOK, ScansOK, corevis \in Subints, NEW v \in Vis
    PROVE  Difference(corevis, visbuffer[v]) \in Int
<1>1. /\ ScanOf(corevis) \in Int /\ OffsetOf(corevis) \in Int
      /\ visbuffer[v].scan \in Int /\ visbuffer[v].start \in Int
  <2>1. ScanOf(corevis) \in Configured /\ OffsetOf(corevis) \in Nat
    BY ScanOfIs
  <2>2. Configured \subseteq Int
    BY ScansType
  <2>3. visbuffer[v] \in VisType
    BY DEF TypeOK
  <2>4. visbuffer[v].scan \in Nat /\ visbuffer[v].start \in Nat
    BY <2>3 DEF VisType
  <2>5. ScanOf(corevis) \in Int
    BY <2>1, <2>2
  <2> QED BY <2>1, <2>4, <2>5
<1>2. Far \in Int
  BY ScanOfIs, LongestIs, ScansType DEF Far
<1> QED BY <1>1, <1>2 DEF Difference

\* Where the threads are, and the flags.
LEMMA StepsType ==
    ASSUME TypeOK, DispatchInv, [Next]_vars
    PROVE  /\ mpc' \in MainSteps /\ wpc' \in WriterSteps
           /\ resend' \in BOOLEAN /\ terminatenow' \in BOOLEAN /\ keepwriting' \in BOOLEAN
           /\ stale' \subseteq Subints /\ updates' \in Vis
<1>1. /\ mpc \in MainSteps /\ wpc \in WriterSteps
      /\ resend \in BOOLEAN /\ terminatenow \in BOOLEAN /\ keepwriting \in BOOLEAN
      /\ stale \subseteq Subints /\ updates \in Vis
  BY DEF TypeOK
<1>2. VisBufferLength \in Nat /\ 0 \in Vis
      /\ \A u \in Vis : u # VisBufferLength - 1 => u + 1 \in Vis
  BY VisBufferLengthAssumption DEF Vis
<1>3. CASE Writer
  <2>1. UNCHANGED <<mpc, resend, terminatenow, keepwriting, stale>>
    BY <1>3 DEF Writer, CheckWriting, LockSegment, UnlockPrevSegment, WriteSegment,
       IncrementSegment, UnlockLast, FlushSegment, mainside
  <2>2. wpc' \in WriterSteps /\ updates' \in Vis
    BY <1>1, <1>2, <1>3 DEF Writer, CheckWriting, LockSegment, UnlockPrevSegment, WriteSegment,
       IncrementSegment, UnlockLast, FlushSegment, WriterSteps
  <2> QED BY <1>1, <2>1, <2>2
<1>4. CASE ~Writer
  <2>1. UNCHANGED <<wpc, updates>>
    BY <1>4 DEF Next, Main, FillUp, Terminate, Locate, LockMore, GiveUp, Drop, DropLock, Dropped,
       Resend, Acknowledge, IgnoreStale, AddData, LockAhead, ReleaseVis, StopWriter, UnlockAll,
       JoinWriter, Receive, Interrupt, Finished, vars, writevars
  <2>2. /\ resend' \in {resend, FALSE} /\ terminatenow' \in {terminatenow, TRUE}
        /\ keepwriting' \in {keepwriting, FALSE}
    BY <1>4 DEF Next, Main, FillUp, Terminate, Locate, LockMore, GiveUp, Drop, DropLock, Dropped,
       Resend, Acknowledge, IgnoreStale, AddData, LockAhead, ReleaseVis, StopWriter, UnlockAll,
       JoinWriter, Receive, Interrupt, Finished, vars
  <2>3. mpc' \in MainSteps
    BY <1>1, <1>4 DEF Next, Main, FillUp, Terminate, Locate, LockMore, GiveUp, Drop, DropLock, Dropped,
       Resend, Acknowledge, IgnoreStale, AddData, LockAhead, ReleaseVis, StopWriter, UnlockAll,
       JoinWriter, Receive, Interrupt, Finished, vars, Return, MainSteps, Receiving
  <2>4. stale' \subseteq Subints
    <3>1. CASE IgnoreStale
      <4>1. result \in Subints /\ stale' = stale \cup {result}
        BY <3>1 DEF IgnoreStale, DispatchInv, PhaseOK, Receiving
      <4> QED BY <1>1, <4>1
    <3>2. CASE ~IgnoreStale
      <4>1. UNCHANGED stale
        BY <1>4, <3>2 DEF Next, Main, FillUp, Terminate, Locate, LockMore, GiveUp, Drop, DropLock,
           Dropped, Resend, Acknowledge, AddData, LockAhead, ReleaseVis, StopWriter,
           UnlockAll, JoinWriter, Receive, Interrupt, Finished, vars
      <4> QED BY <1>1, <4>1
    <3> QED BY <3>1, <3>2
  <2> QED BY <1>1, <2>1, <2>2, <2>3, <2>4
<1> QED BY <1>3, <1>4

\* What has been dispatched.
LEMMA QueuesType ==
    ASSUME TypeOK, DispatchInv, [Next]_vars
    PROVE  /\ next' \in 0 .. NumSubints /\ sendcount' \in 0 .. NumSubints
           /\ inflight' \in [Cores -> Seq(Subints)]
           /\ coretimes' \in [Cores -> [0 .. RECEIVE_RING_LENGTH - 1 -> Nat]]
           /\ numsent' \in [Cores -> Nat] /\ extrareceived' \in [Cores -> Nat]
           /\ source' \in Cores /\ result' \in Nat /\ corevis' \in Nat
<1> DEFINE Goal == /\ next' \in 0 .. NumSubints /\ sendcount' \in 0 .. NumSubints
                   /\ inflight' \in [Cores -> Seq(Subints)]
                   /\ coretimes' \in [Cores -> [0 .. 3 -> Nat]]
                   /\ numsent' \in [Cores -> Nat] /\ extrareceived' \in [Cores -> Nat]
                   /\ source' \in Cores /\ result' \in Nat /\ corevis' \in Nat
<1> SUFFICES Goal
  <2>1. RECEIVE_RING_LENGTH - 1 = 3
    BY DEF RECEIVE_RING_LENGTH
  <2> QED BY <2>1
<1>0. NumSubints \in Nat /\ NumCores \in Nat \ {0}
  BY ScanOfIs, NumCoresAssumption
<1>1. /\ next \in 0 .. NumSubints /\ sendcount \in 0 .. NumSubints
      /\ inflight \in [Cores -> Seq(Subints)]
      /\ coretimes \in [Cores -> [0 .. 3 -> Nat]]
      /\ numsent \in [Cores -> Nat] /\ extrareceived \in [Cores -> Nat]
      /\ source \in Cores /\ result \in Nat /\ corevis \in Nat
  BY DEF TypeOK, RECEIVE_RING_LENGTH
<1>2. ASSUME NEW c \in Cores, SendData(c), next < NumSubints
      PROVE  /\ next' \in 0 .. NumSubints /\ numsent' \in [Cores -> Nat]
             /\ inflight' \in [Cores -> Seq(Subints)]
             /\ coretimes' \in [Cores -> [0 .. 3 -> Nat]]
  <2>1. next \in Subints /\ next \in Nat
    BY <1>0, <1>1, <1>2 DEF Subints
  <2>2. Append(inflight[c], next) \in Seq(Subints)
    <3>1. inflight[c] \in Seq(Subints)
      BY <1>1
    <3> HIDE DEF Subints
    <3> QED BY <2>1, <3>1
  <2>3. inflight' \in [Cores -> Seq(Subints)]
    <3>1. inflight' = [inflight EXCEPT ![c] = Append(inflight[c], next)]
      BY <1>1, <1>2 DEF SendData
    <3> QED BY <1>1, <2>2, <3>1
  <2>4. coretimes' \in [Cores -> [0 .. 3 -> Nat]]
    <3>1. [coretimes[c] EXCEPT ![numsent[c] % 4] = next] \in [0 .. 3 -> Nat]
      BY <1>1, <2>1
    <3>2. coretimes' = [coretimes EXCEPT ![c] = [coretimes[c] EXCEPT ![numsent[c] % 4] = next]]
      BY <1>1, <1>2 DEF SendData, RECEIVE_RING_LENGTH
    <3> QED BY <1>1, <3>1, <3>2
  <2>5. next' \in 0 .. NumSubints
    <3>1. next' = next + 1 /\ next < NumSubints
      BY <1>2 DEF SendData
    <3> QED BY <1>0, <1>1, <3>1
  <2>6. numsent' \in [Cores -> Nat]
    <3>1. numsent' = [numsent EXCEPT ![c] = @ + 1]
      BY <1>2 DEF SendData
    <3>2. numsent \in [Cores -> Nat]
      BY <1>1
    <3>3. numsent[c] + 1 \in Nat
      BY <3>2
    <3> QED BY <3>1, <3>2, <3>3
  <2> QED BY <2>3, <2>4, <2>5, <2>6
<1>3. CASE FillUp
  <2>1. PICK c : c = sendcount % NumCores
    OBVIOUS
  <2>2. c \in Cores
    <3>1. sendcount \in Nat
      BY <1>1
    <3> QED BY <1>0, <2>1, <3>1 DEF Cores
  <2>3. /\ SendData(c) /\ next < NumSubints /\ sendcount' = sendcount + 1 /\ sendcount = next
        /\ UNCHANGED <<extrareceived, source, result, corevis>>
    BY <1>3, <2>1 DEF FillUp, More, DispatchInv, PhaseOK, resultvars
  <2>4. /\ next' \in 0 .. NumSubints /\ numsent' \in [Cores -> Nat]
        /\ inflight' \in [Cores -> Seq(Subints)] /\ coretimes' \in [Cores -> [0 .. 3 -> Nat]]
    BY <1>2, <2>2, <2>3
  <2>5. sendcount' \in 0 .. NumSubints
    BY <1>0, <1>1, <2>3
  <2> QED BY <1>1, <2>3, <2>4, <2>5
<1>4. CASE Resend
  <2>1. PICK c \in Cores : c = source
    BY <1>1
  <2>2. /\ SendData(c) /\ next < NumSubints /\ sendcount' = sendcount + 1 /\ sendcount = next
        /\ UNCHANGED <<extrareceived, source, result, corevis>>
    BY <1>4, <2>1 DEF Resend, DispatchInv, PhaseOK, resultvars
  <2>3. /\ next' \in 0 .. NumSubints /\ numsent' \in [Cores -> Nat]
        /\ inflight' \in [Cores -> Seq(Subints)] /\ coretimes' \in [Cores -> [0 .. 3 -> Nat]]
    BY <1>2, <2>2
  <2>4. sendcount' \in 0 .. NumSubints
    BY <1>0, <1>1, <2>2
  <2> QED BY <1>1, <2>2, <2>3, <2>4
<1>5. CASE \E c \in Cores : Receive(c)
  <2>1. PICK c \in Cores : Receive(c)
    BY <1>5
  <2>2. QueueOK(c)
    BY DEF DispatchInv
  <2>3. corevis' = result' /\ result' \in Subints
    BY <2>1, <2>2, ReceiveQueue
  <2>4. result' \in Nat
    BY <1>0, <2>3 DEF Subints
  <2>5. /\ inflight' = [inflight EXCEPT ![c] = Tail(@)] /\ inflight[c] # <<>> /\ source' = c
        /\ UNCHANGED <<next, sendcount, coretimes, numsent, extrareceived>>
    BY <2>1 DEF Receive
  <2>6. Tail(inflight[c]) \in Seq(Subints)
    BY <1>1, <2>5
  <2>7. inflight' \in [Cores -> Seq(Subints)]
    BY <1>1, <2>5, <2>6
  <2> QED BY <1>1, <2>3, <2>4, <2>5, <2>7
<1>6. CASE Acknowledge
  <2>1. /\ extrareceived' = [extrareceived EXCEPT ![source] = @ + 1]
        /\ sendcount' = sendcount - 1 /\ sendcount > 0
        /\ UNCHANGED <<next, inflight, coretimes, numsent, source, result, corevis>>
    BY <1>6 DEF Acknowledge, resultvars, DispatchInv, PhaseOK
  <2> QED BY <1>0, <1>1, <2>1
<1>7. CASE Terminate
  <2>1. /\ sendcount' = FinalResults
        /\ UNCHANGED <<next, inflight, coretimes, numsent, extrareceived, source, result, corevis>>
    BY <1>7 DEF Terminate, resultvars
  <2>2. FinalResults \in 0 .. NumSubints
    BY <1>0, <1>1 DEF FinalResults, Filling, RECEIVE_RING_LENGTH
  <2> QED BY <1>1, <2>1, <2>2
<1>8. CASE ~(FillUp \/ Resend \/ Acknowledge \/ Terminate \/ \E c \in Cores : Receive(c))
  <2>1. UNCHANGED <<next, sendcount, inflight, coretimes, numsent, extrareceived, source, result,
                    corevis>>
    BY <1>8 DEF Next, Main, Writer, Locate, LockMore, GiveUp, Drop, DropLock, Dropped,
       IgnoreStale, AddData, LockAhead, ReleaseVis, StopWriter, UnlockAll, JoinWriter, Interrupt,
       Finished, vars, dispatchvars, resultvars, CheckWriting, LockSegment, UnlockPrevSegment,
       WriteSegment, IncrementSegment, UnlockLast, FlushSegment, mainside
  <2> QED BY <1>1, <2>1
<1> QED BY <1>3, <1>4, <1>5, <1>6, <1>7, <1>8

\* The mutexes, and what the main thread believes of them.
LEMMA OwnersType ==
    ASSUME TypeOK, [Next]_vars
    PROVE  /\ islocked' \in [Vis -> BOOLEAN]
           /\ owner' \in [Vis -> {"free", "main", "writer"}]
<1>1. /\ islocked \in [Vis -> BOOLEAN] /\ owner \in [Vis -> {"free", "main", "writer"}]
  BY DEF TypeOK
<1>2. \/ UNCHANGED islocked
      \/ \E v : islocked' = [islocked EXCEPT ![v] = FALSE]
      \/ \E v : islocked' = [islocked EXCEPT ![v] = TRUE]
  BY DEF Next, Main, Writer, FillUp, Terminate, Locate, LockMore, GiveUp, Drop, DropLock, Dropped,
     Resend, Acknowledge, IgnoreStale, AddData, LockAhead, ReleaseVis, StopWriter, UnlockAll,
     JoinWriter, Receive, Interrupt, Finished, vars, lockvars, LockNewest, CheckWriting, LockSegment,
     UnlockPrevSegment, WriteSegment, IncrementSegment, UnlockLast, FlushSegment, mainside
<1>3. \/ UNCHANGED owner
      \/ \E v, o : o \in {"free", "main", "writer"} /\ owner' = [owner EXCEPT ![v] = o]
  <2>1. CASE Writer
    BY <2>1 DEF Writer, CheckWriting, LockSegment, UnlockPrevSegment, WriteSegment,
       IncrementSegment, UnlockLast, FlushSegment
  <2>2. CASE ~Writer
    BY <2>2 DEF Next, Main, FillUp, Terminate, Locate, LockMore, GiveUp, Drop, DropLock,
       Dropped, Resend, Acknowledge, IgnoreStale, AddData, LockAhead, ReleaseVis, StopWriter,
       UnlockAll, JoinWriter, Receive, Interrupt, Finished, vars, lockvars, LockNewest
  <2> QED BY <2>1, <2>2
<1> QED BY <1>1, <1>2, <1>3

\* The Visibilities, and what is on disk.
LEMMA VisibilitiesType ==
    ASSUME TypeOK, ScansOK, DispatchInv, [Next]_vars
    PROVE  visbuffer' \in [Vis -> VisType] /\ ScansOK' /\ written' \in Seq(VisType)
<1>1. /\ visbuffer \in [Vis -> VisType] /\ written \in Seq(VisType) /\ writesegment \in Vis
      /\ visindex \in Vis \cup {-1} /\ updates \in Vis /\ VisBufferLength \in Nat \ {0}
      /\ \A v \in Vis : visbuffer[v] \in GoodVis
  <2>1. \A v \in Vis : visbuffer[v] \in VisType /\ ScanOK(visbuffer[v])
    BY DEF TypeOK, ScansOK
  <2>2. \A v \in Vis : visbuffer[v] \in GoodVis
    BY <2>1 DEF GoodVis
  <2> QED BY <2>2, VisBufferLengthAssumption DEF TypeOK
<1>2. ASSUME NEW v \in Vis, NEW w \in GoodVis, visbuffer' = [visbuffer EXCEPT ![v] = w]
      PROVE  visbuffer' \in [Vis -> VisType] /\ ScansOK'
  <2>1. w \in VisType /\ ScanOK(w)
    BY DEF GoodVis
  <2>2. visbuffer' \in [Vis -> VisType]
    BY <1>1, <1>2, <2>1
  <2>3. \A u \in Vis : visbuffer'[u] = IF u = v THEN w ELSE visbuffer[u]
    BY <1>1, <1>2
  <2>4. ASSUME NEW u \in Vis PROVE ScanOK(visbuffer'[u])
    <3>1. CASE u = v
      BY <2>1, <2>3, <3>1
    <3>2. CASE u # v
      BY <2>3, <3>2 DEF ScansOK
    <3> QED BY <3>1, <3>2
  <2> QED BY <2>2, <2>4 DEF ScansOK
<1>3. CASE AddData
  <2>1. visindex \in Vis
    BY <1>1, <1>3 DEF AddData
  <2>2. PICK v \in Vis : v = visindex
    BY <2>1
  <2> DEFINE w == [visbuffer[v] EXCEPT !.got = @ \cup {result}]
  <2>3. w \in GoodVis
    <3>1. visbuffer[v] \in GoodVis /\ result \in Subints
      BY <1>1, <1>3 DEF AddData, DispatchInv, PhaseOK, Receiving
    <3> QED BY <3>1 DEF GoodVis, ScanOK, VisType
  <2>4. visbuffer' = [visbuffer EXCEPT ![v] = w] /\ UNCHANGED written
    BY <1>3, <2>2 DEF AddData, writevars
  <2> HIDE DEF w
  <2> QED BY <1>1, <1>2, <2>3, <2>4
<1>4. CASE IncrementSegment
  <2>1. UNCHANGED written
    BY <1>4 DEF IncrementSegment
  <2>2. CASE UNCHANGED visbuffer
    BY <1>1, <2>1, <2>2 DEF ScansOK
  <2>3. CASE ~UNCHANGED visbuffer
    <3>1. PICK v \in Vis : v = writesegment
      BY <1>1
    <3>2. visbuffer' = [visbuffer EXCEPT ![v] = Zeroed(UpdateTime(visbuffer[v]))]
      BY <1>4, <2>3, <3>1 DEF IncrementSegment
    <3>3. Zeroed(UpdateTime(visbuffer[v])) \in GoodVis
      BY <1>1, UpdateTimeType
    <3> QED BY <1>1, <1>2, <2>1, <3>2, <3>3
  <2> QED BY <2>2, <2>3
<1>5. ASSUME NEW v \in Vis, Writedata(visbuffer[v]), UNCHANGED visbuffer
      PROVE  visbuffer' \in [Vis -> VisType] /\ ScansOK' /\ written' \in Seq(VisType)
  <2>1. visbuffer[v] \in VisType
    BY <1>1
  <2>2. Append(written, visbuffer[v]) \in Seq(VisType)
    BY <1>1, <2>1
  <2>3. written' \in Seq(VisType)
    BY <1>1, <1>5, <2>2 DEF Writedata
  <2> QED BY <1>1, <1>5, <2>3 DEF ScansOK
<1>6. CASE WriteSegment
  <2>1. PICK v \in Vis : v = writesegment
    BY <1>1
  <2> QED BY <1>5, <1>6, <2>1 DEF WriteSegment
<1>7. CASE FlushSegment
  <2>1. ToFlush \in Vis
    <3>1. updates \in 0 .. VisBufferLength - 1
      BY <1>1 DEF Vis
    <3> QED BY <1>1, <3>1, PlaceIs DEF ToFlush
  <2>2. PICK v \in Vis : v = ToFlush
    BY <2>1
  <2> QED BY <1>5, <1>7, <2>2 DEF FlushSegment
<1>8. CASE ~(AddData \/ IncrementSegment \/ WriteSegment \/ FlushSegment)
  <2>1. UNCHANGED <<visbuffer, written>>
    BY <1>8 DEF Next, Main, Writer, FillUp, Terminate, Locate, LockMore, GiveUp, Drop, DropLock,
       Dropped, Resend, Acknowledge, IgnoreStale, LockAhead, ReleaseVis, StopWriter, UnlockAll,
       JoinWriter, Receive, Interrupt, Finished, vars, writevars, CheckWriting, LockSegment,
       UnlockPrevSegment, UnlockLast
  <2> QED BY <1>1, <2>1 DEF ScansOK
<1> QED BY <1>3, <1>4, <1>6, <1>7, <1>8

\* The last time difference.
LEMMA DifferenceStep ==
    ASSUME ManagerInv, [Next]_vars
    PROVE  difference' \in Int
<1>0. /\ TypeOK /\ ScansOK /\ DispatchInv /\ LockInv /\ oldest \in Vis /\ newest \in Vis
      /\ difference \in Int
  BY DEF ManagerInv, TypeOK
<1>1. mpc \in Receiving => corevis \in Subints
  BY <1>0 DEF DispatchInv, PhaseOK, Attribution
<1>2. CASE Locate
  <2>1. mpc \in Receiving /\ oldest' = OldestAfter
    BY <1>2 DEF Locate, Receiving
  <2>2. OldestAfter \in Vis
    BY <1>0, <1>2, <2>1, LocateLocks
  <2>3. ASSUME NEW i \in 0 .. Window(OldestAfter, newest)
        PROVE  Candidates[i] \in Int
    <3> DEFINE v == (OldestAfter + i) % VisBufferLength
    <3>1. v \in Vis
      BY <1>0, <2>2, PlaceInWindow
    <3>2. Candidates[i] = Difference(corevis, visbuffer[v])
      BY DEF Candidates
    <3> HIDE DEF v
    <3> QED BY <1>0, <1>1, <2>1, <3>1, <3>2, DifferenceType
  <2>4. Window(OldestAfter, newest) \in 0 .. Window(OldestAfter, newest)
    BY <1>0, <2>2, WindowIs
  <2>5. \E i \in 0 .. Window(OldestAfter, newest) : difference' = Candidates[i]
    <3>1. DOMAIN Candidates = 0 .. Window(OldestAfter, newest)
      BY DEF Candidates
    <3> QED BY <1>2, <2>4, <3>1 DEF Locate
  <2> QED BY <2>3, <2>5
<1>3. CASE LockMore \/ DropLock
  <2>1. mpc \in Receiving /\ difference' = Difference(corevis, visbuffer[Succ(newest)])
    BY <1>3 DEF LockMore, DropLock, Receiving
  <2>2. Succ(newest) \in Vis
    BY <1>0, SuccIs
  <2> QED BY <1>0, <1>1, <2>1, <2>2, DifferenceType
<1>4. CASE ~(Locate \/ LockMore \/ DropLock)
  <2>1. UNCHANGED difference
    BY <1>4 DEF Next, Main, Writer, FillUp, Terminate, GiveUp, Drop, Dropped,
       Resend, Acknowledge, IgnoreStale, AddData, LockAhead, ReleaseVis, StopWriter, UnlockAll,
       JoinWriter, Receive, Interrupt, Finished, vars, resultvars, CheckWriting, LockSegment,
       UnlockPrevSegment, WriteSegment, IncrementSegment, UnlockLast, FlushSegment, mainside
  <2> QED BY <1>0, <2>1
<1> QED BY <1>2, <1>3, <1>4

-------------------------------------------------------------------------------
(* The theorems.                                                               *)

\* The constructor establishes the invariant ...
LEMMA ManagerInit == Init => ManagerInv
<1> SUFFICES ASSUME Init PROVE ManagerInv
  OBVIOUS
<1>1. /\ VisBufferLength \in Nat /\ VisBufferLength >= 4 /\ 0 \in Vis /\ 1 \in Vis
      /\ NumCores \in Nat \ {0} /\ 0 \in Cores /\ NumSubints \in Nat
  BY VisBufferLengthAssumption, NumCoresAssumption, ScanOfIs DEF Vis, Cores
<1>2. \A v \in Vis : visbuffer[v] \in GoodVis
  <2>1. \A v \in Vis : v \in Nat /\ visbuffer[v] = NewVis[v]
    BY <1>1 DEF Init, Vis
  <2> QED BY <2>1, NewVisType
<1>3. visbuffer \in [Vis -> VisType] /\ ScansOK
  <2>1. \A v \in Vis : visbuffer[v] \in VisType /\ ScanOK(visbuffer[v])
    BY <1>2 DEF GoodVis
  <2>2. visbuffer = [v \in Vis |-> NewVis[v]]
    BY DEF Init
  <2>3. visbuffer \in [Vis -> VisType]
    BY <2>1, <2>2
  <2> QED BY <2>1, <2>3 DEF ScansOK
<1>4. inflight \in [Cores -> Seq(Subints)] /\ written \in Seq(VisType)
  BY DEF Init
<1>5. /\ coretimes \in [Cores -> [0 .. RECEIVE_RING_LENGTH - 1 -> Nat]]
      /\ numsent \in [Cores -> Nat] /\ extrareceived \in [Cores -> Nat]
  BY DEF Init
<1>6. islocked \in [Vis -> BOOLEAN] /\ owner \in [Vis -> {"free", "main", "writer"}]
  BY DEF Init
<1>7. TypeOK
  <2>1. /\ mpc \in MainSteps /\ wpc \in WriterSteps
        /\ resend \in BOOLEAN /\ terminatenow \in BOOLEAN /\ keepwriting \in BOOLEAN
        /\ stale \subseteq Subints /\ updates \in Vis
    BY <1>1 DEF Init, MainSteps, WriterSteps
  <2>2. /\ next \in 0 .. NumSubints /\ sendcount \in 0 .. NumSubints
        /\ source \in Cores /\ result \in Nat /\ corevis \in Nat
    BY <1>1 DEF Init
  <2>3. /\ oldest \in Vis /\ newest \in Vis /\ writesegment \in Vis
        /\ visindex \in Vis \cup {-1} /\ count \in 0 .. VisBufferLength /\ difference \in Int
    BY <1>1 DEF Init
  <2> QED BY <1>3, <1>4, <1>5, <1>6, <2>1, <2>2, <2>3 DEF TypeOK
<1> QED BY <1>3, <1>7, DispatchInit, LockInit DEF ManagerInv

\* ... and every step of either thread keeps it.
LEMMA ManagerStep == ManagerInv /\ [Next]_vars => ManagerInv'
<1> SUFFICES ASSUME ManagerInv, [Next]_vars PROVE ManagerInv'
  OBVIOUS
<1>1. TypeOK /\ ScansOK /\ DispatchInv /\ LockInv
  BY DEF ManagerInv
<1>2. DispatchInv' /\ LockInv' /\ ScansOK'
  BY <1>1, DispatchStep, LockStep, VisibilitiesType
<1>3. TypeOK'
  <2>1. /\ mpc' \in MainSteps /\ wpc' \in WriterSteps
        /\ resend' \in BOOLEAN /\ terminatenow' \in BOOLEAN /\ keepwriting' \in BOOLEAN
        /\ stale' \subseteq Subints /\ updates' \in Vis
    BY <1>1, StepsType
  <2>2. /\ next' \in 0 .. NumSubints /\ sendcount' \in 0 .. NumSubints
        /\ inflight' \in [Cores -> Seq(Subints)]
        /\ coretimes' \in [Cores -> [0 .. RECEIVE_RING_LENGTH - 1 -> Nat]]
        /\ numsent' \in [Cores -> Nat] /\ extrareceived' \in [Cores -> Nat]
        /\ source' \in Cores /\ result' \in Nat /\ corevis' \in Nat
    BY <1>1, QueuesType
  <2>3. /\ oldest' \in Vis /\ newest' \in Vis /\ writesegment' \in Vis
        /\ visindex' \in Vis \cup {-1} /\ count' \in 0 .. VisBufferLength
    BY <1>1, LockStep
  <2>4. islocked' \in [Vis -> BOOLEAN] /\ owner' \in [Vis -> {"free", "main", "writer"}]
    BY <1>1, OwnersType
  <2>5. visbuffer' \in [Vis -> VisType] /\ written' \in Seq(VisType)
    BY <1>1, VisibilitiesType
  <2>6. difference' \in Int
    BY DifferenceStep
  <2> QED BY <2>1, <2>2, <2>3, <2>4, <2>5, <2>6 DEF TypeOK
<1> QED BY <1>2, <1>3 DEF ManagerInv

\* What the manager counts and what it has locked fit together in every state.
THEOREM ManagerInvariant == Spec => []ManagerInv
<1>1. Init => ManagerInv
  BY ManagerInit
<1>2. ManagerInv /\ [Next]_vars => ManagerInv'
  BY ManagerStep
<1> QED BY <1>1, <1>2, PTL DEF Spec

\* receiveData and locateVisIndex, which only count the results of a Core, never take
\* a result for that of another subintegration, while the Cores are filled up, while
\* each is given more work and while the last results come in.
THEOREM ResultsAttributed == Spec => []Attribution
<1>1. ManagerInv => Attribution
  BY DEF ManagerInv, DispatchInv
<1> QED BY <1>1, ManagerInvariant, PTL

\* The main and the write thread of the manager keep to the mutexes of the buffer: the
\* write thread never writes or increments a Visibility that is not its own or that
\* locateVisIndex may read, and what the main thread counts as locked is locked.
THEOREM LocksAreConsistent == Spec => []BufferInv
<1>1. ManagerInv => BufferInv
  <2> SUFFICES ASSUME ManagerInv PROVE TypeOK /\ LocksConsistent
    BY DEF BufferInv
  <2>1. /\ TypeOK /\ WriterOK /\ WindowOK /\ PhaseOK /\ writesegment \in Vis
        /\ oldest \in Vis /\ newest \in Vis
    BY DEF ManagerInv, LockInv, DispatchInv, TypeOK
  <2>2. ASSUME wpc \in {"write", "increment"}
        PROVE  /\ owner[writesegment] = "writer"
               /\ keepwriting => Window(oldest, writesegment) > Window(oldest, newest)
    <3>1. owner[writesegment] = "writer"
      BY <2>1, <2>2 DEF WriterOK
    <3>2. keepwriting => ~InWindow(writesegment)
      BY <2>1, <3>1 DEF WindowOK
    <3>3. Window(oldest, writesegment) \in Int /\ Window(oldest, newest) \in Int
      BY <2>1, WindowIs
    <3> QED BY <3>1, <3>2, <3>3 DEF InWindow
  <2>3. islocked[oldest]
    BY <2>1 DEF WindowOK
  <2>4. mpc # "unlockall" /\ mpc # "join" /\ mpc # "done"
            => \A v \in Vis : islocked[v] <=> owner[v] = "main"
    BY <2>1 DEF WindowOK, PhaseOK
  <2> QED BY <2>1, <2>2, <2>3, <2>4 DEF LocksConsistent
<1> QED BY <1>1, ManagerInvariant, PTL

-------------------------------------------------------------------------------
(* Periods.                                                                    *)

\* The period of a Visibility does not depend on its data.
LEMMA ZeroedIs ==
    ASSUME NEW v \in GoodVis
    PROVE  /\ Zeroed(v) \in GoodVis /\ Zeroed(Zeroed(v)) = Zeroed(v)
           /\ Zeroed(v).got = {} /\ Zeroed(v).scan = v.scan /\ Zeroed(v).start = v.start
           /\ PastEnd(Zeroed(v)) <=> PastEnd(v)
           /\ UpdateTime(Zeroed(v)) = Zeroed(UpdateTime(v))
           /\ PastEnd(v) => UpdateTime(v) = v
<1> DEFINE z == Zeroed(v)
<1>1. z = Vis5(v.scan, v.start, v.inttime, v.expected, {}) /\ z \in GoodVis
  BY VisParts
<1>2. z.scan = v.scan /\ z.start = v.start /\ z.inttime = v.inttime /\ z.expected = v.expected /\ z.got = {}
  BY <1>1 DEF Vis5
<1> HIDE DEF z
<1>3. Zeroed(z) = z
  BY <1>1, <1>2, VisParts
<1>4. PastEnd(z) <=> PastEnd(v)
  BY <1>2 DEF PastEnd
<1>5. UpdateTime(z) = Zeroed(UpdateTime(v))
  <2>1. CASE PastEnd(v)
    BY <1>4, <2>1 DEF UpdateTime, z
  <2>2. CASE ~PastEnd(v)
    <3> DEFINE w == UpdateTime(v)
    <3>1. w \in GoodVis
      BY UpdateTimeType
    <3>2. Zeroed(w) = Vis5(w.scan, w.start, w.inttime, w.expected, {})
      BY <3>1, VisParts
    <3> DEFINE start == v.start + v.inttime
               left == ScanDuration[v.scan] - start
               scan == NextScan(v.scan)
               i == IF scan > NumScans THEN v.inttime ELSE IntTime[scan]
               e == IF left < v.inttime THEN left ELSE v.inttime
    <3>3. /\ left <= 0 => w = Vis5(scan, 0, i, v.inttime, v.got)
          /\ ~(left <= 0) => w = Vis5(v.scan, start, v.inttime, e, v.got)
      BY <2>2, UpdateTimeIs
    <3>4. /\ left <= 0 => UpdateTime(z) = Vis5(scan, 0, i, v.inttime, {})
          /\ ~(left <= 0) => UpdateTime(z) = Vis5(v.scan, start, v.inttime, e, {})
      BY <1>1, <1>2, <1>4, <2>2, UpdateTimeIs
    <3> HIDE DEF w, start, left, scan, i, e
    <3>5. UpdateTime(z) = Zeroed(w)
      BY <3>2, <3>3, <3>4 DEF Vis5
    <3> QED BY <3>5 DEF w
  <2> QED BY <2>1, <2>2
<1>6. PastEnd(v) => UpdateTime(v) = v
  BY DEF UpdateTime
<1> QED BY <1>1, <1>2, <1>3, <1>4, <1>5, <1>6 DEF z

\* updateTime goes on in time.
LEMMA UpdateTimeLater ==
    ASSUME NEW v \in GoodVis, ~PastEnd(v)
    PROVE  Earlier(v, UpdateTime(v))
<1> DEFINE w == UpdateTime(v)
           start == v.start + v.inttime
           left == ScanDuration[v.scan] - start
           scan == NextScan(v.scan)
           i == IF scan > NumScans THEN v.inttime ELSE IntTime[scan]
           e == IF left < v.inttime THEN left ELSE v.inttime
<1>1. /\ start > v.start /\ scan > v.scan
      /\ left <= 0 => w = Vis5(scan, 0, i, v.inttime, v.got)
      /\ ~(left <= 0) => w = Vis5(v.scan, start, v.inttime, e, v.got)
  BY UpdateTimeIs
<1>2. v.scan \in Int /\ v.start \in Int /\ start \in Int /\ scan \in Int
  <2>1. v.scan \in Nat /\ v.start \in Nat
    BY VisParts
  <2>2. start \in Nat /\ scan \in Configured \cup {NumScans + 1}
    BY UpdateTimeIs
  <2>3. NumScans \in Nat /\ Configured \subseteq Nat
    BY ScansType
  <2> HIDE DEF start, scan
  <2> QED BY <2>1, <2>2, <2>3
<1>3. \/ w.scan = scan
      \/ w.scan = v.scan /\ w.start = start
  <2> HIDE DEF w, start, left, scan, i, e
  <2> QED BY <1>1 DEF Vis5
<1> HIDE DEF w, start, left, scan, i, e
<1>4. Earlier(v, w)
  BY <1>1, <1>2, <1>3 DEF Earlier
<1> QED BY <1>4 DEF w

\* One after the other is later than what was before.
LEMMA EarlierNext ==
    ASSUME NEW x \in VisType, NEW v \in GoodVis, NEW w \in GoodVis,
           Earlier(x, v), Zeroed(w) = UpdateTime(Zeroed(v))
    PROVE  Earlier(x, w)
<1>1. /\ x.scan \in Int /\ x.start \in Int /\ v.scan \in Int /\ v.start \in Int
      /\ w.scan \in Int /\ w.start \in Int
  <2>1. x.scan \in Nat /\ x.start \in Nat
    BY DEF VisType
  <2>2. v.scan \in Nat /\ v.start \in Nat /\ w.scan \in Nat /\ w.start \in Nat
    BY VisParts
  <2> QED BY <2>1, <2>2
<1>2. /\ Zeroed(v) \in GoodVis /\ Zeroed(v).scan = v.scan /\ Zeroed(v).start = v.start
      /\ Zeroed(w).scan = w.scan /\ Zeroed(w).start = w.start
  BY ZeroedIs
<1>3. CASE PastEnd(Zeroed(v))
  <2>1. UpdateTime(Zeroed(v)) = Zeroed(v)
    BY <1>2, <1>3, ZeroedIs
  <2> QED BY <1>2, <2>1 DEF Earlier
<1>4. CASE ~PastEnd(Zeroed(v))
  <2>1. Earlier(Zeroed(v), Zeroed(w))
    BY <1>2, <1>4, UpdateTimeLater
  <2>2. Earlier(v, w)
    BY <1>2, <2>1 DEF Earlier
  <2> QED BY <1>1, <2>2 DEF Earlier
<1> QED BY <1>3, <1>4

\* The Visibility a number of places on
Place(s, i) == (s + i) % VisBufferLength

\* Places round the ring.
LEMMA PlaceFacts ==
    ASSUME NEW s \in Vis
    PROVE  /\ \A i \in 0 .. VisBufferLength - 1 : Place(s, i) \in Vis /\ Window(s, Place(s, i)) = i
           /\ Place(s, 0) = s /\ Succ(s) \in Vis
           /\ \A i \in 0 .. VisBufferLength - 2 : Place(Succ(s), i) = Place(s, i + 1)
           /\ Place(Succ(s), VisBufferLength - 1) = s
           /\ \A i \in 1 .. VisBufferLength - 1 : Place(s, i) # s
<1>0. /\ VisBufferLength \in Nat /\ VisBufferLength >= 4 /\ s \in 0 .. VisBufferLength - 1
      /\ VisBufferLength \in Nat \ {0}
  BY VisBufferLengthAssumption DEF Vis
<1>1. \A r \in Vis, i \in 0 .. VisBufferLength - 1 :
         Place(r, i) = IF r + i < VisBufferLength THEN r + i ELSE r + i - VisBufferLength
  <2> SUFFICES ASSUME NEW r \in Vis, NEW i \in 0 .. VisBufferLength - 1
               PROVE  Place(r, i) = IF r + i < VisBufferLength THEN r + i ELSE r + i - VisBufferLength
    OBVIOUS
  <2> DEFINE x == r + i
  <2>1. x \in 0 .. 2 * VisBufferLength - 1 /\ r \in Int
    BY <1>0 DEF Vis
  <2>2. Place(r, i) = x % VisBufferLength
    BY DEF Place
  <2>3. x = r + i
    OBVIOUS
  <2> HIDE DEF x
  <2>4. x % VisBufferLength = IF x < VisBufferLength THEN x ELSE x - VisBufferLength
    BY <1>0, <2>1, OnceRound
  <2> QED BY <1>0, <2>1, <2>2, <2>3, <2>4
<1>2. Succ(s) = (IF s = VisBufferLength - 1 THEN 0 ELSE s + 1) /\ Succ(s) \in Vis
  BY SuccIs
<1>3. \A i \in 0 .. VisBufferLength - 1 : Place(s, i) \in Vis /\ Window(s, Place(s, i)) = i
  BY PlaceIs DEF Place
<1>4. Place(s, 0) = s
  BY <1>0, <1>1
<1>5. ASSUME NEW i \in 0 .. VisBufferLength - 2 PROVE Place(Succ(s), i) = Place(s, i + 1)
  <2>1. i \in 0 .. VisBufferLength - 1 /\ i + 1 \in 0 .. VisBufferLength - 1
    BY <1>0
  <2>2. /\ Place(s, i + 1) = IF s + (i + 1) < VisBufferLength THEN s + (i + 1)
                             ELSE s + (i + 1) - VisBufferLength
        /\ Place(Succ(s), i) = IF Succ(s) + i < VisBufferLength THEN Succ(s) + i
                               ELSE Succ(s) + i - VisBufferLength
    BY <1>1, <1>2, <2>1
  <2> QED BY <1>0, <1>2, <2>2
<1>6. Place(Succ(s), VisBufferLength - 1) = s
  <2>1. Place(Succ(s), VisBufferLength - 1) =
            IF Succ(s) + (VisBufferLength - 1) < VisBufferLength THEN Succ(s) + (VisBufferLength - 1)
            ELSE Succ(s) + (VisBufferLength - 1) - VisBufferLength
    BY <1>0, <1>1, <1>2
  <2> QED BY <1>0, <1>2, <2>1
<1>7. ASSUME NEW i \in 1 .. VisBufferLength - 1 PROVE Place(s, i) # s
  <2>1. Place(s, i) = IF s + i < VisBufferLength THEN s + i ELSE s + i - VisBufferLength
    BY <1>0, <1>1
  <2> QED BY <1>0, <2>1
<1> QED BY <1>2, <1>3, <1>4, <1>5, <1>6, <1>7

\* What a Visibility of the buffer is.
LEMMA BufferIs ==
    ASSUME ManagerInv
    PROVE  /\ visbuffer \in [Vis -> VisType] /\ \A v \in Vis : visbuffer[v] \in GoodVis
           /\ writesegment \in Vis /\ updates \in 0 .. VisBufferLength - 1
           /\ written \in Seq(VisType) /\ Len(written) \in Nat
           /\ VisBufferLength \in Nat /\ VisBufferLength >= 4
<1>1. /\ visbuffer \in [Vis -> VisType] /\ written \in Seq(VisType) /\ writesegment \in Vis
      /\ updates \in Vis /\ \A v \in Vis : ScanOK(visbuffer[v])
  BY DEF ManagerInv, TypeOK, ScansOK
<1>2. updates \in 0 .. VisBufferLength - 1
  BY <1>1 DEF Vis
<1>3. \A v \in Vis : visbuffer[v] \in GoodVis
  BY <1>1 DEF GoodVis
<1> QED BY <1>1, <1>2, <1>3, VisBufferLengthAssumption

\* The periods ahead of the write thread are Visibilities of the buffer.
LEMMA AheadIs ==
    ASSUME ManagerInv, NEW i \in 0 .. VisBufferLength - 1
    PROVE  /\ Place(writesegment, i) \in Vis
           /\ Ahead(i) = Zeroed(visbuffer[Place(writesegment, i)]) /\ Ahead(i) \in GoodVis
           /\ Zeroed(Ahead(i)) = Ahead(i)
<1>1. Place(writesegment, i) \in Vis
  BY BufferIs, PlaceFacts
<1>2. Ahead(i) = Zeroed(visbuffer[Place(writesegment, i)])
  BY DEF Ahead, Place
<1> QED BY <1>1, <1>2, BufferIs, ZeroedIs

\* Only the data of Visibilities change.
LEMMA PeriodsKept ==
    ASSUME ManagerInv, PeriodsOK, OrderOK, WrittenInOrder,
           UNCHANGED <<writesegment, updates, written>>,
           wpc' = wpc \/ (wpc \in {"check", "lock", "unlockprev", "flush"} /\
                          wpc' \in {"lock", "unlockprev", "write", "flush", "flushing"}),
           \A v \in Vis : Zeroed(visbuffer'[v]) = Zeroed(visbuffer[v])
    PROVE  PeriodsOK' /\ OrderOK' /\ WrittenInOrder'
<1>1. \A i \in 0 .. VisBufferLength - 1 : Ahead(i)' = Ahead(i)
  <2> SUFFICES ASSUME NEW i \in 0 .. VisBufferLength - 1 PROVE Ahead(i)' = Ahead(i)
    OBVIOUS
  <2>1. Place(writesegment, i) \in Vis
    BY AheadIs
  <2> QED BY <2>1 DEF Ahead, Place
<1>2. /\ VisBufferLength \in Nat /\ VisBufferLength >= 4 /\ updates \in 0 .. VisBufferLength - 1
      /\ 0 \in 0 .. VisBufferLength - 1 /\ 1 \in 0 .. VisBufferLength - 1
      /\ \A i \in 1 .. VisBufferLength - 2 : i \in 0 .. VisBufferLength - 1 /\ i + 1 \in 0 .. VisBufferLength - 1
  BY BufferIs
<1>3. PICK u \in 0 .. VisBufferLength - 1 : u = updates
  BY <1>2
<1>4. Ahead(updates)' = Ahead(updates) /\ Ahead(0)' = Ahead(0) /\ Ahead(1)' = Ahead(1)
  <2>1. Ahead(u)' = Ahead(u)
    BY <1>1
  <2>2. Ahead(updates)' = Ahead(u)' /\ Ahead(updates) = Ahead(u)
    BY <1>3 DEF Ahead
  <2> QED BY <1>1, <1>2, <2>1, <2>2
<1>5. PeriodsOK'
  <2>1. \A i \in 1 .. VisBufferLength - 2 : Ahead(i + 1)' = UpdateTime(Ahead(i))'
    BY <1>1, <1>2 DEF PeriodsOK
  <2>2. IF wpc' # "increment" \/ updates' = 0 THEN Ahead(1)' = UpdateTime(Ahead(0))'
        ELSE Ahead(0)' = Ahead(updates)'
    BY <1>4 DEF PeriodsOK
  <2>3. wpc' \notin {"increment", "flushing", "ended"} => updates' = 0
    BY DEF PeriodsOK
  <2> QED BY <2>1, <2>2, <2>3 DEF PeriodsOK
<1>6. OrderOK'
  <2>1. CASE wpc = "increment"
    BY <1>4, <2>1 DEF OrderOK, Earlier
  <2>2. CASE wpc # "increment"
    BY <1>4, <2>2 DEF OrderOK, Earlier
  <2> QED BY <2>1, <2>2
<1>7. WrittenInOrder'
  BY DEF WrittenInOrder, Earlier
<1> QED BY <1>5, <1>6, <1>7
\* Once past the end of the job, a chain of periods stays where it is.
LEMMA ChainEnd ==
    ASSUME NEW a \in [0 .. VisBufferLength - 1 -> GoodVis], NEW u \in 1 .. VisBufferLength - 1,
           \A i \in 1 .. VisBufferLength - 2 : a[i + 1] = UpdateTime(a[i]), PastEnd(a[u])
    PROVE  \A j \in u .. VisBufferLength - 1 : a[j] = a[u]
<1>0. VisBufferLength \in Nat
  BY VisBufferLengthAssumption
<1> DEFINE S == {n \in Nat : u + n <= VisBufferLength - 1 => a[u + n] = a[u]}
<1>1. 0 \in S
  BY <1>0
<1>2. ASSUME NEW n \in Nat, n \in S PROVE n + 1 \in S
  <2> SUFFICES ASSUME u + (n + 1) <= VisBufferLength - 1 PROVE a[u + (n + 1)] = a[u]
    BY <1>2
  <2>1. a[u + n] = a[u] /\ u + n \in 1 .. VisBufferLength - 2 /\ u + (n + 1) = (u + n) + 1
    BY <1>0, <1>2
  <2>2. a[u + (n + 1)] = UpdateTime(a[u])
    BY <2>1
  <2>3. a[u] \in GoodVis
    BY <1>0
  <2> QED BY <2>2, <2>3, ZeroedIs
<1> HIDE DEF S
<1>3. Nat \subseteq S
  BY <1>1, <1>2, SetInduction
<1>4. ASSUME NEW j \in u .. VisBufferLength - 1 PROVE a[j] = a[u]
  <2>1. j - u \in Nat /\ u + (j - u) = j /\ j <= VisBufferLength - 1
    BY <1>0
  <2>2. j - u \in S
    BY <1>3, <2>1
  <2> QED BY <2>1, <2>2 DEF S
<1> QED BY <1>4

\* The write thread goes through increment.
LEMMA IncrementPeriods ==
    ASSUME ManagerInv, ManagerInv', PeriodsOK, OrderOK, WrittenInOrder, IncrementSegment
    PROVE  PeriodsOK' /\ OrderOK' /\ WrittenInOrder'
<1>0. /\ VisBufferLength \in Nat /\ VisBufferLength >= 4 /\ writesegment \in Vis
      /\ updates \in 0 .. VisBufferLength - 1 /\ visbuffer \in [Vis -> VisType]
      /\ \A v \in Vis : visbuffer[v] \in GoodVis
  BY BufferIs
<1> DEFINE N == VisBufferLength
<1>1. PICK s \in Vis : s = writesegment
  BY <1>0
<1>2. PICK u \in 0 .. N - 1 : u = updates
  BY <1>0
<1>3. PICK z \in GoodVis : z = UpdateTime(Zeroed(visbuffer[s]))
  BY <1>0, ZeroedIs, UpdateTimeType
<1>4. Zeroed(visbuffer'[s]) = z /\ \A v \in Vis \ {s} : visbuffer'[v] = visbuffer[v]
  <2> DEFINE v == visbuffer[s]
  <2>1. v \in GoodVis
    BY <1>0
  <2>2. CASE PastEnd(v)
    <3>1. UNCHANGED visbuffer
      BY <1>1, <2>2 DEF IncrementSegment
    <3>2. UpdateTime(Zeroed(v)) = Zeroed(v)
      BY <2>1, <2>2, ZeroedIs
    <3> QED BY <1>3, <3>1, <3>2
  <2>3. CASE ~PastEnd(v)
    <3>1. visbuffer' = [visbuffer EXCEPT ![s] = Zeroed(UpdateTime(v))]
      BY <1>1, <2>3 DEF IncrementSegment
    <3>2. visbuffer'[s] = z
      BY <1>0, <1>3, <2>1, <3>1, ZeroedIs
    <3>3. Zeroed(z) = z
      <4>1. Zeroed(v) \in GoodVis /\ z = Zeroed(UpdateTime(v)) /\ UpdateTime(v) \in GoodVis
        BY <1>3, <2>1, ZeroedIs, UpdateTimeType
      <4> QED BY <4>1, ZeroedIs
    <3> QED BY <1>0, <3>1, <3>2, <3>3
  <2> QED BY <2>2, <2>3
<1>5. PICK a \in [0 .. N - 1 -> GoodVis] : \A i \in 0 .. N - 1 : a[i] = Zeroed(visbuffer[Place(s, i)])
  <2> DEFINE a == [i \in 0 .. N - 1 |-> Zeroed(visbuffer[Place(s, i)])]
  <2>1. \A i \in 0 .. N - 1 : Zeroed(visbuffer[Place(s, i)]) \in GoodVis
    BY <1>0, PlaceFacts, ZeroedIs
  <2>2. a \in [0 .. N - 1 -> GoodVis] /\ \A i \in 0 .. N - 1 : a[i] = Zeroed(visbuffer[Place(s, i)])
    BY <2>1
  <2> QED BY <2>2
<1>6. /\ \A i \in 0 .. N - 1 : Ahead(i) = a[i]
      /\ a[0] = Zeroed(visbuffer[s]) /\ z = UpdateTime(a[0])
  <2>1. 0 \in 0 .. N - 1 /\ Place(s, 0) = s
    BY <1>0, PlaceFacts
  <2> QED BY <1>1, <1>3, <1>5, <2>1 DEF Ahead, Place
<1>7. /\ \A i \in 1 .. N - 2 : a[i + 1] = UpdateTime(a[i])
      /\ u = 0 => a[1] = UpdateTime(a[0])
      /\ u # 0 => a[0] = a[u]
      /\ written # <<>> => Earlier(written[Len(written)], a[1])
  <2>0. /\ wpc = "increment" /\ 1 \in 0 .. N - 1 /\ 0 \in 0 .. N - 1
        /\ \A i \in 1 .. N - 2 : i \in 0 .. N - 1 /\ i + 1 \in 0 .. N - 1
    BY <1>0 DEF IncrementSegment
  <2>1. \A i \in 1 .. N - 2 : a[i + 1] = UpdateTime(a[i])
    BY <1>6, <2>0 DEF PeriodsOK
  <2>2. Ahead(updates) = Ahead(u) /\ Ahead(u) = a[u]
    BY <1>2, <1>6
  <2>3. u = 0 => a[1] = UpdateTime(a[0])
    BY <1>2, <1>6, <2>0 DEF PeriodsOK
  <2>4. u # 0 => a[0] = a[u]
    BY <1>2, <1>6, <2>0, <2>2 DEF PeriodsOK
  <2>5. written # <<>> => Earlier(written[Len(written)], a[1])
    BY <1>6, <2>0 DEF OrderOK
  <2> QED BY <2>1, <2>3, <2>4, <2>5
<1>8. \A i \in 1 .. N - 1 : Zeroed(visbuffer'[Place(s, i)]) = a[i]
  BY <1>0, <1>4, <1>5, PlaceFacts
<1>9. PastEnd(visbuffer[s]) <=> PastEnd(a[0])
  BY <1>0, <1>6, ZeroedIs
<1>10. UNCHANGED written /\ WrittenInOrder'
  BY DEF IncrementSegment, WrittenInOrder, Earlier
<1>11. CASE u = N - 1 \/ PastEnd(a[0])
  <2>1. wpc' = "check" /\ updates' = 0 /\ writesegment' = Succ(s)
    BY <1>1, <1>2, <1>9, <1>11 DEF IncrementSegment, NextSegment
  <2>2. z = UpdateTime(a[N - 1])
    <3>1. CASE u = N - 1
      BY <1>0, <1>6, <1>7, <3>1
    <3>2. CASE PastEnd(a[0])
      <4>0. a[0] \in GoodVis /\ 0 \in 0 .. N - 1 /\ 1 \in 1 .. N - 1 /\ N - 1 \in 1 .. N - 1
        BY <1>0
      <4>1. UpdateTime(a[0]) = a[0]
        BY <3>2, <4>0, ZeroedIs
      <4>2. PICK x \in 1 .. N - 1 : a[x] = a[0]
        BY <1>0, <1>7, <4>0, <4>1
      <4>3. \A j \in x .. N - 1 : a[j] = a[x]
        BY <1>7, <3>2, <4>2, ChainEnd
      <4>4. N - 1 \in x .. N - 1
        BY <1>0
      <4>5. a[N - 1] = a[0]
        BY <4>2, <4>3, <4>4
      <4> QED BY <1>6, <4>1, <4>5
    <3> QED BY <1>11, <3>1, <3>2
  <2>3. \A i \in 0 .. N - 2 : Ahead(i)' = a[i + 1]
    <3> SUFFICES ASSUME NEW i \in 0 .. N - 2 PROVE Ahead(i)' = a[i + 1]
      OBVIOUS
    <3>1. i + 1 \in 1 .. N - 1 /\ Place(Succ(s), i) = Place(s, i + 1)
      BY <1>0, PlaceFacts
    <3>2. Ahead(i)' = Zeroed(visbuffer'[Place(Succ(s), i)])
      BY <2>1 DEF Ahead, Place
    <3> QED BY <1>8, <3>1, <3>2
  <2>4. Ahead(N - 1)' = z
    <3>1. Ahead(N - 1)' = Zeroed(visbuffer'[Place(Succ(s), N - 1)])
      BY <2>1 DEF Ahead, Place
    <3>2. Place(Succ(s), N - 1) = s
      BY PlaceFacts
    <3> QED BY <1>4, <3>1, <3>2
  <2>5. \A i \in 0 .. N - 2 : Ahead(i + 1)' = UpdateTime(Ahead(i)')
    <3> SUFFICES ASSUME NEW i \in 0 .. N - 2 PROVE Ahead(i + 1)' = UpdateTime(Ahead(i)')
      OBVIOUS
    <3>1. CASE i = N - 2
      <4>1. i + 1 = N - 1 /\ Ahead(i)' = a[N - 1]
        BY <1>0, <2>3, <3>1
      <4> QED BY <2>2, <2>4, <4>1
    <3>2. CASE i # N - 2
      <4>1. i + 1 \in 0 .. N - 2 /\ i + 1 \in 1 .. N - 2
        BY <1>0, <3>2
      <4> QED BY <1>7, <2>3, <4>1
    <3> QED BY <3>1, <3>2
  <2>6. PeriodsOK'
    <3>1. 0 \in 0 .. N - 2 /\ 1 = 0 + 1 /\ \A i \in 1 .. N - 2 : i \in 0 .. N - 2
      BY <1>0
    <3>2. Ahead(1)' = UpdateTime(Ahead(0)')
      BY <2>5, <3>1
    <3> QED BY <2>1, <2>5, <3>1, <3>2 DEF PeriodsOK
  <2>7. OrderOK'
    <3>1. 0 \in 0 .. N - 2
      BY <1>0
    <3>2. Ahead(0)' = a[1]
      BY <2>3, <3>1
    <3>3. Ahead(updates)' = Ahead(0)'
      BY <2>1 DEF Ahead
    <3> QED BY <1>7, <1>10, <2>1, <3>2, <3>3 DEF OrderOK, Earlier
  <2> QED BY <1>10, <2>6, <2>7
<1>12. CASE ~(u = N - 1 \/ PastEnd(a[0]))
  <2>1. wpc' = "increment" /\ updates' = u + 1 /\ writesegment' = s
    BY <1>1, <1>2, <1>9, <1>12 DEF IncrementSegment
  <2>2. Ahead(0)' = z /\ \A i \in 1 .. N - 1 : Ahead(i)' = a[i]
    BY <1>0, <1>4, <1>8, <2>1, PlaceFacts DEF Ahead, Place
  <2>3. z = a[u + 1] /\ u + 1 \in 1 .. N - 1
    <3>1. CASE u = 0
      BY <1>0, <1>6, <1>7, <3>1
    <3>2. CASE u # 0
      <4>1. u \in 1 .. N - 2 /\ u + 1 \in 1 .. N - 1
        BY <1>0, <1>12, <3>2
      <4> QED BY <1>6, <1>7, <3>2, <4>1
    <3> QED BY <3>1, <3>2
  <2>4. Ahead(updates)' = Ahead(u + 1)'
    BY <2>1 DEF Ahead
  <2>5. PeriodsOK'
    <3>1. \A i \in 1 .. N - 2 : i \in 1 .. N - 1 /\ i + 1 \in 1 .. N - 1
      BY <1>0
    <3>2. \A i \in 1 .. N - 2 : Ahead(i + 1)' = UpdateTime(Ahead(i)')
      BY <1>7, <2>2, <3>1
    <3>3. Ahead(0)' = Ahead(updates)' /\ updates' # 0
      BY <1>0, <2>1, <2>2, <2>3, <2>4
    <3> QED BY <2>1, <3>2, <3>3 DEF PeriodsOK
  <2>6. OrderOK'
    <3>1. Ahead(1)' = a[1]
      BY <1>0, <2>2
    <3> QED BY <1>7, <1>10, <2>1, <3>1 DEF OrderOK, Earlier
  <2> QED BY <1>10, <2>5, <2>6
<1> QED BY <1>11, <1>12

\* writedata keeps the order of time on disk, and the next period is later.
LEMMA AppendOrder ==
    ASSUME written \in Seq(VisType), NEW v \in GoodVis, Writedata(v), WrittenInOrder,
           written # <<>> => Earlier(written[Len(written)], v),
           NEW w \in GoodVis, Zeroed(w) = UpdateTime(Zeroed(v))
    PROVE  /\ WrittenInOrder'
           /\ written' # <<>> => Earlier(written'[Len(written')], w)
<1>1. Len(written) \in Nat /\ v \in VisType
  BY DEF GoodVis
<1>2. CASE ToWrite(v)
  <2>1. written' = Append(written, v)
    BY <1>2 DEF Writedata
  <2>2. /\ Len(written') = Len(written) + 1 /\ written'[Len(written) + 1] = v
        /\ \A i \in 1 .. Len(written) : written'[i] = written[i]
    BY <1>1, <2>1
  <2>3. ASSUME NEW i \in 1 .. Len(written') - 1 PROVE Earlier(written'[i], written'[i + 1])
    <3>1. i \in 1 .. Len(written) /\ written'[i] = written[i]
      BY <1>1, <2>2
    <3>2. CASE i = Len(written)
      <4>1. written # <<>>
        BY <1>1, <3>1
      <4> QED BY <2>2, <3>1, <3>2, <4>1
    <3>3. CASE i # Len(written)
      <4>1. i \in 1 .. Len(written) - 1 /\ i + 1 \in 1 .. Len(written)
        BY <1>1, <3>1, <3>3
      <4> QED BY <2>2, <3>1, <4>1 DEF WrittenInOrder
    <3> QED BY <3>2, <3>3
  <2>4. WrittenInOrder'
    BY <2>3 DEF WrittenInOrder, Earlier
  <2>5. ~PastEnd(v) /\ Zeroed(v) \in GoodVis /\ ~PastEnd(Zeroed(v))
    BY <1>2, ZeroedIs DEF ToWrite
  <2>6. Earlier(Zeroed(v), Zeroed(w))
    BY <2>5, UpdateTimeLater
  <2>7. Earlier(v, w)
    BY <2>6, ZeroedIs DEF Earlier
  <2> QED BY <2>2, <2>4, <2>7
<1>3. CASE ~ToWrite(v)
  <2>1. written' = written
    BY <1>3 DEF Writedata
  <2>2. WrittenInOrder'
    BY <2>1 DEF WrittenInOrder, Earlier
  <2>3. ASSUME written # <<>> PROVE Earlier(written[Len(written)], w)
    <3>1. written[Len(written)] \in VisType
      BY <1>1, <2>3
    <3> QED BY <2>3, <3>1, EarlierNext
  <2> QED BY <2>1, <2>2, <2>3
<1> QED BY <1>2, <1>3

\* The write thread writes the Visibility it is at.
LEMMA WritePeriods ==
    ASSUME ManagerInv, PeriodsOK, OrderOK, WrittenInOrder, WriteSegment
    PROVE  PeriodsOK' /\ OrderOK' /\ WrittenInOrder'
<1>0. /\ VisBufferLength \in Nat /\ VisBufferLength >= 4 /\ writesegment \in Vis
      /\ \A v \in Vis : visbuffer[v] \in GoodVis
      /\ written \in Seq(VisType)
      /\ 0 \in 0 .. VisBufferLength - 1 /\ 1 \in 0 .. VisBufferLength - 1
  BY BufferIs
<1>1. /\ wpc = "write" /\ wpc' = "increment" /\ updates = 0 /\ UNCHANGED <<visbuffer, writesegment, updates>>
      /\ Writedata(visbuffer[writesegment])
  BY DEF WriteSegment, PeriodsOK
<1>2. PICK v \in GoodVis : v = visbuffer[writesegment]
  BY <1>0
<1>3. Ahead(0) = Zeroed(v) /\ Ahead(1) \in GoodVis /\ Zeroed(Ahead(1)) = Ahead(1)
  <2>1. Place(writesegment, 0) = writesegment
    BY <1>0, PlaceFacts
  <2> QED BY <1>0, <1>2, <2>1, AheadIs
<1>4. PICK w \in GoodVis : w = Ahead(1)
  BY <1>3
<1>5. Zeroed(w) = UpdateTime(Zeroed(v))
  BY <1>1, <1>3, <1>4 DEF PeriodsOK
<1>6. written # <<>> => Earlier(written[Len(written)], v)
  <2>1. Ahead(updates) = Zeroed(v)
    BY <1>1, <1>3
  <2>2. written # <<>> => Earlier(written[Len(written)], Zeroed(v))
    BY <1>1, <2>1 DEF OrderOK
  <2> QED BY <2>2, ZeroedIs DEF Earlier
<1>7. WrittenInOrder' /\ (written' # <<>> => Earlier(written'[Len(written')], w))
  <2>1. Writedata(v)
    BY <1>1, <1>2
  <2> QED BY <1>0, <1>5, <1>6, <2>1, AppendOrder
<1>8. \A i : Ahead(i)' = Ahead(i)
  BY <1>1 DEF Ahead
<1>9. OrderOK'
  BY <1>1, <1>4, <1>7, <1>8 DEF OrderOK, Earlier
<1>10. PeriodsOK'
  BY <1>1, <1>8 DEF PeriodsOK
<1> QED BY <1>7, <1>9, <1>10

\* It goes once more round the buffer at the end.
LEMMA FlushPeriods ==
    ASSUME ManagerInv, PeriodsOK, OrderOK, WrittenInOrder, FlushSegment
    PROVE  PeriodsOK' /\ OrderOK' /\ WrittenInOrder'
<1>0. /\ VisBufferLength \in Nat /\ VisBufferLength >= 4 /\ writesegment \in Vis
      /\ \A v \in Vis : visbuffer[v] \in GoodVis
      /\ written \in Seq(VisType) /\ updates \in 0 .. VisBufferLength - 1
  BY BufferIs
<1>1. PICK u \in 0 .. VisBufferLength - 1 : u = updates
  BY <1>0
<1>2. /\ wpc = "flushing" /\ UNCHANGED <<visbuffer, writesegment>> /\ ToFlush = Place(writesegment, u)
      /\ Writedata(visbuffer[ToFlush])
  BY <1>1 DEF FlushSegment, ToFlush, Place
<1>3. Place(writesegment, u) \in Vis /\ Ahead(u) = Zeroed(visbuffer[Place(writesegment, u)])
  BY <1>0, AheadIs
<1>4. PICK v \in GoodVis : v = visbuffer[Place(writesegment, u)]
  BY <1>0, <1>3
<1>5. Writedata(v) /\ Ahead(u) = Zeroed(v)
  BY <1>2, <1>3, <1>4
<1>6. written # <<>> => Earlier(written[Len(written)], v)
  <2>1. Ahead(updates) = Zeroed(v)
    BY <1>1, <1>5
  <2>2. written # <<>> => Earlier(written[Len(written)], Zeroed(v))
    BY <1>2, <2>1 DEF OrderOK
  <2> QED BY <2>2, ZeroedIs DEF Earlier
<1>7. \A i : Ahead(i)' = Ahead(i)
  BY <1>2 DEF Ahead
<1>8. wpc' \in {"flushing", "ended"}
  BY <1>2 DEF FlushSegment
<1>9. PeriodsOK'
  BY <1>2, <1>7, <1>8 DEF PeriodsOK
<1>10. CASE u = VisBufferLength - 1
  <2>1. wpc' = "ended"
    BY <1>1, <1>10 DEF FlushSegment
  <2>2. UpdateTime(Zeroed(v)) \in GoodVis /\ Zeroed(UpdateTime(Zeroed(v))) = UpdateTime(Zeroed(v))
    BY ZeroedIs, UpdateTimeType
  <2>3. PICK w \in GoodVis : w = UpdateTime(Zeroed(v))
    BY <2>2
  <2>4. WrittenInOrder'
    BY <1>0, <1>5, <1>6, <2>2, <2>3, AppendOrder
  <2> QED BY <1>9, <2>1, <2>4 DEF OrderOK
<1>11. CASE u # VisBufferLength - 1
  <2>1. wpc' = "flushing" /\ updates' = u + 1
    BY <1>1, <1>2, <1>11 DEF FlushSegment
  <2>2. u + 1 \in 0 .. VisBufferLength - 1 /\ (u # 0 => u \in 1 .. VisBufferLength - 2)
    BY <1>0, <1>11
  <2>3. Ahead(u + 1) = UpdateTime(Ahead(u))
    <3>1. CASE u = 0
      <4>1. Ahead(1) = UpdateTime(Ahead(0))
        BY <1>2 DEF PeriodsOK
      <4> QED BY <3>1, <4>1
    <3>2. CASE u # 0
      BY <2>2, <3>2 DEF PeriodsOK
    <3> QED BY <3>1, <3>2
  <2>4. Ahead(u + 1) \in GoodVis /\ Zeroed(Ahead(u + 1)) = Ahead(u + 1)
    BY <2>2, AheadIs
  <2>5. PICK w \in GoodVis : w = Ahead(u + 1)
    BY <2>4
  <2>6. Zeroed(w) = UpdateTime(Zeroed(v))
    BY <1>5, <2>3, <2>4, <2>5
  <2>7. WrittenInOrder' /\ (written' # <<>> => Earlier(written'[Len(written')], w))
    BY <1>0, <1>5, <1>6, <2>6, AppendOrder
  <2>8. Ahead(updates)' = w
    <3>1. Ahead(updates)' = Ahead(u + 1)'
      BY <2>1 DEF Ahead
    <3> QED BY <1>7, <2>5, <3>1
  <2>9. OrderOK'
    BY <2>1, <2>7, <2>8 DEF OrderOK, Earlier
  <2> QED BY <1>9, <2>7, <2>9
<1> QED BY <1>10, <1>11
\* addData changes the data of one Visibility.
LEMMA AddDataIs ==
    ASSUME ManagerInv, AddData
    PROVE  /\ visindex \in Vis /\ result \in Subints /\ mpc = "add"
           /\ visbuffer'[visindex].got = visbuffer[visindex].got \cup {result}
           /\ \A v \in Vis \ {visindex} : visbuffer'[v] = visbuffer[v]
           /\ \A v \in Vis : Zeroed(visbuffer'[v]) = Zeroed(visbuffer[v])
           /\ UNCHANGED <<writevars, inflight, next, result>>
<1>1. /\ visbuffer \in [Vis -> VisType] /\ \A v \in Vis : visbuffer[v] \in GoodVis
      /\ visindex \in Vis /\ mpc = "add" /\ result \in Subints
  <2>1. visindex \in Vis \cup {-1}
    BY DEF ManagerInv, TypeOK
  <2>2. mpc = "add" /\ visindex # -1
    BY DEF AddData
  <2>3. result \in Subints
    BY <2>2 DEF ManagerInv, DispatchInv, PhaseOK, Receiving
  <2> QED BY <2>1, <2>2, <2>3, BufferIs
<1>2. PICK x \in Vis : x = visindex
  BY <1>1
<1>3. visbuffer' = [visbuffer EXCEPT ![x] = [visbuffer[x] EXCEPT !.got = @ \cup {result}]]
  BY <1>2 DEF AddData
<1>4. visbuffer'[x] = [visbuffer[x] EXCEPT !.got = visbuffer[x].got \cup {result}]
      /\ \A v \in Vis \ {x} : visbuffer'[v] = visbuffer[v]
  BY <1>1, <1>3
<1>5. visbuffer[x] \in VisType
  BY <1>1
<1>6. visbuffer'[x].got = visbuffer[x].got \cup {result}
  BY <1>4, <1>5 DEF VisType
<1>7. Zeroed(visbuffer'[x]) = Zeroed(visbuffer[x])
  BY <1>4, <1>5 DEF VisType, Zeroed
<1>8. UNCHANGED <<writevars, inflight, next, result>>
  BY DEF AddData, dispatchvars, resultvars
<1> QED BY <1>1, <1>2, <1>4, <1>6, <1>7, <1>8

\* Every step keeps the periods of the buffer and the order on disk.
LEMMA OrderStep ==
    ASSUME ManagerInv, ManagerInv', PeriodsOK, OrderOK, WrittenInOrder, [Next]_vars
    PROVE  PeriodsOK' /\ OrderOK' /\ WrittenInOrder'
<1>1. CASE AddData
  <2>1. UNCHANGED <<wpc, writesegment, updates, written>>
    BY <1>1, AddDataIs DEF writevars
  <2> QED BY <1>1, <2>1, AddDataIs, PeriodsKept
<1>2. CASE IncrementSegment
  BY <1>2, IncrementPeriods
<1>3. CASE WriteSegment
  BY <1>3, WritePeriods
<1>4. CASE FlushSegment
  BY <1>4, FlushPeriods
<1>5. CASE ~(AddData \/ IncrementSegment \/ WriteSegment \/ FlushSegment)
  <2>1. UNCHANGED <<visbuffer, writesegment, updates, written>>
    BY <1>5 DEF Next, Main, Writer, FillUp, Terminate, Locate, LockMore, GiveUp, Drop, DropLock,
       Dropped, Resend, Acknowledge, IgnoreStale, LockAhead, ReleaseVis, StopWriter, UnlockAll,
       JoinWriter, Receive, Interrupt, Finished, vars, writevars, CheckWriting, LockSegment,
       UnlockPrevSegment, UnlockLast
  <2>2. wpc' = wpc \/ (wpc \in {"check", "lock", "unlockprev", "flush"} /\
                       wpc' \in {"lock", "unlockprev", "write", "flush", "flushing"})
    BY <1>5 DEF Next, Main, Writer, FillUp, Terminate, Locate, LockMore, GiveUp, Drop, DropLock,
       Dropped, Resend, Acknowledge, IgnoreStale, LockAhead, ReleaseVis, StopWriter, UnlockAll,
       JoinWriter, Receive, Interrupt, Finished, vars, writevars, CheckWriting, LockSegment,
       UnlockPrevSegment, UnlockLast
  <2> QED BY <2>1, <2>2, PeriodsKept
<1> QED BY <1>1, <1>2, <1>3, <1>4, <1>5

\* The constructor makes each Visibility a period after the one before it.
LEMMA OrderInit ==
    ASSUME Init
    PROVE  PeriodsOK /\ OrderOK /\ WrittenInOrder
<1>1. /\ VisBufferLength \in Nat /\ VisBufferLength >= 4
      /\ visbuffer = [v \in Vis |-> NewVis[v]] /\ wpc = "check" /\ writesegment = 0
      /\ updates = 0 /\ written = <<>>
  BY VisBufferLengthAssumption DEF Init
<1>2. ASSUME NEW i \in 0 .. VisBufferLength - 1 PROVE Ahead(i) = NewVis[i]
  <2>1. (0 + i) % VisBufferLength = i /\ i \in Vis /\ i \in Nat
    BY <1>1 DEF Vis
  <2>2. Ahead(i) = Zeroed(NewVis[i])
    BY <1>1, <2>1 DEF Ahead
  <2>3. NewVis[i] \in GoodVis /\ NewVis[i].got = {}
    BY <2>1, NewVisType
  <2>4. Zeroed(NewVis[i]) = NewVis[i]
    BY <2>3, VisParts
  <2> QED BY <2>2, <2>4
<1>3. \A i \in 0 .. VisBufferLength - 2 : Ahead(i + 1) = UpdateTime(Ahead(i))
  <2> SUFFICES ASSUME NEW i \in 0 .. VisBufferLength - 2 PROVE Ahead(i + 1) = UpdateTime(Ahead(i))
    OBVIOUS
  <2>1. i \in 0 .. VisBufferLength - 1 /\ i + 1 \in 0 .. VisBufferLength - 1 /\ i \in Nat
    BY <1>1
  <2> QED BY <1>2, <2>1, NewVisType
<1>4. PeriodsOK
  <2>1. \A i \in 1 .. VisBufferLength - 2 : i \in 0 .. VisBufferLength - 2
    OBVIOUS
  <2>2. Ahead(1) = UpdateTime(Ahead(0))
    <3>1. 0 \in 0 .. VisBufferLength - 2 /\ 0 + 1 = 1
      BY <1>1
    <3> QED BY <1>3, <3>1
  <2> QED BY <1>1, <1>3, <2>1, <2>2 DEF PeriodsOK
<1>5. OrderOK /\ WrittenInOrder
  BY <1>1 DEF OrderOK, WrittenInOrder
<1> QED BY <1>4, <1>5
-------------------------------------------------------------------------------
(* Results.                                                                    *)

\* What a step that appends to the disk leaves there.
LEMMA WritedataIs ==
    ASSUME written \in Seq(VisType), NEW v \in VisType, Writedata(v)
    PROVE  \/ ToWrite(v) /\ written' = Append(written, v) /\ Len(written') = Len(written) + 1
              /\ Len(written) \in Nat /\ written'[Len(written) + 1] = v
              /\ \A i \in 1 .. Len(written) : written'[i] = written[i]
           \/ ~ToWrite(v) /\ written' = written
<1>1. Len(written) \in Nat
  OBVIOUS
<1>2. CASE ToWrite(v)
  <2>1. written' = Append(written, v)
    BY <1>2 DEF Writedata
  <2> QED BY <1>1, <1>2, <2>1
<1>3. CASE ~ToWrite(v)
  BY <1>3 DEF Writedata
<1> QED BY <1>2, <1>3

\* A step that moves no result into the buffer.
LEMMA ShareKept ==
    ASSUME ShareOK, WrittenOnce, written' = written,
           \A v \in Vis : visbuffer'[v].got \subseteq visbuffer[v].got,
           \A v \in Vis : JustWritten(v) => JustWritten(v)' \/ visbuffer'[v].got = {}
    PROVE  ShareOK' /\ WrittenOnce'
<1>1. ASSUME NEW u \in Vis, NEW v \in Vis, u # v
      PROVE  visbuffer'[u].got \cap visbuffer'[v].got = {}
  <2>1. visbuffer[u].got \cap visbuffer[v].got = {}
    BY <1>1 DEF ShareOK
  <2> QED BY <2>1
<1>2. ASSUME NEW v \in Vis, ~JustWritten(v)', NEW i \in 1 .. Len(written')
      PROVE  visbuffer'[v].got \cap written'[i].got = {}
  <2>1. CASE visbuffer'[v].got = {}
    BY <2>1
  <2>2. CASE ~JustWritten(v)
    <3>1. visbuffer[v].got \cap written[i].got = {}
      BY <2>2 DEF ShareOK
    <3> QED BY <3>1
  <2> QED BY <1>2, <2>1, <2>2
<1>3. WrittenOnce'
  BY DEF WrittenOnce
<1> QED BY <1>1, <1>2, <1>3 DEF ShareOK

\* A step that writes a Visibility which had not been.
LEMMA ShareWritten ==
    ASSUME ManagerInv, ShareOK, WrittenOnce, UNCHANGED visbuffer,
           NEW v \in Vis, Writedata(visbuffer[v]), ~JustWritten(v),
           \A w \in Vis : JustWritten(w) \/ (w = v /\ ToWrite(visbuffer[v])) => JustWritten(w)'
    PROVE  ShareOK' /\ WrittenOnce'
<1>1. written \in Seq(VisType) /\ visbuffer[v] \in VisType
  BY BufferIs
<1>2. \A i \in 1 .. Len(written) : visbuffer[v].got \cap written[i].got = {}
  BY DEF ShareOK
<1>3. CASE ~ToWrite(visbuffer[v])
  <2>1. written' = written
    BY <1>1, <1>3, WritedataIs
  <2> QED BY <2>1, ShareKept
<1>4. CASE ToWrite(visbuffer[v])
  <2> DEFINE n == Len(written)
  <2>1. /\ n \in Nat /\ Len(written') = n + 1 /\ written'[n + 1] = visbuffer[v]
        /\ \A i \in 1 .. n : written'[i] = written[i]
    BY <1>1, <1>4, WritedataIs
  <2> HIDE DEF n
  <2>2. \A i \in 1 .. Len(written') : i \in 1 .. n \/ i = n + 1
    BY <2>1
  <2>3. ASSUME NEW w \in Vis, ~JustWritten(w)', NEW i \in 1 .. Len(written')
        PROVE  visbuffer'[w].got \cap written'[i].got = {}
    <3>1. w # v /\ ~JustWritten(w)
      BY <1>4, <2>3
    <3>2. CASE i \in 1 .. n
      <4>1. visbuffer[w].got \cap written[i].got = {}
        BY <3>1, <3>2 DEF ShareOK, n
      <4> QED BY <2>1, <3>2, <4>1
    <3>3. CASE i = n + 1
      <4>1. visbuffer[w].got \cap visbuffer[v].got = {}
        BY <3>1 DEF ShareOK
      <4> QED BY <2>1, <3>3, <4>1
    <3> QED BY <2>2, <3>2, <3>3
  <2>4. ASSUME NEW i \in 1 .. Len(written'), NEW j \in 1 .. Len(written'), i # j
        PROVE  written'[i].got \cap written'[j].got = {}
    <3>1. CASE i \in 1 .. n /\ j \in 1 .. n
      <4>1. written[i].got \cap written[j].got = {}
        BY <2>4, <3>1 DEF WrittenOnce, n
      <4> QED BY <2>1, <3>1, <4>1
    <3>2. CASE i \in 1 .. n /\ j = n + 1
      <4>1. visbuffer[v].got \cap written[i].got = {}
        BY <1>2, <3>2 DEF n
      <4> QED BY <2>1, <3>2, <4>1
    <3>3. CASE j \in 1 .. n /\ i = n + 1
      <4>1. visbuffer[v].got \cap written[j].got = {}
        BY <1>2, <3>3 DEF n
      <4> QED BY <2>1, <3>3, <4>1
    <3> QED BY <2>2, <2>4, <3>1, <3>2, <3>3
  <2>5. \A u, w \in Vis : u # w => visbuffer'[u].got \cap visbuffer'[w].got = {}
    BY DEF ShareOK
  <2> QED BY <2>3, <2>4, <2>5 DEF ShareOK, WrittenOnce
<1> QED BY <1>3, <1>4

\* What increment does to the data.
LEMMA IncrementData ==
    ASSUME ManagerInv, IncrementSegment
    PROVE  /\ \A v \in Vis : visbuffer'[v].got \subseteq visbuffer[v].got
           /\ ~PastEnd(visbuffer[writesegment]) => visbuffer'[writesegment].got = {}
<1>1. /\ visbuffer \in [Vis -> VisType] /\ writesegment \in Vis
      /\ \A v \in Vis : visbuffer[v] \in GoodVis
  BY BufferIs
<1>2. CASE PastEnd(visbuffer[writesegment])
  <2>1. visbuffer' = visbuffer
    BY <1>2 DEF IncrementSegment
  <2> QED BY <1>2, <2>1
<1>3. CASE ~PastEnd(visbuffer[writesegment])
  <2>1. PICK w \in GoodVis : w = UpdateTime(visbuffer[writesegment])
    BY <1>1, UpdateTimeType
  <2>2. visbuffer' = [visbuffer EXCEPT ![writesegment] = Zeroed(w)]
    BY <1>3, <2>1 DEF IncrementSegment
  <2>3. Zeroed(w).got = {}
    BY ZeroedIs
  <2> HIDE DEF Zeroed
  <2> QED BY <1>1, <2>2, <2>3
<1> QED BY <1>2, <1>3

\* No step puts a result into two Visibilities, or on disk twice.
LEMMA ShareStep ==
    ASSUME ManagerInv, ManagerInv', PeriodsOK, OneResult, ShareOK, WrittenOnce, [Next]_vars
    PROVE  ShareOK' /\ WrittenOnce'
<1>0. /\ VisBufferLength \in Nat /\ writesegment \in Vis /\ updates \in 0 .. VisBufferLength - 1
      /\ \A v \in Vis : visbuffer[v] \in GoodVis
  BY BufferIs
<1>1. CASE AddData
  <2>1. /\ visindex \in Vis /\ mpc = "add" /\ result \in Subints
        /\ visbuffer'[visindex].got = visbuffer[visindex].got \cup {result}
        /\ \A v \in Vis \ {visindex} : visbuffer'[v] = visbuffer[v]
        /\ \A v \in Vis : Zeroed(visbuffer'[v]) = Zeroed(visbuffer[v])
        /\ UNCHANGED <<wpc, writesegment, updates, written>>
    BY <1>1, AddDataIs DEF writevars
  <2>2. ~Stored(result)
    BY <2>1 DEF OneResult, Receiving
  <2>3. /\ \A v \in Vis : result \notin visbuffer[v].got
        /\ \A i \in 1 .. Len(written) : result \notin written[i].got
    BY <2>2 DEF Stored
  <2>4. ASSUME NEW v \in Vis PROVE JustWritten(v)' <=> JustWritten(v)
    <3>1. visbuffer[v] \in GoodVis /\ visbuffer'[v] \in GoodVis
      BY BufferIs, <1>0 DEF ManagerInv, TypeOK, ScansOK, GoodVis, ScanOK
    <3>2. PastEnd(visbuffer'[v]) <=> PastEnd(visbuffer[v])
      <4>1. PastEnd(visbuffer[v]) <=> PastEnd(Zeroed(visbuffer[v]))
        BY <3>1, ZeroedIs
      <4>2. PastEnd(visbuffer'[v]) <=> PastEnd(Zeroed(visbuffer'[v]))
        BY <3>1, ZeroedIs
      <4> QED BY <2>1, <4>1, <4>2
    <3> QED BY <2>1, <3>2 DEF JustWritten, Window, PastEnd
  <2>5. ASSUME NEW u \in Vis, NEW v \in Vis, u # v
        PROVE  visbuffer'[u].got \cap visbuffer'[v].got = {}
    <3>1. visbuffer[u].got \cap visbuffer[v].got = {}
      BY <2>5 DEF ShareOK
    <3>2. \/ visbuffer'[u].got = visbuffer[u].got /\ visbuffer'[v].got \subseteq visbuffer[v].got \cup {result}
          \/ visbuffer'[v].got = visbuffer[v].got /\ visbuffer'[u].got \subseteq visbuffer[u].got \cup {result}
      BY <2>1, <2>5
    <3> QED BY <2>3, <3>1, <3>2
  <2>6. ASSUME NEW v \in Vis, ~JustWritten(v)', NEW i \in 1 .. Len(written')
        PROVE  visbuffer'[v].got \cap written'[i].got = {}
    <3>1. visbuffer[v].got \cap written[i].got = {}
      BY <2>1, <2>4, <2>6 DEF ShareOK
    <3>2. visbuffer'[v].got \subseteq visbuffer[v].got \cup {result} /\ written'[i] = written[i]
      BY <2>1
    <3>3. result \notin written[i].got
      BY <2>1, <2>3
    <3> QED BY <3>1, <3>2, <3>3
  <2>7. WrittenOnce'
    BY <2>1 DEF WrittenOnce
  <2> QED BY <2>5, <2>6, <2>7 DEF ShareOK
<1>2. CASE IncrementSegment
  <2>1. /\ wpc = "increment" /\ written' = written
        /\ \A v \in Vis : visbuffer'[v].got \subseteq visbuffer[v].got
        /\ ~PastEnd(visbuffer[writesegment]) => visbuffer'[writesegment].got = {}
    BY <1>2, IncrementData DEF IncrementSegment
  <2>2. \A v \in Vis : JustWritten(v) => v = writesegment /\ ~PastEnd(visbuffer[v])
    BY <2>1 DEF JustWritten
  <2> QED BY <2>1, <2>2, ShareKept
<1>3. CASE WriteSegment
  <2>1. /\ wpc = "write" /\ wpc' = "increment" /\ updates' = 0 /\ UNCHANGED <<visbuffer, writesegment>>
        /\ Writedata(visbuffer[writesegment])
    BY <1>3 DEF WriteSegment, PeriodsOK
  <2>2. \A v \in Vis : ~JustWritten(v)
    BY <2>1 DEF JustWritten
  <2>3. ToWrite(visbuffer[writesegment]) => JustWritten(writesegment)'
    BY <2>1 DEF ToWrite, JustWritten
  <2> QED BY <1>0, <2>1, <2>2, <2>3, ShareWritten
<1>4. CASE FlushSegment
  <2>1. PICK u \in 0 .. VisBufferLength - 1 : u = updates
    BY <1>0
  <2>2. PICK p \in Vis : p = Place(writesegment, u) /\ Window(writesegment, p) = u
    BY <1>0, PlaceFacts
  <2>3. /\ wpc = "flushing" /\ UNCHANGED <<visbuffer, writesegment>> /\ Writedata(visbuffer[p])
        /\ wpc' = "ended" \/ (wpc' = "flushing" /\ updates' = u + 1)
    BY <1>4, <2>1, <2>2 DEF FlushSegment, ToFlush, Place
  <2>4. ~JustWritten(p)
    BY <2>1, <2>2, <2>3 DEF JustWritten
  <2>5. ASSUME NEW w \in Vis, JustWritten(w) \/ w = p PROVE JustWritten(w)'
    <3>1. Window(writesegment, w) \in Int /\ Window(writesegment, w) <= u
      <4>1. Window(writesegment, w) \in Int
        BY <1>0, WindowIs
      <4>2. JustWritten(w) => Window(writesegment, w) < u
        BY <2>1, <2>3 DEF JustWritten
      <4> QED BY <2>2, <2>5, <4>1, <4>2
    <3>2. CASE wpc' = "ended"
      BY <3>2 DEF JustWritten
    <3>3. CASE wpc' = "flushing" /\ updates' = u + 1
      <4>1. Window(writesegment', w) < updates'
        BY <2>3, <3>1, <3>3
      <4> QED BY <3>3, <4>1 DEF JustWritten, Window
    <3> QED BY <2>3, <3>2, <3>3
  <2> QED BY <2>3, <2>4, <2>5, ShareWritten
<1>5. CASE ~(AddData \/ IncrementSegment \/ WriteSegment \/ FlushSegment)
  <2>1. UNCHANGED <<visbuffer, writesegment, updates, written>>
    BY <1>5 DEF Next, Main, Writer, FillUp, Terminate, Locate, LockMore, GiveUp, Drop, DropLock,
       Dropped, Resend, Acknowledge, IgnoreStale, LockAhead, ReleaseVis, StopWriter, UnlockAll,
       JoinWriter, Receive, Interrupt, Finished, vars, writevars, CheckWriting, LockSegment,
       UnlockPrevSegment, UnlockLast
  <2>2. wpc' = wpc \/ wpc \in {"check", "lock", "unlockprev", "flush"}
    BY <1>5 DEF Next, Main, Writer, FillUp, Terminate, Locate, LockMore, GiveUp, Drop, DropLock,
       Dropped, Resend, Acknowledge, IgnoreStale, LockAhead, ReleaseVis, StopWriter, UnlockAll,
       JoinWriter, Receive, Interrupt, Finished, vars, writevars, CheckWriting, LockSegment,
       UnlockPrevSegment, UnlockLast
  <2>3. \A v \in Vis : JustWritten(v) => JustWritten(v)'
    BY <2>1, <2>2 DEF JustWritten, Window, PastEnd
  <2> QED BY <2>1, <2>3, ShareKept
<1> QED BY <1>1, <1>2, <1>3, <1>4, <1>5
\* The main thread holds a result it is still to add.
Holding == mpc \in Receiving \ {"ahead", "release"}

\* A step that queues nothing, stores nothing and takes up no result.
LEMMA OneResultKept ==
    ASSUME OneResult, UNCHANGED <<inflight, next>>,
           \A k \in Subints : Stored(k)' => Stored(k),
           Holding' => Holding /\ result' = result /\ result \in Subints
    PROVE  OneResult'
<1>1. \A k : Queued(k)' <=> Queued(k)
  BY DEF Queued
<1>2. \A c, d \in Cores : \A i \in 1 .. Len(inflight'[c]), j \in 1 .. Len(inflight'[d]) :
          inflight'[c][i] = inflight'[d][j] => c = d /\ i = j
  BY DEF OneResult
<1>3. \A k \in Subints : (Queued(k)' \/ Stored(k)' => k < next') /\ ~(Queued(k)' /\ Stored(k)')
  BY <1>1 DEF OneResult
<1>4. ASSUME Holding' PROVE result' < next' /\ ~Queued(result)' /\ ~Stored(result)'
  <2>1. PICK k \in Subints : k = result /\ k = result'
    BY <1>4
  <2>2. k < next /\ ~Queued(k) /\ ~Stored(k)
    BY <1>4, <2>1 DEF OneResult, Holding
  <2>3. Queued(result)' = Queued(k)' /\ Stored(result)' = Stored(k)'
    BY <2>1 DEF Queued, Stored
  <2> QED BY <1>1, <2>1, <2>2, <2>3
<1> QED BY <1>2, <1>3, <1>4 DEF OneResult, Holding, Receiving

\* A step that sends a new subintegration to a Core.
LEMMA OneResultSent ==
    ASSUME ManagerInv, OneResult, NEW c \in Cores, SendData(c), UNCHANGED <<visbuffer, written, result>>,
           next \in Subints, Holding' => Holding /\ result \in Subints
    PROVE  OneResult'
<1>1. next \in Int /\ \A k \in Subints : k \in Int
  BY DEF Subints
<1>2. inflight \in [Cores -> Seq(Subints)]
  BY DEF ManagerInv, TypeOK
<1>3. PICK q \in Seq(Subints) : q = inflight[c]
  BY <1>2
<1>4. /\ inflight'[c] = Append(q, next) /\ \A d \in Cores \ {c} : inflight'[d] = inflight[d]
      /\ next' = next + 1
  BY <1>2, <1>3 DEF SendData
<1>5. /\ Len(q) \in Nat /\ Len(inflight'[c]) = Len(q) + 1 /\ inflight'[c][Len(q) + 1] = next
      /\ \A i \in 1 .. Len(q) : inflight'[c][i] = inflight[c][i]
  BY <1>3, <1>4
<1>6. \A i \in 1 .. Len(inflight'[c]) : i \in 1 .. Len(q) \/ i = Len(q) + 1
  BY <1>5
<1>7. ASSUME NEW d \in Cores, NEW i \in 1 .. Len(inflight'[d])
      PROVE  \/ i \in 1 .. Len(inflight[d]) /\ inflight'[d][i] = inflight[d][i]
             \/ d = c /\ i = Len(q) + 1 /\ inflight'[d][i] = next
  BY <1>3, <1>4, <1>5, <1>6
<1>8. ASSUME NEW d \in Cores, NEW i \in 1 .. Len(inflight[d]) PROVE inflight[d][i] # next
  <2>1. inflight[d] \in Seq(Subints)
    BY <1>2
  <2>2. inflight[d][i] \in Subints
    BY <2>1
  <2>3. Queued(inflight[d][i])
    BY DEF Queued
  <2>4. inflight[d][i] < next
    BY <2>2, <2>3 DEF OneResult
  <2> QED BY <1>1, <2>2, <2>4
<1>9. ASSUME NEW a \in Cores, NEW b \in Cores, NEW i \in 1 .. Len(inflight'[a]),
             NEW j \in 1 .. Len(inflight'[b]), inflight'[a][i] = inflight'[b][j]
      PROVE  a = b /\ i = j
  <2>1. CASE i \in 1 .. Len(inflight[a]) /\ inflight'[a][i] = inflight[a][i]
    <3>1. CASE j \in 1 .. Len(inflight[b]) /\ inflight'[b][j] = inflight[b][j]
      <4>1. inflight[a][i] = inflight[b][j]
        BY <1>9, <2>1, <3>1
      <4>2. \A d, e \in Cores : \A x \in 1 .. Len(inflight[d]), y \in 1 .. Len(inflight[e]) :
               inflight[d][x] = inflight[e][y] => d = e /\ x = y
        BY DEF OneResult
      <4> QED BY <2>1, <3>1, <4>1, <4>2
    <3>2. CASE inflight'[b][j] = next
      BY <1>8, <1>9, <2>1, <3>2
    <3> QED BY <1>7, <3>1, <3>2
  <2>2. CASE a = c /\ i = Len(q) + 1 /\ inflight'[a][i] = next
    <3>1. CASE j \in 1 .. Len(inflight[b]) /\ inflight'[b][j] = inflight[b][j]
      BY <1>8, <1>9, <2>2, <3>1
    <3>2. CASE b = c /\ j = Len(q) + 1
      BY <2>2, <3>2
    <3> QED BY <1>7, <3>1, <3>2
  <2> QED BY <1>7, <2>1, <2>2
<1>10. \A k \in Subints : (Queued(k)' => Queued(k) \/ k = next) /\ (Stored(k)' <=> Stored(k))
  <2>1. \A k \in Subints : Stored(k)' <=> Stored(k)
    BY DEF Stored
  <2>2. ASSUME NEW k \in Subints, Queued(k)' PROVE Queued(k) \/ k = next
    <3>1. PICK d \in Cores : \E i \in 1 .. Len(inflight'[d]) : inflight'[d][i] = k
      BY <2>2 DEF Queued
    <3>2. PICK i \in 1 .. Len(inflight'[d]) : inflight'[d][i] = k
      BY <3>1
    <3> QED BY <1>7, <3>2 DEF Queued
  <2> QED BY <2>1, <2>2
<1>11. ASSUME NEW k \in Subints
       PROVE  (Queued(k)' \/ Stored(k)' => k < next') /\ ~(Queued(k)' /\ Stored(k)')
  <2>1. (Queued(k) \/ Stored(k) => k < next) /\ ~(Queued(k) /\ Stored(k))
    BY DEF OneResult
  <2>2. ~(next < next) /\ (k < next => k < next + 1) /\ next < next + 1
    BY <1>1
  <2> QED BY <1>4, <1>10, <2>1, <2>2
<1>12. ASSUME Holding' PROVE result' < next' /\ ~Queued(result)' /\ ~Stored(result)'
  <2>1. PICK k \in Subints : k = result /\ k = result'
    BY <1>12
  <2>2. k < next /\ ~Queued(k) /\ ~Stored(k)
    BY <1>12, <2>1 DEF OneResult, Holding
  <2>3. Queued(result)' = Queued(k)' /\ Stored(result)' = Stored(k)'
    BY <2>1 DEF Queued, Stored
  <2>4. k < next + 1 /\ k # next
    BY <1>1, <2>2
  <2> QED BY <1>4, <1>10, <2>1, <2>2, <2>3, <2>4
<1> QED BY <1>9, <1>11, <1>12 DEF OneResult, Holding, Receiving

\* A step that receives the result of a Core.
LEMMA OneResultReceived ==
    ASSUME ManagerInv, OneResult, NEW c \in Cores, Receive(c)
    PROVE  OneResult'
<1>1. inflight \in [Cores -> Seq(Subints)]
  BY DEF ManagerInv, TypeOK
<1>2. PICK q \in Seq(Subints) : q = inflight[c]
  BY <1>1
<1>3. /\ q # <<>> /\ result' = Head(q) /\ inflight'[c] = Tail(q)
      /\ \A d \in Cores \ {c} : inflight'[d] = inflight[d]
      /\ UNCHANGED <<next, visbuffer, written>>
  BY <1>1, <1>2 DEF Receive, writevars
<1>4. /\ Len(q) \in Nat /\ 1 \in 1 .. Len(q) /\ result' = inflight[c][1] /\ result' \in Subints
      /\ Len(inflight'[c]) = Len(q) - 1
      /\ \A i \in 1 .. Len(q) - 1 : inflight'[c][i] = inflight[c][i + 1]
  BY <1>2, <1>3
<1>5. ASSUME NEW d \in Cores, NEW i \in 1 .. Len(inflight'[d])
      PROVE  /\ d = c => i + 1 \in 1 .. Len(inflight[d]) /\ inflight'[d][i] = inflight[d][i + 1]
             /\ d # c => i \in 1 .. Len(inflight[d]) /\ inflight'[d][i] = inflight[d][i]
  <2>1. CASE d = c
    <3>1. i \in 1 .. Len(q) - 1 /\ i + 1 \in 1 .. Len(q)
      BY <1>4, <2>1
    <3> QED BY <1>2, <1>4, <2>1, <3>1
  <2>2. CASE d # c
    <3>1. inflight'[d] = inflight[d]
      BY <1>3, <2>2
    <3> QED BY <2>2, <3>1
  <2> QED BY <2>1, <2>2
<1>6. \A a, b \in Cores : \A i \in 1 .. Len(inflight[a]), j \in 1 .. Len(inflight[b]) :
          inflight[a][i] = inflight[b][j] => a = b /\ i = j
  BY DEF OneResult
<1>7. ASSUME NEW a \in Cores, NEW b \in Cores, NEW i \in 1 .. Len(inflight'[a]),
             NEW j \in 1 .. Len(inflight'[b]), inflight'[a][i] = inflight'[b][j]
      PROVE  a = b /\ i = j
  <2>1. i \in Int /\ j \in Int
    OBVIOUS
  <2>2. CASE a = c /\ b = c
    <3>1. /\ i + 1 \in 1 .. Len(inflight[c]) /\ inflight'[c][i] = inflight[c][i + 1]
          /\ j + 1 \in 1 .. Len(inflight[c]) /\ inflight'[c][j] = inflight[c][j + 1]
      BY <1>5, <2>2
    <3>2. inflight[c][i + 1] = inflight[c][j + 1]
      BY <1>7, <2>2, <3>1
    <3>3. i + 1 = j + 1
      BY <1>6, <3>1, <3>2
    <3> QED BY <2>1, <2>2, <3>3
  <2>3. CASE a = c /\ b # c
    BY <1>5, <1>6, <1>7, <2>3
  <2>4. CASE a # c /\ b = c
    BY <1>5, <1>6, <1>7, <2>4
  <2>5. CASE a # c /\ b # c
    BY <1>5, <1>6, <1>7, <2>5
  <2> QED BY <2>2, <2>3, <2>4, <2>5
<1>8. ASSUME NEW k \in Subints, Queued(k)' PROVE Queued(k) /\ k # result'
  <2>1. PICK d \in Cores : \E i \in 1 .. Len(inflight'[d]) : inflight'[d][i] = k
    BY <1>8 DEF Queued
  <2>0. PICK i \in 1 .. Len(inflight'[d]) : inflight'[d][i] = k
    BY <2>1
  <2>2. CASE d = c
    <3>1. i + 1 \in 1 .. Len(inflight[c]) /\ k = inflight[c][i + 1] /\ i + 1 # 1
      BY <1>5, <2>0, <2>2
    <3>2. k # inflight[c][1]
      BY <1>2, <1>4, <1>6, <3>1
    <3> QED BY <1>4, <3>1, <3>2 DEF Queued
  <2>3. CASE d # c
    <3>1. i \in 1 .. Len(inflight[d]) /\ k = inflight[d][i]
      BY <1>5, <2>0, <2>3
    <3>2. k # inflight[c][1]
      BY <1>2, <1>4, <1>6, <2>3, <3>1
    <3> QED BY <1>4, <3>1, <3>2 DEF Queued
  <2> QED BY <2>2, <2>3
<1>9. \A k \in Subints : Stored(k)' <=> Stored(k)
  BY <1>3 DEF Stored
<1>10. \A k \in Subints : (Queued(k)' \/ Stored(k)' => k < next') /\ ~(Queued(k)' /\ Stored(k)')
  BY <1>3, <1>8, <1>9 DEF OneResult
<1>11. PICK k \in Subints : k = result'
  BY <1>4
<1>12. result' < next' /\ ~Queued(result)' /\ ~Stored(result)'
  <2>1. Queued(k)
    BY <1>2, <1>4, <1>11 DEF Queued
  <2>2. k < next /\ ~Stored(k)
    BY <2>1 DEF OneResult
  <2>3. Queued(result)' = Queued(k)' /\ Stored(result)' = Stored(k)'
    BY <1>11 DEF Queued, Stored
  <2> QED BY <1>3, <1>8, <1>9, <1>11, <2>2, <2>3
<1> QED BY <1>7, <1>10, <1>12 DEF OneResult

\* The result is added to a Visibility.
LEMMA OneResultAdded ==
    ASSUME ManagerInv, OneResult, AddData
    PROVE  OneResult'
<1>1. /\ visindex \in Vis /\ result \in Subints /\ mpc = "add"
      /\ visbuffer'[visindex].got = visbuffer[visindex].got \cup {result}
      /\ \A v \in Vis \ {visindex} : visbuffer'[v] = visbuffer[v]
      /\ UNCHANGED <<written, inflight, next>>
  BY AddDataIs DEF writevars
<1>2. mpc' \notin Receiving \ {"ahead", "release"}
  BY DEF AddData, Return, Receiving
<1>3. result < next /\ ~Queued(result)
  BY <1>1 DEF OneResult, Receiving
<1>4. \A k : Queued(k)' <=> Queued(k)
  BY <1>1 DEF Queued
<1>5. ASSUME NEW k \in Subints, Stored(k)' PROVE Stored(k) \/ k = result
  <2>1. CASE \E v \in Vis : k \in visbuffer'[v].got
    BY <1>1, <2>1 DEF Stored
  <2>2. CASE \E i \in 1 .. Len(written') : k \in written'[i].got
    BY <1>1, <2>2 DEF Stored
  <2> QED BY <1>5, <2>1, <2>2 DEF Stored
<1>6. \A k \in Subints : (Queued(k)' \/ Stored(k)' => k < next') /\ ~(Queued(k)' /\ Stored(k)')
  BY <1>1, <1>3, <1>4, <1>5 DEF OneResult
<1>7. \A c, d \in Cores : \A i \in 1 .. Len(inflight'[c]), j \in 1 .. Len(inflight'[d]) :
          inflight'[c][i] = inflight'[d][j] => c = d /\ i = j
  BY <1>1 DEF OneResult
<1> QED BY <1>2, <1>6, <1>7 DEF OneResult, Receiving

\* The write thread stores nothing new.
LEMMA WriterStores ==
    ASSUME ManagerInv, IncrementSegment \/ WriteSegment \/ FlushSegment
    PROVE  \A k \in Subints : Stored(k)' => Stored(k)
<1>0. /\ VisBufferLength \in Nat /\ writesegment \in Vis /\ updates \in 0 .. VisBufferLength - 1
      /\ written \in Seq(VisType) /\ \A v \in Vis : visbuffer[v] \in VisType
  BY BufferIs
<1>1. CASE IncrementSegment
  <2>1. written' = written /\ \A v \in Vis : visbuffer'[v].got \subseteq visbuffer[v].got
    BY <1>1, IncrementData DEF IncrementSegment
  <2> QED BY <2>1 DEF Stored
<1>2. ASSUME NEW v \in Vis, Writedata(visbuffer[v]), UNCHANGED visbuffer,
             NEW k \in Subints, Stored(k)'
      PROVE  Stored(k)
  <2>1. CASE \E u \in Vis : k \in visbuffer'[u].got
    BY <1>2, <2>1 DEF Stored
  <2>2. CASE \E i \in 1 .. Len(written') : k \in written'[i].got
    <3>1. PICK i \in 1 .. Len(written') : k \in written'[i].got
      BY <2>2
    <3>2. (i \in 1 .. Len(written) /\ written'[i] = written[i]) \/ written'[i] = visbuffer[v]
      <4>1. Len(written) \in Nat
        BY <1>0
      <4>2. i \in 1 .. Len(written) \/ i = Len(written) + 1 \/ written' = written
        BY <1>0, <1>2, <4>1, WritedataIs
      <4> QED BY <1>0, <1>2, <4>2, WritedataIs
    <3> QED BY <3>1, <3>2 DEF Stored
  <2> QED BY <1>2, <2>1, <2>2 DEF Stored
<1>3. CASE WriteSegment
  <2>1. PICK v \in Vis : v = writesegment
    BY <1>0
  <2>2. Writedata(visbuffer[v]) /\ UNCHANGED visbuffer
    BY <1>3, <2>1 DEF WriteSegment
  <2> QED BY <1>2, <2>2
<1>4. CASE FlushSegment
  <2>1. PICK v \in Vis : v = ToFlush
    BY <1>0, PlaceIs DEF ToFlush
  <2>2. Writedata(visbuffer[v]) /\ UNCHANGED visbuffer
    BY <1>4, <2>1 DEF FlushSegment
  <2> QED BY <1>2, <2>2
<1> QED BY <1>1, <1>3, <1>4

\* Every step leaves each subintegration in one place.
LEMMA OneResultStep ==
    ASSUME ManagerInv, OneResult, [Next]_vars
    PROVE  OneResult'
<1>1. /\ Holding => result \in Subints
      /\ source \in Cores /\ NumCores \in Nat \ {0} /\ sendcount \in Nat
      /\ next \in 0 .. NumSubints /\ NumSubints \in Nat
  BY NumCoresAssumption, ScanOfIs DEF ManagerInv, DispatchInv, PhaseOK, TypeOK, Holding
<1>2. CASE FillUp
  <2>1. /\ SendData(sendcount % NumCores) /\ next < NumSubints /\ mpc' = "loop"
        /\ UNCHANGED <<visbuffer, written, result>>
    BY <1>2 DEF FillUp, More, writevars, resultvars
  <2>2. sendcount % NumCores \in Cores /\ next \in Subints
    BY <1>1, <2>1 DEF Cores, Subints
  <2>3. ~Holding'
    BY <2>1 DEF Holding, Receiving
  <2> QED BY <2>1, <2>2, <2>3, OneResultSent
<1>3. CASE Resend
  <2>1. /\ SendData(source) /\ mpc = "send" /\ UNCHANGED <<visbuffer, written, result>>
    BY <1>3 DEF Resend, writevars, resultvars
  <2>2. next < NumSubints
    BY <1>3 DEF Resend, ManagerInv, DispatchInv, PhaseOK
  <2>3. next \in Subints /\ Holding
    BY <1>1, <2>1, <2>2 DEF Subints, Holding, Receiving
  <2> QED BY <1>1, <2>1, <2>3, OneResultSent
<1>4. CASE \E c \in Cores : Receive(c)
  BY <1>4, OneResultReceived
<1>5. CASE AddData
  BY <1>5, OneResultAdded
<1>6. CASE IncrementSegment \/ WriteSegment \/ FlushSegment
  <2>1. UNCHANGED <<inflight, next, mpc, result>>
    BY <1>6 DEF IncrementSegment, WriteSegment, FlushSegment, mainside, dispatchvars, resultvars
  <2>2. \A k \in Subints : Stored(k)' => Stored(k)
    BY <1>6, WriterStores
  <2> QED BY <1>1, <2>1, <2>2, OneResultKept DEF Holding
<1>7. CASE ~(FillUp \/ Resend \/ (\E c \in Cores : Receive(c)) \/ AddData \/ IncrementSegment
             \/ WriteSegment \/ FlushSegment)
  <2>1. UNCHANGED <<visbuffer, written, inflight, next>>
    BY <1>7 DEF Next, Main, Writer, Terminate, Locate, LockMore, GiveUp, Drop, DropLock,
       Dropped, Acknowledge, IgnoreStale, LockAhead, ReleaseVis, StopWriter, UnlockAll,
       JoinWriter, Interrupt, Finished, vars, writevars, dispatchvars, mainside, CheckWriting,
       LockSegment, UnlockPrevSegment, UnlockLast
  <2>2. UNCHANGED result
    BY <1>7 DEF Next, Main, Writer, Terminate, Locate, LockMore, GiveUp, Drop, DropLock,
       Dropped, Acknowledge, IgnoreStale, LockAhead, ReleaseVis, StopWriter, UnlockAll,
       JoinWriter, Interrupt, Finished, vars, resultvars, mainside, CheckWriting,
       LockSegment, UnlockPrevSegment, UnlockLast
  <2>3. Holding' => Holding
    BY <1>7 DEF Next, Main, Writer, Terminate, Locate, LockMore, GiveUp, Drop, DropLock,
       Dropped, Acknowledge, IgnoreStale, Return, LockAhead, ReleaseVis, StopWriter, UnlockAll,
       JoinWriter, Interrupt, Finished, vars, mainside, CheckWriting, LockSegment,
       UnlockPrevSegment, UnlockLast, Holding, Receiving
  <2>4. \A k \in Subints : Stored(k)' => Stored(k)
    BY <2>1 DEF Stored
  <2> QED BY <1>1, <2>1, <2>2, <2>3, <2>4, OneResultKept
<1> QED BY <1>2, <1>3, <1>4, <1>5, <1>6, <1>7

-------------------------------------------------------------------------------
(* The theorem.                                                                *)

\* Nothing is on disk or on its way when the manager starts ...
LEMMA DiskInit == Init => DiskInv
<1> SUFFICES ASSUME Init PROVE DiskInv
  OBVIOUS
<1>1. PeriodsOK /\ OrderOK /\ WrittenInOrder
  BY OrderInit
<1>2. /\ visbuffer = [v \in Vis |-> NewVis[v]] /\ written = <<>> /\ mpc = "loop"
      /\ inflight = [c \in Cores |-> <<>>]
  BY DEF Init
<1>3. \A v \in Vis : visbuffer[v].got = {}
  <2>1. \A v \in Vis : v \in Nat /\ visbuffer[v] = NewVis[v]
    BY <1>2, VisBufferLengthAssumption DEF Vis
  <2> QED BY <2>1, NewVisType
<1>4. \A k : ~Queued(k) /\ ~Stored(k)
  BY <1>2, <1>3 DEF Queued, Stored
<1>5. OneResult
  BY <1>2, <1>4 DEF OneResult, Receiving
<1>6. ShareOK /\ WrittenOnce
  BY <1>2, <1>3 DEF ShareOK, WrittenOnce
<1> QED BY <1>1, <1>5, <1>6 DEF DiskInv

\* ... and every step of either thread keeps what is on disk right.
LEMMA DiskStep == ManagerInv /\ ManagerInv' /\ DiskInv /\ [Next]_vars => DiskInv'
<1> SUFFICES ASSUME ManagerInv, ManagerInv', DiskInv, [Next]_vars PROVE DiskInv'
  OBVIOUS
<1>1. PeriodsOK /\ OrderOK /\ WrittenInOrder /\ OneResult /\ ShareOK /\ WrittenOnce
  BY DEF DiskInv
<1>2. PeriodsOK' /\ OrderOK' /\ WrittenInOrder'
  BY <1>1, OrderStep
<1>3. OneResult'
  BY <1>1, OneResultStep
<1>4. ShareOK' /\ WrittenOnce'
  BY <1>1, ShareStep
<1> QED BY <1>2, <1>3, <1>4 DEF DiskInv

\* The buffer and the disk agree in every state of the manager: periods follow each
\* other, and each result is in one place.
THEOREM DiskInvariant == Spec => []DiskInv
<1>1. Init => DiskInv
  BY DiskInit
<1>2. ManagerInv /\ ManagerInv' /\ DiskInv /\ [Next]_vars => DiskInv'
  BY DiskStep
<1> QED BY <1>1, <1>2, ManagerInvariant, PTL DEF Spec

\* loopwrite puts integrations on disk in the order of time, each once, and no result
\* twice, however the two threads interleave, whatever scans the job has and whichever
\* Visibilities locateVisIndex gives up.
THEOREM WrittenIsRight == Spec => []WrittenRight
<1>1. DiskInv => WrittenRight
  BY DEF DiskInv, WrittenRight
<1> QED BY <1>1, DiskInvariant, PTL

-------------------------------------------------------------------------------
(* What is added to which Visibility, and what is lost.                        *)

\* What the remaining theorems suppose: all configurations have the same
\* integration time (MCFxManager_inttime.cfg and MCFxManager_expected.cfg show what
\* happens otherwise).
OneInttime == \A s \in Configured : IntTime[s] = IntTime[FirstScan]

\* The buffer has never been too short for what the Cores are ahead of each other,
\* and not even nearly (MCFxManager_drop.cfg).
NothingDropped == mpc # "drop"
Roomy == NothingDropped /\ (mpc = "locate" => ~Crowded)

InttimesOK == \A v \in Vis : visbuffer[v].inttime = IntTime[FirstScan]

\* A Visibility expects all subintegrations of its period, or more.
Expects(v) == \/ v.expected >= v.inttime
              \/ ~PastEnd(v) /\ v.expected + v.start >= ScanDuration[v.scan]
ExpectedOK == \A v \in Vis : Expects(visbuffer[v])

\* What is in a Visibility is of its period, and so is what is to be added to it.
GotBelong == \A v \in Vis : \A k \in visbuffer[v].got : Belongs(k, visbuffer[v])
LocatedBelongs == mpc \in {"send", "add"} /\ visindex >= 0 => Belongs(result, visbuffer[visindex])

\* While more are locked, the result is after the newest.
AfterNewest == mpc = "more" =>
    Difference(result, visbuffer[newest]) >= 2 * IntTime[FirstScan]

\* A Visibility with all subintegrations of its period.  Those released are.
Full(v) == \A k \in Subints : Belongs(k, v) => k \in v.got
FullReleased ==
    /\ keepwriting => \A v \in Vis : InWindow(v) /\ ~islocked[v] => Full(visbuffer[v])
    /\ mpc \in {"ahead", "release"} => Full(visbuffer[visindex])

BelongInv == /\ InttimesOK /\ ExpectedOK /\ GotBelong /\ LocatedBelongs /\ AfterNewest
             /\ FullReleased /\ WrittenBelong

-------------------------------------------------------------------------------
(* Periods and the times of subintegrations.                                   *)

\* There is a last scan with a configuration.
LEMMA LastScanIs == LastScan \in Configured
<1> DEFINE S == {NumScans - s : s \in Configured}
<1>1. NumScans \in Nat /\ Configured \subseteq 1 .. NumScans /\ Configured # {}
  BY ScansType
<1>2. S \subseteq Nat /\ S # {}
  <2>1. \A s \in Configured : NumScans - s \in Nat
    BY <1>1
  <2>2. PICK s \in Configured : TRUE
    BY <1>1
  <2>3. NumScans - s \in S
    OBVIOUS
  <2> QED BY <2>1, <2>3
<1>3. PICK x \in S : \A y \in S : x <= y
  BY <1>2, NatLeast
<1>4. PICK s \in Configured : x = NumScans - s
  BY <1>3
<1>5. \A r \in Configured : r <= s
  <2> SUFFICES ASSUME NEW r \in Configured PROVE r <= s
    OBVIOUS
  <2>1. NumScans - r \in S
    OBVIOUS
  <2>2. NumScans - s <= NumScans - r
    BY <1>3, <1>4, <2>1
  <2> QED BY <1>1, <2>2
<1> QED BY <1>4, <1>5 DEF LastScan

\* The integration time of all scans, of which no time in another scan is short.
LEMMA PeriodIs ==
    ASSUME OneInttime
    PROVE  /\ IntTime[FirstScan] \in Nat \ {0}
           /\ \A s \in Configured : s \in 1 .. NumScans /\ IntTime[s] = IntTime[FirstScan]
           /\ NumScans \in Nat /\ Far \in Int /\ Far >= 2 * IntTime[FirstScan]
<1>1. /\ FirstScan \in Configured /\ Configured \subseteq 1 .. NumScans /\ NumScans \in Nat
      /\ \A s \in 1 .. NumScans : IntTime[s] \in Nat
  BY FirstScanIs, ScansType
<1>2. IntTime[FirstScan] \in Nat \ {0}
  BY <1>1 DEF Configured
<1>3. IntTime[Longest] = IntTime[FirstScan] /\ NumSubints \in Nat
  BY LongestIs, ScanOfIs DEF OneInttime
<1> QED BY <1>1, <1>2, <1>3 DEF OneInttime, Far

\* The integration time that locateVisIndex compares with
LEMMA InttimeNsIs ==
    ASSUME ManagerInv, OneInttime, mpc \in {"locate", "more"}
    PROVE  InttimeNs = 2 * IntTime[FirstScan] /\ corevis = result /\ result \in Subints
<1>1. /\ resend => next < NumSubints
      /\ result \in Subints /\ next \in 0 .. NumSubints /\ NumSubints \in Nat /\ corevis = result
  BY ScanOfIs DEF ManagerInv, DispatchInv, PhaseOK, TypeOK, Attribution, Receiving
<1>2. resend => ScanOf(next) \in Configured
  <2>1. resend => next \in Subints
    BY <1>1 DEF Subints
  <2> QED BY <2>1, ScanOfIs
<1>3. IntTime[IF resend THEN ScanOf(next) ELSE LastScan] = IntTime[FirstScan]
  BY <1>2, LastScanIs, PeriodIs
<1> QED BY <1>1, <1>3 DEF InttimeNs

\* What locateVisIndex compares is whether a subintegration belongs to a Visibility.
LEMMA FitsBelongs ==
    ASSUME OneInttime, NEW k \in Subints, NEW v \in GoodVis, v.inttime = IntTime[FirstScan]
    PROVE  /\ Difference(k, v) \in Int
           /\ Difference(k, v) >= 0 /\ Difference(k, v) < 2 * IntTime[FirstScan] <=> Belongs(k, v)
           /\ Belongs(k, v) => ~PastEnd(v)
           /\ Difference(k, v) >= 0 => ~PastEnd(v) /\ v.scan <= ScanOf(k)
<1>1. /\ ScanOf(k) \in Configured /\ OffsetOf(k) \in Nat /\ v.scan \in Nat /\ v.start \in Nat
      /\ PastEnd(v) <=> v.scan = NumScans + 1
  BY ScanOfIs, VisParts
<1>2. ScanOf(k) \in 1 .. NumScans /\ NumScans \in Nat /\ Far \in Int /\ Far >= 2 * IntTime[FirstScan]
      /\ IntTime[FirstScan] \in Nat \ {0}
  BY <1>1, PeriodIs
<1>3. CASE ScanOf(k) > v.scan
  <2>1. Difference(k, v) = Far
    BY <1>3 DEF Difference
  <2> QED BY <1>1, <1>2, <1>3, <2>1 DEF Belongs
<1>4. CASE ScanOf(k) < v.scan
  <2>1. Difference(k, v) = -Far
    BY <1>1, <1>2, <1>4 DEF Difference
  <2> QED BY <1>1, <1>2, <1>4, <2>1 DEF Belongs
<1>5. CASE ScanOf(k) = v.scan
  <2>1. Difference(k, v) = 2 * OffsetOf(k) + 1 - 2 * v.start
    BY <1>1, <1>2, <1>5 DEF Difference
  <2> QED BY <1>1, <1>2, <1>5, <2>1 DEF Belongs
<1> QED BY <1>1, <1>2, <1>3, <1>4, <1>5

\* What is after a period is not before the next one.
LEMMA NextDifference ==
    ASSUME OneInttime, NEW k \in Subints, NEW v \in GoodVis, v.inttime = IntTime[FirstScan],
           Difference(k, v) >= 2 * IntTime[FirstScan]
    PROVE  Difference(k, UpdateTime(v)) >= 0
<1>1. /\ ScanOf(k) \in Configured /\ OffsetOf(k) \in Nat /\ OffsetOf(k) < ScanDuration[ScanOf(k)]
      /\ v.scan \in Nat /\ v.start \in Nat
  BY ScanOfIs, VisParts
<1>2. /\ ScanOf(k) \in 1 .. NumScans /\ NumScans \in Nat /\ Far \in Int /\ Far >= 2 * IntTime[FirstScan]
      /\ IntTime[FirstScan] \in Nat \ {0} /\ ScanDuration[ScanOf(k)] \in Nat
  BY <1>1, PeriodIs, ScansType
<1>3. ~PastEnd(v) /\ v.scan <= ScanOf(k)
  BY <1>2, FitsBelongs
<1>4. v.scan \in Configured
  BY <1>3, VisParts
<1> DEFINE start == v.start + v.inttime
           left == ScanDuration[v.scan] - start
           scan == NextScan(v.scan)
<1>5. /\ start \in Nat /\ left \in Int /\ scan \in Int /\ scan > v.scan
      /\ left <= 0 => UpdateTime(v).scan = scan /\ UpdateTime(v).start = 0
      /\ ~(left <= 0) => UpdateTime(v).scan = v.scan /\ UpdateTime(v).start = start
  <2>1. NumScans + 1 \in Int /\ Configured \subseteq Int
    BY ScansType
  <2>2. /\ start \in Nat /\ left \in Int /\ scan \in Configured \cup {NumScans + 1} /\ scan > v.scan
        /\ left <= 0 => UpdateTime(v) = Vis5(scan, 0, IF scan > NumScans THEN v.inttime ELSE IntTime[scan],
                                             v.inttime, v.got)
        /\ ~(left <= 0) => UpdateTime(v) =
               Vis5(v.scan, start, v.inttime, IF left < v.inttime THEN left ELSE v.inttime, v.got)
    BY <1>3, UpdateTimeIs
  <2> HIDE DEF start, left, scan
  <2>3. \A s, a, i, e, g : Vis5(s, a, i, e, g).scan = s /\ Vis5(s, a, i, e, g).start = a
    BY DEF Vis5
  <2>4. scan \in Int
    BY <2>1, <2>2
  <2>5. left <= 0 => UpdateTime(v).scan = scan /\ UpdateTime(v).start = 0
    BY <2>2, <2>3
  <2>6. ~(left <= 0) => UpdateTime(v).scan = v.scan /\ UpdateTime(v).start = start
    BY <2>2, <2>3
  <2> QED BY <2>2, <2>4, <2>5, <2>6
<1> HIDE DEF left, scan, start
<1>6. CASE ScanOf(k) = v.scan
  <2>1. 2 * OffsetOf(k) + 1 - 2 * v.start >= 2 * v.inttime
    BY <1>1, <1>2, <1>6 DEF Difference
  <2>2. OffsetOf(k) >= start
    <3> DEFINE o == OffsetOf(k)
               a == v.start
               i == v.inttime
    <3>1. o \in Nat /\ a \in Nat /\ i \in Nat /\ 2 * o + 1 - 2 * a >= 2 * i /\ start = a + i
      BY <1>1, <1>2, <2>1 DEF start
    <3> HIDE DEF o, a, i
    <3>2. o >= start
      BY <3>1
    <3> QED BY <3>2 DEF o
  <2>3. ~(left <= 0)
    BY <1>1, <1>2, <1>5, <1>6, <2>2 DEF left
  <2>4. Difference(k, UpdateTime(v)) = 2 * OffsetOf(k) + 1 - 2 * start
    BY <1>1, <1>2, <1>5, <1>6, <2>3 DEF Difference
  <2> QED BY <1>1, <1>5, <2>2, <2>4
<1>7. CASE ScanOf(k) > v.scan
  <2>1. scan <= ScanOf(k)
    BY <1>1, <1>4, <1>7, NextScanIs DEF scan
  <2>2. CASE left <= 0 /\ scan = ScanOf(k)
    <3>1. Difference(k, UpdateTime(v)) = 2 * OffsetOf(k) + 1
      BY <1>1, <1>2, <1>5, <2>2 DEF Difference
    <3> QED BY <1>1, <3>1
  <2>3. CASE ~(left <= 0 /\ scan = ScanOf(k))
    <3>1. UpdateTime(v).scan < ScanOf(k)
      BY <1>2, <1>5, <1>7, <2>1, <2>3
    <3>2. Difference(k, UpdateTime(v)) = Far
      <4>1. ScanOf(k) > UpdateTime(v).scan
        BY <1>1, <1>2, <1>5, <3>1
      <4> QED BY <4>1 DEF Difference
    <3> QED BY <1>2, <3>2
  <2> QED BY <2>2, <2>3
<1> QED BY <1>1, <1>2, <1>3, <1>6, <1>7

\* The integration time of a Visibility stays, and it expects what its period has.
LEMMA UpdateKeeps ==
    ASSUME OneInttime, NEW v \in GoodVis, v.inttime = IntTime[FirstScan], Expects(v)
    PROVE  UpdateTime(v).inttime = IntTime[FirstScan] /\ Expects(UpdateTime(v))
<1>1. CASE PastEnd(v)
  BY <1>1, ZeroedIs
<1>2. CASE ~PastEnd(v)
  <2> DEFINE start == v.start + v.inttime
             left == ScanDuration[v.scan] - start
             scan == NextScan(v.scan)
  <2>1. /\ start \in Nat /\ left \in Int /\ scan \in Configured \cup {NumScans + 1} /\ scan > v.scan
        /\ left <= 0 => UpdateTime(v) = Vis5(scan, 0, IF scan > NumScans THEN v.inttime ELSE IntTime[scan],
                                             v.inttime, v.got)
        /\ ~(left <= 0) => UpdateTime(v) =
               Vis5(v.scan, start, v.inttime, IF left < v.inttime THEN left ELSE v.inttime, v.got)
    BY <1>2, UpdateTimeIs
  <2>2. /\ v.inttime \in Nat /\ IntTime[FirstScan] \in Nat /\ v.scan \in Configured
        /\ ScanDuration[v.scan] \in Nat /\ NumScans \in Nat /\ v.scan \in 1 .. NumScans
        /\ v.start \in Nat
    BY <1>2, VisParts, PeriodIs, ScansType
  <2>3. \A s, a, i, e, g : /\ Vis5(s, a, i, e, g).scan = s /\ Vis5(s, a, i, e, g).start = a
                           /\ Vis5(s, a, i, e, g).inttime = i /\ Vis5(s, a, i, e, g).expected = e
    BY DEF Vis5
  <2>4. start + left = ScanDuration[v.scan]
    BY <2>1, <2>2
  <2> HIDE DEF start, left, scan
  <2>5. CASE left <= 0
    <3>1. scan \in Configured => ~(scan > NumScans)
      BY <2>2, PeriodIs
    <3>2. (IF scan > NumScans THEN v.inttime ELSE IntTime[scan]) = IntTime[FirstScan]
      BY <2>1, <2>2, <3>1, PeriodIs
    <3>3. UpdateTime(v).inttime = IntTime[FirstScan] /\ UpdateTime(v).expected = v.inttime
      BY <2>1, <2>3, <2>5, <3>2
    <3> QED BY <2>2, <3>3 DEF Expects
  <2>6. CASE ~(left <= 0)
    <3>1. /\ UpdateTime(v).inttime = v.inttime /\ UpdateTime(v).scan = v.scan
          /\ UpdateTime(v).start = start
          /\ UpdateTime(v).expected = IF left < v.inttime THEN left ELSE v.inttime
      BY <2>1, <2>3, <2>6
    <3>2. ~PastEnd(UpdateTime(v))
      BY <1>2, <3>1 DEF PastEnd
    <3>3. CASE left < v.inttime
      <4>1. UpdateTime(v).expected + UpdateTime(v).start >= ScanDuration[UpdateTime(v).scan]
        BY <2>1, <2>2, <2>4, <3>1, <3>3
      <4> QED BY <3>1, <3>2, <4>1 DEF Expects
    <3>4. CASE ~(left < v.inttime)
      <4>1. UpdateTime(v).expected >= UpdateTime(v).inttime
        BY <2>2, <3>1, <3>4
      <4> QED BY <3>1, <4>1 DEF Expects
    <3> QED BY <3>3, <3>4
  <2> QED BY <2>5, <2>6
<1> QED BY <1>1, <1>2

\* Visibilities that are the same but for their data are of the same period.
LEMMA SamePeriod ==
    ASSUME NEW v \in GoodVis, NEW w \in GoodVis, Zeroed(v) = Zeroed(w)
    PROVE  /\ v.scan = w.scan /\ v.start = w.start /\ v.inttime = w.inttime
           /\ v.expected = w.expected /\ (PastEnd(v) <=> PastEnd(w)) /\ (Expects(v) <=> Expects(w))
           /\ \A k : /\ Belongs(k, v) <=> Belongs(k, w)
                     /\ Difference(k, v) = Difference(k, w)
<1>1. Vis5(v.scan, v.start, v.inttime, v.expected, {}) = Vis5(w.scan, w.start, w.inttime, w.expected, {})
  BY VisParts
<1>2. \A s, a, i, e, g : /\ Vis5(s, a, i, e, g).scan = s /\ Vis5(s, a, i, e, g).start = a
                         /\ Vis5(s, a, i, e, g).inttime = i /\ Vis5(s, a, i, e, g).expected = e
  BY DEF Vis5
<1>3. v.scan = w.scan /\ v.start = w.start /\ v.inttime = w.inttime /\ v.expected = w.expected
  BY <1>1, <1>2
<1> QED BY <1>3 DEF PastEnd, Expects, Belongs, Difference

\* A Visibility is a period after the one before it, unless it is the first one after the
\* write thread's or one of the two is incremented.
LEMMA Successive ==
    ASSUME ManagerInv, PeriodsOK, NEW u \in Vis, Succ(u) # writesegment,
           u = writesegment => wpc # "increment"
    PROVE  Succ(u) \in Vis /\ Zeroed(visbuffer[Succ(u)]) = UpdateTime(Zeroed(visbuffer[u]))
<1>1. /\ writesegment \in Vis /\ VisBufferLength \in Nat /\ VisBufferLength >= 4 /\ Succ(u) \in Vis
  BY BufferIs, SuccIs
<1> DEFINE i == Window(writesegment, u)
<1>2. i \in 0 .. VisBufferLength - 1 /\ Window(writesegment, Succ(u)) = i + 1
      /\ Window(writesegment, Succ(u)) \in 0 .. VisBufferLength - 1
  BY <1>1, WindowIs, WindowFacts
<1>3. Place(writesegment, i) = u /\ Place(writesegment, i + 1) = Succ(u)
  <2>1. \A j \in 0 .. VisBufferLength - 1 :
           Place(writesegment, j) \in Vis /\ Window(writesegment, Place(writesegment, j)) = j
    BY <1>1, PlaceFacts
  <2>2. i + 1 \in 0 .. VisBufferLength - 1
    BY <1>2
  <2> HIDE DEF i
  <2>3. /\ Place(writesegment, i) \in Vis /\ Window(writesegment, Place(writesegment, i)) = i
        /\ Place(writesegment, i + 1) \in Vis /\ Window(writesegment, Place(writesegment, i + 1)) = i + 1
    BY <1>2, <2>1, <2>2
  <2>4. \A x, y \in Vis : Window(writesegment, x) = Window(writesegment, y) => x = y
    BY <1>1, WindowFacts
  <2>5. Place(writesegment, i) = u
    BY <2>3, <2>4 DEF i
  <2>6. Place(writesegment, i + 1) = Succ(u)
    BY <1>1, <1>2, <2>3, <2>4
  <2> QED BY <2>5, <2>6
<1> HIDE DEF i
<1>4. Ahead(i) = Zeroed(visbuffer[u]) /\ Ahead(i + 1) = Zeroed(visbuffer[Succ(u)])
  <2>1. i + 1 \in 0 .. VisBufferLength - 1
    BY <1>2
  <2> QED BY <1>2, <1>3, <2>1, AheadIs
<1>5. CASE i = 0
  <2>1. u = writesegment
    BY <1>1, <1>3, <1>5, PlaceFacts
  <2>2. Ahead(1) = UpdateTime(Ahead(0))
    BY <2>1 DEF PeriodsOK
  <2> QED BY <1>1, <1>4, <1>5, <2>2
<1>6. CASE i # 0
  <2>1. i \in 1 .. VisBufferLength - 2
    BY <1>1, <1>2, <1>6
  <2>2. Ahead(i + 1) = UpdateTime(Ahead(i))
    BY <2>1 DEF PeriodsOK
  <2> QED BY <1>1, <1>4, <2>2
<1> QED BY <1>5, <1>6

\* What is after a Visibility of the buffer is not before the next.
LEMMA NextNotBefore ==
    ASSUME ManagerInv, PeriodsOK, OneInttime, InttimesOK, NEW u \in Vis, Succ(u) # writesegment,
           u = writesegment => wpc # "increment", NEW k \in Subints,
           Difference(k, visbuffer[u]) >= 2 * IntTime[FirstScan]
    PROVE  Difference(k, visbuffer[Succ(u)]) >= 0
<1>1. /\ Succ(u) \in Vis /\ Zeroed(visbuffer[Succ(u)]) = UpdateTime(Zeroed(visbuffer[u]))
      /\ visbuffer[u] \in GoodVis /\ visbuffer[Succ(u)] \in GoodVis
      /\ visbuffer[u].inttime = IntTime[FirstScan]
  BY Successive, BufferIs DEF InttimesOK
<1>2. Difference(k, UpdateTime(visbuffer[u])) >= 0
  BY <1>1, NextDifference
<1>3. UpdateTime(visbuffer[u]) \in GoodVis
  BY <1>1, UpdateTimeType
<1>4. Zeroed(visbuffer[Succ(u)]) = Zeroed(UpdateTime(visbuffer[u]))
  BY <1>1, ZeroedIs
<1> QED BY <1>1, <1>2, <1>3, <1>4, SamePeriod

\* A complete Visibility has all subintegrations of its period.
LEMMA CompleteIsFull ==
    ASSUME NEW v \in GoodVis, Expects(v), \A k \in v.got : Belongs(k, v),
           NEW r \in Subints, Belongs(r, v), r \notin v.got, Complete(v)
    PROVE  \A k \in Subints : Belongs(k, v) => k \in v.got \cup {r}
<1>1. /\ v.got \subseteq Subints /\ v.start \in Nat /\ v.inttime \in Nat /\ v.expected \in Nat
      /\ ScanOf(r) = v.scan /\ v.scan \in Configured /\ NumSubints \in Nat
  BY VisParts, ScanOfIs DEF Belongs
<1>2. ScanStart[v.scan] \in Nat /\ ScanDuration[v.scan] \in Nat
  <2>1. v.scan \in 1 .. NumScans /\ NumScans \in Nat
    BY <1>1, ScansType
  <2>2. v.scan \in 1 .. NumScans + 1
    BY <2>1
  <2> QED BY <2>1, <2>2, ScansType, ScanStartIs
<1> DEFINE a == ScanStart[v.scan] + v.start
           e == v.expected
           I == a .. a + e - 1
           G == v.got \cup {r}
<1>3. a \in Int /\ e \in Nat
  BY <1>1, <1>2
<1>4. ASSUME NEW k \in Subints, Belongs(k, v) PROVE k \in I
  <2>1. /\ k = ScanStart[v.scan] + OffsetOf(k) /\ OffsetOf(k) \in Nat
        /\ OffsetOf(k) < ScanDuration[v.scan]
        /\ v.start <= OffsetOf(k) /\ OffsetOf(k) < v.start + v.inttime
    BY <1>4, ScanOfIs DEF Belongs
  <2>2. OffsetOf(k) < v.start + e
    BY <1>1, <1>2, <2>1 DEF Expects
  <2>3. k \in Int
    BY <1>2, <2>1
  <2> QED BY <1>1, <1>2, <2>1, <2>2, <2>3
<1>5. IsFiniteSet(I) /\ Cardinality(I) = e
  <2>1. a + e - 1 \in Int
    BY <1>3
  <2>2. IsFiniteSet(I) /\ Cardinality(I) = IF a > a + e - 1 THEN 0 ELSE (a + e - 1) - a + 1
    BY <1>3, <2>1, FS_Interval
  <2> HIDE DEF a, e, I
  <2> QED BY <1>3, <2>2
<1>6. G \subseteq I
  BY <1>1, <1>4
<1>7. IsFiniteSet(v.got) /\ Cardinality(v.got) \in Nat
  BY <1>5, <1>6, FS_Subset, FS_CardinalityType
<1>8. IsFiniteSet(G) /\ Cardinality(G) = Cardinality(v.got) + 1
  BY <1>7, FS_AddElement
<1>9. Cardinality(v.got) + 1 >= e
  BY DEF Complete
<1>10. G = I
  <2>1. Cardinality(G) <= Cardinality(I) /\ (Cardinality(G) = Cardinality(I) => G = I)
    BY <1>5, <1>6, FS_Subset
  <2> HIDE DEF G, I, e
  <2> QED BY <1>3, <1>5, <1>7, <1>8, <1>9, <2>1
<1> QED BY <1>4, <1>10
-------------------------------------------------------------------------------
(* The window of the main thread.                                              *)

\* Where the two threads are while results are received.
LEMMA ReceivingIs ==
    ASSUME ManagerInv
    PROVE  /\ mpc \in Receiving => keepwriting
           /\ keepwriting <=> mpc \notin {"unlockall", "join", "done"}
           /\ oldest \in Vis /\ newest \in Vis /\ visindex \in Vis \cup {-1} /\ writesegment \in Vis
           /\ InWindow(oldest) /\ InWindow(newest)
           /\ islocked \in [Vis -> BOOLEAN] /\ islocked[oldest] /\ islocked[newest]
           /\ \A v \in Vis : keepwriting /\ InWindow(v) /\ v = writesegment =>
                 v = oldest /\ wpc \notin {"unlockprev", "write", "increment"}
           /\ mpc \in {"send", "add", "ahead", "release"} => visindex = -1 \/ InWindow(visindex)
           /\ mpc \in {"ahead", "release"} => visindex \in Vis
           /\ mpc = "release" => visindex # newest
<1>1. TypeOK /\ PhaseOK /\ WriterOK /\ WindowOK /\ PlaceOK
  BY DEF ManagerInv, DispatchInv, LockInv
<1>2. /\ oldest \in Vis /\ newest \in Vis /\ visindex \in Vis \cup {-1} /\ writesegment \in Vis
      /\ islocked \in [Vis -> BOOLEAN]
  BY <1>1, LockTypes
<1>3. keepwriting <=> mpc \notin {"unlockall", "join", "done"}
  BY <1>1 DEF PhaseOK
<1>4. InWindow(oldest) /\ InWindow(newest)
  <2>1. Window(oldest, oldest) = 0 /\ Window(oldest, newest) \in 0 .. VisBufferLength - 1
    BY <1>2, WindowFacts, WindowIs
  <2> QED BY <2>1, VisBufferLengthAssumption DEF InWindow
<1>5. ASSUME NEW v \in Vis, keepwriting, InWindow(v), v = writesegment
      PROVE  v = oldest /\ wpc \notin {"unlockprev", "write", "increment"}
  <2>1. owner[v] # "writer"
    BY <1>1, <1>5 DEF WindowOK
  <2> QED BY <1>1, <1>5, <2>1 DEF WindowOK, WriterOK
<1> QED BY <1>1, <1>2, <1>3, <1>4, <1>5 DEF PlaceOK, WindowOK, Receiving

\* From a Visibility that a subintegration is not before, through those it does not
\* belong to, to one that it is not before.
LEMMA ChainTo ==
    ASSUME ManagerInv, PeriodsOK, OneInttime, InttimesOK, keepwriting, NEW k \in Subints,
           NEW o \in Vis, InWindow(o), NEW w \in Vis, Window(o, w) <= Window(o, newest),
           Difference(k, visbuffer[o]) >= 0,
           \A v \in Vis : Window(o, v) < Window(o, w) => ~Belongs(k, visbuffer[v])
    PROVE  Difference(k, visbuffer[w]) >= 0
<1> DEFINE S == {n \in Nat : \A v \in Vis : Window(o, v) = n /\ n <= Window(o, w) =>
                                               Difference(k, visbuffer[v]) >= 0}
<1>1. oldest \in Vis /\ newest \in Vis /\ writesegment \in Vis /\ VisBufferLength \in Nat
  BY ReceivingIs, VisBufferLengthAssumption
<1>2. \A x, y \in Vis : Window(x, y) \in 0 .. VisBufferLength - 1 /\ Window(x, x) = 0
  BY WindowIs, WindowFacts
<1>3. Window(oldest, o) <= Window(oldest, newest)
  BY DEF InWindow
<1>4. \A v \in Vis : Window(o, v) <= Window(o, newest) <=>
                        Window(oldest, o) <= Window(oldest, v) /\ Window(oldest, v) <= Window(oldest, newest)
  BY <1>1, <1>3, WindowShrinks
<1>5. 0 \in S
  <2>1. \A v \in Vis : Window(o, v) = 0 => v = o
    BY <1>2, WindowFacts
  <2> QED BY <2>1
<1>6. ASSUME NEW n \in Nat, n \in S PROVE n + 1 \in S
  <2> SUFFICES ASSUME NEW v \in Vis, Window(o, v) = n + 1, n + 1 <= Window(o, w)
               PROVE  Difference(k, visbuffer[v]) >= 0
    OBVIOUS
  <2> DEFINE u == Pred(v)
  <2>1. u \in Vis /\ Succ(u) = v
    BY SuccIs
  <2> HIDE DEF u
  <2>2. v # o
    BY <1>2
  <2>3. Window(o, Succ(u)) = IF Succ(u) = o THEN 0 ELSE Window(o, u) + 1
    BY <2>1, WindowFacts
  <2>4. Window(o, u) = n
    BY <1>2, <2>1, <2>2, <2>3
  <2>5. Window(o, w) \in Int /\ Window(o, newest) \in Int
    BY <1>1, <1>2
  <2>6. Difference(k, visbuffer[u]) >= 0 /\ ~Belongs(k, visbuffer[u])
    BY <1>6, <2>1, <2>4, <2>5
  <2>7. Difference(k, visbuffer[u]) >= 2 * IntTime[FirstScan]
    <3>1. visbuffer[u] \in GoodVis /\ visbuffer[u].inttime = IntTime[FirstScan]
      BY <2>1, BufferIs DEF InttimesOK
    <3>2. /\ Difference(k, visbuffer[u]) \in Int /\ IntTime[FirstScan] \in Nat
          /\ ~(Difference(k, visbuffer[u]) >= 0 /\ Difference(k, visbuffer[u]) < 2 * IntTime[FirstScan])
      BY <2>6, <3>1, FitsBelongs, PeriodIs
    <3> QED BY <2>6, <3>2
  <2>8. InWindow(u) /\ InWindow(v) /\ Window(oldest, o) <= Window(oldest, v)
    <3>1. Window(o, u) <= Window(o, newest) /\ Window(o, v) <= Window(o, newest)
      BY <2>4, <2>5
    <3> QED BY <1>4, <2>1, <3>1 DEF InWindow
  <2>9. Succ(u) # writesegment
    <3> SUFFICES ASSUME v = writesegment PROVE FALSE
      BY <2>1
    <3>1. v = oldest
      BY <2>8, ReceivingIs
    <3>2. Window(oldest, o) = Window(oldest, oldest)
      BY <1>1, <1>2, <2>8, <3>1
    <3>3. o = oldest
      BY <1>1, <3>2, WindowFacts
    <3> QED BY <2>2, <3>1, <3>3
  <2>10. u = writesegment => wpc # "increment"
    BY <2>1, <2>8, ReceivingIs
  <2> QED BY <2>1, <2>7, <2>9, <2>10, NextNotBefore
<1>7. Window(o, w) \in S
  <2> HIDE DEF S
  <2>1. Window(o, w) \in Nat
    BY <1>2
  <2> QED BY <1>5, <1>6, <2>1, SetInduction
<1>8. Window(o, w) <= Window(o, w)
  BY <1>2
<1> QED BY <1>7, <1>8
-------------------------------------------------------------------------------
(* What steps do to the Visibilities.                                          *)

\* addData and increment() are the only ones to change a Visibility,
LEMMA VisKept ==
    ASSUME [Next]_vars, ~AddData, ~IncrementSegment
    PROVE  visbuffer' = visbuffer
BY DEF Next, Main, Writer, FillUp, Terminate, Locate, LockMore, GiveUp, Drop, DropLock,
       Dropped, Resend, Acknowledge, IgnoreStale, LockAhead, ReleaseVis, StopWriter, UnlockAll,
       JoinWriter, Receive, Interrupt, Finished, vars, writevars, CheckWriting, LockSegment,
       UnlockPrevSegment, UnlockLast, WriteSegment, FlushSegment

\* and writedata to write one.
LEMMA WrittenKept ==
    ASSUME [Next]_vars, ~WriteSegment, ~FlushSegment
    PROVE  written' = written
BY DEF Next, Main, Writer, FillUp, Terminate, Locate, LockMore, GiveUp, Drop, DropLock,
       Dropped, Resend, Acknowledge, IgnoreStale, LockAhead, ReleaseVis, StopWriter, UnlockAll,
       JoinWriter, Receive, Interrupt, Finished, vars, writevars, CheckWriting, LockSegment,
       UnlockPrevSegment, UnlockLast, AddData, IncrementSegment

\* increment() is on a Visibility that is not in the window.
LEMMA IncrementIs ==
    ASSUME ManagerInv, IncrementSegment
    PROVE  /\ \A v \in Vis : v # writesegment => visbuffer'[v] = visbuffer[v]
           /\ \/ PastEnd(visbuffer[writesegment]) /\ visbuffer' = visbuffer
              \/ ~PastEnd(visbuffer[writesegment])
                 /\ visbuffer'[writesegment] = Zeroed(UpdateTime(visbuffer[writesegment]))
           /\ writesegment \in Vis /\ (keepwriting => ~InWindow(writesegment))
           /\ wpc = "increment"
           /\ UNCHANGED <<mpc, resend, next, sendcount, inflight, result, visindex, oldest, newest,
                          islocked, keepwriting, written, stale>>
<1>1. visbuffer \in [Vis -> VisType] /\ writesegment \in Vis /\ wpc = "increment"
  BY BufferIs DEF IncrementSegment
<1>2. keepwriting => ~InWindow(writesegment)
  BY <1>1, ReceivingIs
<1>3. UNCHANGED <<mpc, resend, next, sendcount, inflight, result, visindex, oldest, newest,
                  islocked, keepwriting, written, stale>>
  BY DEF IncrementSegment, mainside, dispatchvars, resultvars
<1>4. CASE PastEnd(visbuffer[writesegment])
  BY <1>1, <1>2, <1>3, <1>4 DEF IncrementSegment
<1>5. CASE ~PastEnd(visbuffer[writesegment])
  <2>1. visbuffer' = [visbuffer EXCEPT ![writesegment] = Zeroed(UpdateTime(visbuffer[writesegment]))]
    BY <1>5 DEF IncrementSegment
  <2> QED BY <1>1, <1>2, <1>3, <1>5, <2>1
<1> QED BY <1>4, <1>5

\* Every step keeps the periods as long as they are, and what is in them belongs there.
LEMMA GotStep ==
    ASSUME ManagerInv, ManagerInv', OneInttime, InttimesOK, ExpectedOK, GotBelong, LocatedBelongs,
           [Next]_vars
    PROVE  InttimesOK' /\ ExpectedOK' /\ GotBelong'
<1>1. /\ \A v \in Vis : visbuffer[v] \in GoodVis /\ visbuffer'[v] \in GoodVis
      /\ \A v \in Vis : visbuffer[v].inttime = IntTime[FirstScan] /\ Expects(visbuffer[v])
  <2>1. \A v \in Vis : visbuffer'[v] \in GoodVis
    BY DEF ManagerInv, TypeOK, ScansOK, GoodVis
  <2> QED BY <2>1, BufferIs DEF InttimesOK, ExpectedOK
<1>2. CASE AddData
  <2>1. /\ visindex \in Vis /\ mpc = "add"
        /\ visbuffer'[visindex].got = visbuffer[visindex].got \cup {result}
        /\ \A v \in Vis \ {visindex} : visbuffer'[v] = visbuffer[v]
        /\ \A v \in Vis : Zeroed(visbuffer'[v]) = Zeroed(visbuffer[v])
    BY <1>2, AddDataIs
  <2>2. \A v \in Vis : /\ visbuffer'[v].inttime = visbuffer[v].inttime
                       /\ Expects(visbuffer'[v]) <=> Expects(visbuffer[v])
                       /\ \A k : Belongs(k, visbuffer'[v]) <=> Belongs(k, visbuffer[v])
    BY <1>1, <2>1, SamePeriod
  <2>3. InttimesOK' /\ ExpectedOK'
    BY <1>1, <2>2 DEF InttimesOK, ExpectedOK
  <2>4. Belongs(result, visbuffer[visindex])
    BY <1>2, <2>1 DEF LocatedBelongs, AddData
  <2>5. ASSUME NEW v \in Vis, NEW k \in visbuffer'[v].got PROVE Belongs(k, visbuffer'[v])
    <3>1. k \in visbuffer[v].got \/ (v = visindex /\ k = result)
      BY <2>1
    <3> QED BY <2>2, <2>4, <3>1 DEF GotBelong
  <2> QED BY <2>3, <2>5 DEF GotBelong
<1>3. CASE IncrementSegment
  <2> DEFINE v == writesegment
  <2>1. v \in Vis /\ \A u \in Vis : u # v => visbuffer'[u] = visbuffer[u]
    BY <1>3, IncrementIs
  <2>2. CASE visbuffer' = visbuffer
    BY <1>1, <2>2 DEF InttimesOK, ExpectedOK, GotBelong
  <2>3. CASE visbuffer'[v] = Zeroed(UpdateTime(visbuffer[v]))
    <3> HIDE DEF v
    <3>1. UpdateTime(visbuffer[v]).inttime = IntTime[FirstScan] /\ Expects(UpdateTime(visbuffer[v]))
      BY <1>1, <2>1, UpdateKeeps
    <3>2. /\ UpdateTime(visbuffer[v]) \in GoodVis
          /\ Zeroed(visbuffer'[v]) = Zeroed(UpdateTime(visbuffer[v])) /\ visbuffer'[v].got = {}
      BY <1>1, <2>1, <2>3, UpdateTimeType, ZeroedIs
    <3>3. visbuffer'[v].inttime = IntTime[FirstScan] /\ Expects(visbuffer'[v])
      BY <1>1, <2>1, <3>1, <3>2, SamePeriod
    <3> QED BY <1>1, <2>1, <3>2, <3>3 DEF InttimesOK, ExpectedOK, GotBelong
  <2> QED BY <1>3, <2>2, <2>3, IncrementIs
<1>4. CASE ~AddData /\ ~IncrementSegment
  BY <1>4, VisKept DEF InttimesOK, ExpectedOK, GotBelong
<1> QED BY <1>2, <1>3, <1>4

\* What is put on disk is what is in a Visibility.
LEMMA WrittenStep ==
    ASSUME ManagerInv, GotBelong, WrittenBelong, [Next]_vars
    PROVE  WrittenBelong'
<1>1. /\ visbuffer \in [Vis -> VisType] /\ writesegment \in Vis /\ updates \in 0 .. VisBufferLength - 1
      /\ written \in Seq(VisType) /\ Len(written) \in Nat
  BY BufferIs
<1>2. ASSUME NEW v \in Vis, Writedata(visbuffer[v]) PROVE WrittenBelong'
  <2>1. visbuffer[v] \in VisType
    BY <1>1
  <2>2. CASE /\ written' = Append(written, visbuffer[v]) /\ Len(written') = Len(written) + 1
             /\ written'[Len(written) + 1] = visbuffer[v]
             /\ \A i \in 1 .. Len(written) : written'[i] = written[i]
    <3> SUFFICES ASSUME NEW i \in 1 .. Len(written) + 1, NEW k \in written'[i].got
                 PROVE  Belongs(k, written'[i])
      BY <2>2 DEF WrittenBelong
    <3>1. CASE i = Len(written) + 1
      BY <2>2, <3>1 DEF GotBelong
    <3>2. CASE i # Len(written) + 1
      <4>1. i \in 1 .. Len(written)
        BY <1>1, <3>2
      <4> QED BY <2>2, <4>1 DEF WrittenBelong
    <3> QED BY <3>1, <3>2
  <2>3. CASE written' = written
    BY <2>3 DEF WrittenBelong
  <2> QED BY <1>1, <1>2, <2>1, <2>2, <2>3, WritedataIs
<1>3. CASE WriteSegment
  BY <1>1, <1>2, <1>3 DEF WriteSegment
<1>4. CASE FlushSegment
  <2>1. ToFlush \in Vis
    BY <1>1, PlaceIs DEF ToFlush
  <2> QED BY <1>2, <1>4, <2>1 DEF FlushSegment
<1>5. CASE ~WriteSegment /\ ~FlushSegment
  <2>1. written' = written
    BY <1>5, WrittenKept
  <2> QED BY <2>1 DEF WrittenBelong
<1> QED BY <1>3, <1>4, <1>5
\* The next locked Visibility is in the window, and those before it are not locked.
LEMMA AdvanceInWindow ==
    ASSUME ManagerInv, NEW x \in Vis, x # newest, InWindow(x)
    PROVE  LET locked == [islocked EXCEPT ![x] = FALSE]
               o == Advance(oldest, locked)
           IN  /\ o \in Vis /\ InWindow(o) /\ o # x
               /\ \A v \in Vis : Window(oldest, v) < Window(oldest, o) => ~islocked[v] \/ v = x
<1> DEFINE locked == [islocked EXCEPT ![x] = FALSE]
           o == Advance(oldest, locked)
<1>1. /\ oldest \in Vis /\ newest \in Vis /\ islocked \in [Vis -> BOOLEAN] /\ islocked[newest]
  BY ReceivingIs
<1>2. locked \in [Vis -> BOOLEAN] /\ locked[newest] /\ ~locked[x]
      /\ \A v \in Vis : v # x => locked[v] = islocked[v]
  BY <1>1
<1> HIDE DEF locked
<1>3. /\ o \in Vis /\ locked[o]
      /\ \A u \in Vis : locked[u] => Window(oldest, o) <= Window(oldest, u)
  BY <1>1, <1>2, AdvanceIs
<1> HIDE DEF o
<1>4. InWindow(o) /\ o # x
  BY <1>1, <1>2, <1>3 DEF InWindow
<1>5. ASSUME NEW v \in Vis, Window(oldest, v) < Window(oldest, o), v # x PROVE ~islocked[v]
  <2>1. Window(oldest, v) \in Int /\ Window(oldest, o) \in Int
    BY <1>1, <1>3, WindowIs
  <2>2. ~locked[v]
    BY <1>3, <1>5, <2>1
  <2> QED BY <1>2, <1>5, <2>2
<1>6. /\ o \in Vis /\ InWindow(o) /\ o # x
      /\ \A v \in Vis : Window(oldest, v) < Window(oldest, o) => ~islocked[v] \/ v = x
  BY <1>3, <1>4, <1>5
<1> QED BY <1>6 DEF o, locked

\* Where locateVisIndex begins to search
LEMMA OldestAfterIs ==
    ASSUME ManagerInv
    PROVE  /\ OldestAfter \in Vis /\ InWindow(OldestAfter)
           /\ Crowded => OldestAfter # oldest /\ oldest # newest
           /\ ~Crowded => OldestAfter = oldest
<1>1. oldest \in Vis /\ InWindow(oldest)
  BY ReceivingIs
<1>2. CASE Crowded
  <2>1. oldest # newest
    BY <1>2, CrowdedIs DEF Crowded, ManagerInv
  <2> QED BY <1>1, <1>2, <2>1, AdvanceInWindow DEF OldestAfter
<1>3. CASE ~Crowded
  BY <1>1, <1>3 DEF OldestAfter
<1> QED BY <1>2, <1>3

\* What locateVisIndex compares with.
LEMMA CandidatesAre ==
    ASSUME ManagerInv, OneInttime, InttimesOK, mpc = "locate"
    PROVE  /\ DOMAIN Candidates = 0 .. Window(OldestAfter, newest)
           /\ \A i \in DOMAIN Candidates :
                 LET v == (OldestAfter + i) % VisBufferLength
                 IN  /\ v \in Vis /\ Window(OldestAfter, v) = i
                     /\ Candidates[i] = Difference(result, visbuffer[v]) /\ Candidates[i] \in Int
                     /\ Fits(Candidates[i]) <=> Belongs(result, visbuffer[v])
           /\ \A v \in Vis : Window(OldestAfter, v) <= Window(OldestAfter, newest) =>
                 /\ Window(OldestAfter, v) \in DOMAIN Candidates
                 /\ Candidates[Window(OldestAfter, v)] = Difference(result, visbuffer[v])
<1>1. newest \in Vis /\ OldestAfter \in Vis /\ corevis = result /\ result \in Subints
      /\ InttimeNs = 2 * IntTime[FirstScan]
  BY ReceivingIs, OldestAfterIs, InttimeNsIs
<1>2. DOMAIN Candidates = 0 .. Window(OldestAfter, newest)
  BY DEF Candidates
<1>3. ASSUME NEW i \in 0 .. Window(OldestAfter, newest), NEW v, v = (OldestAfter + i) % VisBufferLength
      PROVE  /\ v \in Vis /\ Window(OldestAfter, v) = i
             /\ Candidates[i] = Difference(result, visbuffer[v]) /\ Candidates[i] \in Int
             /\ Fits(Candidates[i]) <=> Belongs(result, visbuffer[v])
  <2>1. v \in Vis /\ Window(OldestAfter, v) = i
    BY <1>1, <1>3, PlaceInWindow
  <2>2. Candidates[i] = Difference(result, visbuffer[v])
    BY <1>1, <1>3 DEF Candidates
  <2>3. visbuffer[v] \in GoodVis /\ visbuffer[v].inttime = IntTime[FirstScan]
    BY <2>1, BufferIs DEF InttimesOK
  <2>4. /\ Difference(result, visbuffer[v]) \in Int
        /\ Difference(result, visbuffer[v]) >= 0
           /\ Difference(result, visbuffer[v]) < 2 * IntTime[FirstScan] <=> Belongs(result, visbuffer[v])
    BY <1>1, <2>3, FitsBelongs
  <2> QED BY <1>1, <2>1, <2>2, <2>4 DEF Fits
<1>4. ASSUME NEW v \in Vis, Window(OldestAfter, v) <= Window(OldestAfter, newest)
      PROVE  /\ Window(OldestAfter, v) \in DOMAIN Candidates
             /\ Candidates[Window(OldestAfter, v)] = Difference(result, visbuffer[v])
  <2>1. /\ Window(OldestAfter, v) \in 0 .. VisBufferLength - 1 /\ VisBufferLength \in Nat
        /\ Window(OldestAfter, newest) \in 0 .. VisBufferLength - 1
    BY <1>1, WindowIs, VisBufferLengthAssumption
  <2> DEFINE i == Window(OldestAfter, v)
             u == (OldestAfter + i) % VisBufferLength
  <2>2. i \in 0 .. Window(OldestAfter, newest)
    BY <1>4, <2>1
  <2> HIDE DEF i
  <2>3. u \in Vis /\ Window(OldestAfter, u) = i /\ Candidates[i] = Difference(result, visbuffer[u])
    BY <1>3, <2>2
  <2>4. u = v
    BY <1>1, <2>3, WindowFacts DEF i
  <2> QED BY <1>2, <2>2, <2>3, <2>4 DEF i
<1> QED BY <1>2, <1>3, <1>4

\* locateVisIndex finds the Visibility a result belongs to, or the result is after the
\* newest one.
LEMMA LocateRight ==
    ASSUME ManagerInv, PeriodsOK, OneInttime, InttimesOK, Locate
    PROVE  /\ LocatedBelongs' /\ AfterNewest'
           /\ mpc' \in {"send", "more"} /\ UNCHANGED <<result, newest, visbuffer>>
           /\ ~Crowded /\ Difference(result, visbuffer[oldest]) >= 0 =>
                 mpc' = "more" \/ visindex' >= 0
<1> DEFINE o == OldestAfter
           W == Window(o, newest)
<1>1. /\ mpc = "locate" /\ mpc' \in {"send", "more"} /\ UNCHANGED <<result, newest, visbuffer>>
  BY DEF Locate
<1>2. /\ newest \in Vis /\ oldest \in Vis /\ keepwriting /\ result \in Subints
      /\ o \in Vis /\ InWindow(o) /\ (~Crowded => o = oldest)
      /\ InttimeNs = 2 * IntTime[FirstScan] /\ IntTime[FirstScan] \in Nat
  BY <1>1, ReceivingIs, OldestAfterIs, InttimeNsIs, PeriodIs DEF Receiving
<1>3. /\ DOMAIN Candidates = 0 .. W
      /\ \A i \in DOMAIN Candidates :
            LET v == (o + i) % VisBufferLength
            IN  /\ v \in Vis /\ Window(o, v) = i
                /\ Candidates[i] = Difference(result, visbuffer[v]) /\ Candidates[i] \in Int
                /\ Fits(Candidates[i]) <=> Belongs(result, visbuffer[v])
      /\ \A v \in Vis : Window(o, v) <= W =>
            Window(o, v) \in DOMAIN Candidates /\ Candidates[Window(o, v)] = Difference(result, visbuffer[v])
  BY <1>1, CandidatesAre
<1>4. \A x, y \in Vis : Window(x, y) \in 0 .. VisBufferLength - 1 /\ Window(x, x) = 0
  BY WindowIs, WindowFacts
<1>5. CASE \E i \in DOMAIN Candidates : /\ Fits(Candidates[i]) /\ mpc' = "send"
                                        /\ visindex' = (o + i) % VisBufferLength
  <2>1. PICK i \in DOMAIN Candidates : /\ Fits(Candidates[i]) /\ mpc' = "send"
                                       /\ visindex' = (o + i) % VisBufferLength
    BY <1>5
  <2>2. visindex' \in Vis /\ Belongs(result, visbuffer[visindex'])
    BY <1>3, <2>1
  <2>3. visindex' >= 0
    BY <2>2, VisBufferLengthAssumption DEF Vis
  <2> QED BY <1>1, <2>1, <2>2, <2>3 DEF LocatedBelongs, AfterNewest
<1>6. CASE /\ \A i \in DOMAIN Candidates : ~Fits(Candidates[i])
           /\ visindex' = -1
           /\ mpc' = IF \A i \in DOMAIN Candidates : Candidates[i] < 0 THEN "send" ELSE "more"
  <2>1. ASSUME NEW v \in Vis, Window(o, v) <= W PROVE ~Belongs(result, visbuffer[v])
    <3>1. Window(o, v) \in DOMAIN Candidates
      BY <1>3, <2>1
    <3> DEFINE i == Window(o, v)
               u == (o + i) % VisBufferLength
    <3>2. u \in Vis /\ Window(o, u) = i /\ ~Belongs(result, visbuffer[u])
      BY <1>3, <1>6, <3>1
    <3>3. u = v
      BY <1>2, <3>2, WindowFacts
    <3> QED BY <3>2, <3>3
  <2>2. LocatedBelongs'
    BY <1>6 DEF LocatedBelongs
  <2>3. AfterNewest'
    <3> SUFFICES ASSUME mpc' = "more" PROVE Difference(result, visbuffer[newest]) >= 2 * IntTime[FirstScan]
      BY <1>1 DEF AfterNewest
    <3>1. PICK i \in DOMAIN Candidates : ~(Candidates[i] < 0)
      BY <1>6
    <3> DEFINE p == (o + i) % VisBufferLength
    <3>2. p \in Vis /\ Window(o, p) = i /\ Difference(result, visbuffer[p]) >= 0
      BY <1>3, <3>1
    <3> HIDE DEF p
    <3>3. Window(o, p) <= W /\ W \in Int
      BY <1>2, <1>3, <1>4, <3>2
    <3>4. \A v \in Vis : Window(p, v) <= Window(p, newest) => Window(o, v) <= W
      BY <1>2, <3>2, <3>3, WindowShrinks
    <3>5. InWindow(p)
      BY <1>2, <3>2, <3>3, WindowShrinks DEF InWindow
    <3>6. \A v \in Vis : Window(p, v) < Window(p, newest) => ~Belongs(result, visbuffer[v])
      <4> SUFFICES ASSUME NEW v \in Vis, Window(p, v) < Window(p, newest)
                   PROVE  ~Belongs(result, visbuffer[v])
        OBVIOUS
      <4>1. Window(p, v) <= Window(p, newest)
        BY <1>2, <1>4, <3>2
      <4> QED BY <2>1, <3>4, <4>1
    <3>7. Window(p, newest) <= Window(p, newest)
      BY <1>2, <1>4, <3>2
    <3>8. Difference(result, visbuffer[newest]) >= 0
      BY <1>2, <3>2, <3>5, <3>6, <3>7, ChainTo
    <3>9. visbuffer[newest] \in GoodVis /\ visbuffer[newest].inttime = IntTime[FirstScan]
      BY <1>2, BufferIs DEF InttimesOK
    <3>10. ~Belongs(result, visbuffer[newest])
      BY <1>2, <2>1, <3>3
    <3>11. /\ Difference(result, visbuffer[newest]) \in Int
           /\ ~(/\ Difference(result, visbuffer[newest]) >= 0
                /\ Difference(result, visbuffer[newest]) < 2 * IntTime[FirstScan])
      BY <1>2, <3>9, <3>10, FitsBelongs
    <3> QED BY <1>2, <3>8, <3>11
  <2>4. ASSUME ~Crowded, Difference(result, visbuffer[oldest]) >= 0 PROVE mpc' = "more"
    <3>1. Window(o, o) <= W /\ Window(o, o) = 0
      BY <1>2, <1>4
    <3>2. 0 \in DOMAIN Candidates /\ Candidates[0] = Difference(result, visbuffer[o])
      BY <1>2, <1>3, <3>1
    <3>3. Candidates[0] >= 0 /\ Candidates[0] \in Int
      BY <1>2, <1>3, <2>4, <3>2
    <3> QED BY <1>6, <3>2, <3>3
  <2> QED BY <1>1, <2>2, <2>3, <2>4
<1> QED BY <1>5, <1>6 DEF Locate
-------------------------------------------------------------------------------
(* Results are located right, and Visibilities released when they are full.    *)

PlacesOK == LocatedBelongs /\ AfterNewest /\ FullReleased

\* A step of the write thread, or one that leaves the window alone.
LEMMA PlacesOthers ==
    ASSUME ManagerInv, PlacesOK,
           UNCHANGED <<mpc, result, visindex, oldest, newest, islocked, keepwriting>>,
           \A v \in Vis : keepwriting /\ InWindow(v) => visbuffer'[v] = visbuffer[v]
    PROVE  PlacesOK'
<1>1. /\ mpc \in Receiving => keepwriting
      /\ mpc \in {"send", "add", "ahead", "release"} => visindex = -1 \/ InWindow(visindex)
      /\ mpc \in {"ahead", "release"} => visindex \in Vis
      /\ newest \in Vis /\ InWindow(newest) /\ visindex \in Vis \cup {-1}
  BY ReceivingIs
<1>2. LocatedBelongs'
  <2> SUFFICES ASSUME mpc \in {"send", "add"}, visindex >= 0
               PROVE  Belongs(result, visbuffer'[visindex])
    BY DEF LocatedBelongs
  <2>1. visindex \in Vis /\ InWindow(visindex) /\ keepwriting
    BY <1>1 DEF Receiving
  <2> QED BY <2>1 DEF PlacesOK, LocatedBelongs
<1>3. AfterNewest'
  BY <1>1 DEF PlacesOK, AfterNewest, Receiving
<1>4. FullReleased'
  <2>1. ASSUME keepwriting, NEW v \in Vis, InWindow(v), ~islocked[v] PROVE Full(visbuffer'[v])
    BY <2>1 DEF PlacesOK, FullReleased
  <2>2. ASSUME mpc \in {"ahead", "release"} PROVE Full(visbuffer'[visindex])
    <3>1. visindex \in Vis /\ InWindow(visindex) /\ keepwriting
      <4>1. \A v \in Vis : v # -1
        BY VisBufferLengthAssumption DEF Vis
      <4> QED BY <1>1, <2>2, <4>1 DEF Receiving
    <3> QED BY <2>2, <3>1 DEF PlacesOK, FullReleased
  <2> QED BY <2>1, <2>2 DEF FullReleased, InWindow
<1> QED BY <1>2, <1>3, <1>4 DEF PlacesOK

\* A step of the main thread to where it has no result in its hands.
LEMMA PlacesQuiet ==
    ASSUME PlacesOK, mpc' \notin {"send", "add", "more", "ahead", "release"},
           keepwriting' => keepwriting /\ UNCHANGED <<oldest, newest, islocked, visbuffer>>
    PROVE  PlacesOK'
BY DEF PlacesOK, LocatedBelongs, AfterNewest, FullReleased, InWindow

\* The window begins later: what is in it was, and is locked or full if it was.
LEMMA PlacesShrink ==
    ASSUME ManagerInv, PlacesOK, keepwriting, UNCHANGED <<newest, visbuffer>>,
           NEW x \in Vis, x # newest, InWindow(x),
           islocked' = [islocked EXCEPT ![x] = FALSE],
           oldest' \in Vis, InWindow(oldest'),
           \/ Full(visbuffer[x])
           \/ x = oldest /\ oldest' # oldest
    PROVE  \A v \in Vis : InWindow(v)' /\ ~islocked'[v] => Full(visbuffer'[v])
<1>1. oldest \in Vis /\ newest \in Vis /\ islocked \in [Vis -> BOOLEAN]
  BY ReceivingIs
<1>2. \A v \in Vis : InWindow(v)' => InWindow(v) /\ Window(oldest, oldest') <= Window(oldest, v)
  <2>1. PICK o \in Vis : o = oldest'
    OBVIOUS
  <2>2. Window(oldest, o) <= Window(oldest, newest)
    BY <2>1 DEF InWindow
  <2>3. \A v \in Vis : Window(o, v) <= Window(o, newest) =>
                          Window(oldest, o) <= Window(oldest, v) /\ Window(oldest, v) <= Window(oldest, newest)
    BY <1>1, <2>2, WindowShrinks
  <2> QED BY <2>1, <2>3 DEF InWindow
<1> SUFFICES ASSUME NEW v \in Vis, InWindow(v)', ~islocked'[v] PROVE Full(visbuffer[v])
  OBVIOUS
<1>3. CASE v # x
  <2>1. ~islocked[v]
    BY <1>1, <1>3
  <2> QED BY <1>2, <2>1 DEF PlacesOK, FullReleased
<1>4. CASE v = x /\ ~Full(visbuffer[x])
  <2>1. v = oldest /\ oldest' # oldest /\ Window(oldest, oldest') <= Window(oldest, oldest)
    BY <1>2, <1>4
  <2>2. PICK o \in Vis : o = oldest'
    OBVIOUS
  <2>3. Window(oldest, oldest) = 0 /\ Window(oldest, o) \in 0 .. VisBufferLength - 1
    BY <1>1, WindowFacts, WindowIs
  <2>4. Window(oldest, o) = Window(oldest, oldest)
    BY <2>1, <2>2, <2>3, VisBufferLengthAssumption
  <2>5. o = oldest
    BY <1>1, <2>4, WindowFacts
  <2> QED BY <2>1, <2>2, <2>5
<1> QED BY <1>3, <1>4

\* The window ends later, and what is new in it is locked.
LEMMA PlacesGrow ==
    ASSUME ManagerInv, PlacesOK, keepwriting, LockNewest, UNCHANGED <<oldest, visbuffer>>
    PROVE  /\ \A v \in Vis : InWindow(v)' /\ ~islocked'[v] => Full(visbuffer'[v])
           /\ newest' = Succ(newest) /\ Succ(newest) \in Vis /\ Succ(newest) # writesegment
           /\ newest = writesegment => wpc # "increment"
<1>1. /\ oldest \in Vis /\ newest \in Vis /\ islocked \in [Vis -> BOOLEAN] /\ InWindow(newest)
      /\ islocked[oldest] /\ writesegment \in Vis
  BY ReceivingIs
<1>2. /\ owner[Succ(newest)] = "free" /\ newest' = Succ(newest)
      /\ islocked' = [islocked EXCEPT ![Succ(newest)] = TRUE]
      /\ Succ(newest) \in Vis /\ Pred(Succ(newest)) = newest
  BY <1>1, SuccIs DEF LockNewest
<1>3. WriterOK /\ WindowOK /\ wpc \in WriterSteps
  BY LockTypes DEF ManagerInv, LockInv
<1>4. owner[newest] # "writer" /\ owner[oldest] = "main"
  BY <1>1, <1>3 DEF WindowOK
<1>5. Succ(newest) # writesegment
  <2> SUFFICES ASSUME Succ(newest) = writesegment PROVE FALSE
    OBVIOUS
  <2>1. wpc \in {"check", "lock", "unlockprev", "flush"} => owner[newest] = "writer"
    BY <1>1, <1>2, <1>3 DEF WriterOK
  <2>2. wpc \in {"unlockprev", "write", "increment"} => owner[Succ(newest)] = "writer"
    BY <1>1, <1>2, <1>3 DEF WriterOK
  <2>3. wpc \notin {"flush", "flushing", "ended"}
    BY <1>3 DEF WriterOK
  <2> QED BY <1>2, <1>3, <1>4, <2>1, <2>2, <2>3 DEF WriterSteps
<1>6. newest = writesegment => wpc # "increment"
  BY <1>1, ReceivingIs
<1>7. Succ(newest) # oldest
  BY <1>2, <1>4
<1>8. \A v \in Vis : InWindow(v)' => InWindow(v) \/ v = Succ(newest)
  <2>1. \A v \in Vis : Window(oldest, v) <= Window(oldest, Succ(newest)) =>
                          Window(oldest, v) <= Window(oldest, newest) \/ v = Succ(newest)
    BY <1>1, <1>7, WindowGrows
  <2> QED BY <1>2, <2>1 DEF InWindow
<1>9. ASSUME NEW v \in Vis, InWindow(v)', ~islocked'[v] PROVE Full(visbuffer'[v])
  <2>1. v # Succ(newest) /\ ~islocked[v]
    BY <1>1, <1>2, <1>9
  <2> QED BY <1>8, <1>9, <2>1 DEF PlacesOK, FullReleased
<1> QED BY <1>2, <1>5, <1>6, <1>9
\* The search for the place of a result.
LEMMA PlacesSearch ==
    ASSUME ManagerInv, ManagerInv', PeriodsOK, OneInttime, InttimesOK, PlacesOK, Locate \/ LockMore
    PROVE  PlacesOK'
<1>1. /\ oldest \in Vis /\ newest \in Vis /\ keepwriting /\ keepwriting' /\ oldest' \in Vis
      /\ UNCHANGED <<result, visbuffer>>
  <2>1. mpc \in Receiving /\ UNCHANGED <<keepwriting, result, visbuffer>>
    BY DEF Locate, LockMore, Receiving
  <2>2. oldest' \in Vis
    BY DEF ManagerInv, TypeOK
  <2> QED BY <2>1, <2>2, ReceivingIs
<1>2. CASE Locate
  <2>1. /\ LocatedBelongs' /\ AfterNewest' /\ mpc' \in {"send", "more"} /\ newest' = newest
    BY <1>2, LocateRight
  <2>2. ASSUME NEW v \in Vis, InWindow(v)', ~islocked'[v] PROVE Full(visbuffer'[v])
    <3>1. CASE Crowded
      <4>1. /\ oldest' = OldestAfter /\ islocked' = [islocked EXCEPT ![oldest] = FALSE]
        BY <1>2, <3>1 DEF Locate
      <4>2. InWindow(oldest') /\ oldest' # oldest /\ oldest # newest /\ InWindow(oldest)
        BY <3>1, <4>1, OldestAfterIs, ReceivingIs
      <4> QED BY <1>1, <2>1, <2>2, <4>1, <4>2, PlacesShrink
    <3>2. CASE ~Crowded
      <4>1. UNCHANGED <<oldest, islocked>>
        BY <1>2, <3>2 DEF Locate, OldestAfter
      <4> QED BY <1>1, <2>1, <2>2, <4>1 DEF PlacesOK, FullReleased, InWindow
    <3> QED BY <3>1, <3>2
  <2> QED BY <2>1, <2>2 DEF PlacesOK, FullReleased
<1>3. CASE LockMore
  <2>1. /\ mpc = "more" /\ LockNewest /\ UNCHANGED oldest
        /\ difference' = Difference(corevis, visbuffer[Succ(newest)])
        /\ \/ difference' < InttimeNs /\ visindex' = Succ(newest) /\ mpc' = "send"
           \/ ~(difference' < InttimeNs) /\ mpc' = "more"
    BY <1>3 DEF LockMore
  <2>2. /\ \A v \in Vis : InWindow(v)' /\ ~islocked'[v] => Full(visbuffer'[v])
        /\ newest' = Succ(newest) /\ Succ(newest) \in Vis /\ Succ(newest) # writesegment
        /\ newest = writesegment => wpc # "increment"
    BY <1>1, <2>1, PlacesGrow
  <2>3. /\ InttimeNs = 2 * IntTime[FirstScan] /\ corevis = result /\ result \in Subints
        /\ IntTime[FirstScan] \in Nat
    BY <2>1, InttimeNsIs, PeriodIs
  <2>4. Difference(result, visbuffer[newest]) >= 2 * IntTime[FirstScan]
    BY <2>1 DEF PlacesOK, AfterNewest
  <2>5. Difference(result, visbuffer[Succ(newest)]) >= 0
    BY <1>1, <2>2, <2>3, <2>4, NextNotBefore
  <2>6. visbuffer[Succ(newest)] \in GoodVis /\ visbuffer[Succ(newest)].inttime = IntTime[FirstScan]
    BY <2>2, BufferIs DEF InttimesOK
  <2>7. /\ Difference(result, visbuffer[Succ(newest)]) \in Int
        /\ Difference(result, visbuffer[Succ(newest)]) < 2 * IntTime[FirstScan] =>
              Belongs(result, visbuffer[Succ(newest)])
    BY <2>3, <2>5, <2>6, FitsBelongs
  <2>8. CASE difference' < InttimeNs /\ visindex' = Succ(newest) /\ mpc' = "send"
    <3>1. Belongs(result, visbuffer[Succ(newest)])
      BY <2>1, <2>3, <2>7, <2>8
    <3> QED BY <1>1, <2>2, <2>8, <3>1 DEF PlacesOK, LocatedBelongs, AfterNewest, FullReleased
  <2>9. CASE ~(difference' < InttimeNs) /\ mpc' = "more"
    <3>1. Difference(result, visbuffer[Succ(newest)]) >= 2 * IntTime[FirstScan]
      BY <2>1, <2>3, <2>7, <2>9
    <3> QED BY <1>1, <2>2, <2>9, <3>1 DEF PlacesOK, LocatedBelongs, AfterNewest, FullReleased
  <2> QED BY <2>1, <2>8, <2>9
<1> QED BY <1>2, <1>3

\* A result is added, and a Visibility that is complete is full.
LEMMA PlacesAdd ==
    ASSUME ManagerInv, ManagerInv', OneResult, OneInttime, InttimesOK, ExpectedOK, GotBelong, PlacesOK,
           AddData
    PROVE  PlacesOK'
<1>1. /\ visindex \in Vis /\ result \in Subints /\ mpc = "add" /\ visindex >= 0
      /\ visbuffer'[visindex].got = visbuffer[visindex].got \cup {result}
      /\ \A v \in Vis \ {visindex} : visbuffer'[v] = visbuffer[v]
      /\ \A v \in Vis : Zeroed(visbuffer'[v]) = Zeroed(visbuffer[v])
      /\ UNCHANGED <<oldest, newest, islocked, keepwriting, visindex>>
  BY AddDataIs DEF AddData, lockvars, resultvars
<1>2. \A v \in Vis : visbuffer[v] \in GoodVis /\ visbuffer'[v] \in GoodVis
  <2>1. \A v \in Vis : visbuffer'[v] \in GoodVis
    BY DEF ManagerInv, TypeOK, ScansOK, GoodVis
  <2> QED BY <2>1, BufferIs
<1>3. \A v \in Vis : \A k : Belongs(k, visbuffer'[v]) <=> Belongs(k, visbuffer[v])
  BY <1>1, <1>2, SamePeriod
<1>4. \A v \in Vis : visbuffer[v].got \subseteq visbuffer'[v].got
  BY <1>1
<1>5. ASSUME NEW v \in Vis, Full(visbuffer[v]) PROVE Full(visbuffer'[v])
  BY <1>3, <1>4, <1>5 DEF Full
<1>6. /\ mpc' \notin {"send", "add", "more"}
      /\ mpc' \in {"ahead", "release"} => Complete(visbuffer[visindex])
  BY DEF AddData, Return
<1>7. ASSUME Complete(visbuffer[visindex]) PROVE Full(visbuffer'[visindex])
  <2> DEFINE v == visbuffer[visindex]
  <2>1. v \in GoodVis /\ Expects(v) /\ (\A k \in v.got : Belongs(k, v)) /\ Belongs(result, v)
    BY <1>1, <1>2 DEF ExpectedOK, GotBelong, PlacesOK, LocatedBelongs
  <2>2. result \notin v.got
    <3>1. ~Stored(result)
      BY <1>1 DEF OneResult, Receiving
    <3> QED BY <1>1, <3>1 DEF Stored
  <2>3. \A k \in Subints : Belongs(k, v) => k \in v.got \cup {result}
    BY <1>1, <1>7, <2>1, <2>2, CompleteIsFull
  <2> QED BY <1>1, <1>3, <2>3 DEF Full
<1>8. FullReleased'
  <2>1. ASSUME keepwriting', NEW v \in Vis, InWindow(v)', ~islocked'[v] PROVE Full(visbuffer'[v])
    <3>1. Full(visbuffer[v])
      BY <1>1, <2>1 DEF PlacesOK, FullReleased, InWindow
    <3> QED BY <1>5, <3>1
  <2>2. mpc' \in {"ahead", "release"} => Full(visbuffer'[visindex'])
    BY <1>1, <1>6, <1>7
  <2> QED BY <2>1, <2>2 DEF FullReleased
<1> QED BY <1>6, <1>8 DEF PlacesOK, LocatedBelongs, AfterNewest

\* A full Visibility is released.
LEMMA PlacesRelease ==
    ASSUME ManagerInv, ManagerInv', PlacesOK, LockAhead \/ ReleaseVis
    PROVE  PlacesOK'
<1>1. /\ mpc \in {"ahead", "release"} /\ keepwriting /\ keepwriting' /\ oldest \in Vis /\ newest \in Vis
      /\ visindex \in Vis /\ InWindow(visindex) /\ oldest' \in Vis
      /\ mpc' \notin {"send", "add", "more", "ahead"} /\ UNCHANGED <<visbuffer, visindex>>
  <2>1. /\ mpc \in {"ahead", "release"} /\ UNCHANGED <<keepwriting, visbuffer, visindex>>
        /\ mpc' \notin {"send", "add", "more", "ahead"}
    BY DEF LockAhead, ReleaseVis, Return, resultvars
  <2>2. oldest' \in Vis
    BY DEF ManagerInv, TypeOK
  <2>3. -1 \notin Vis
    BY VisBufferLengthAssumption DEF Vis
  <2> QED BY <2>1, <2>2, <2>3, ReceivingIs DEF Receiving
<1>2. Full(visbuffer[visindex])
  BY <1>1 DEF PlacesOK, FullReleased
<1>3. CASE LockAhead
  <2>1. LockNewest /\ UNCHANGED oldest
    BY <1>3 DEF LockAhead
  <2>2. \A v \in Vis : InWindow(v)' /\ ~islocked'[v] => Full(visbuffer'[v])
    BY <1>1, <2>1, PlacesGrow
  <2> QED BY <1>1, <1>2, <2>2 DEF PlacesOK, LocatedBelongs, AfterNewest, FullReleased
<1>4. CASE ReleaseVis
  <2>1. /\ islocked' = [islocked EXCEPT ![visindex] = FALSE] /\ oldest' = OldestOnceReleased
        /\ UNCHANGED newest /\ visindex # newest /\ mpc' # "release"
    BY <1>4, ReceivingIs DEF ReleaseVis, Return
  <2>2. InWindow(oldest')
    <3>1. CASE oldest = visindex
      BY <1>1, <2>1, <3>1, AdvanceInWindow DEF OldestOnceReleased
    <3>2. CASE oldest # visindex
      BY <2>1, <3>2, ReceivingIs DEF OldestOnceReleased
    <3> QED BY <3>1, <3>2
  <2>3. \A v \in Vis : InWindow(v)' /\ ~islocked'[v] => Full(visbuffer'[v])
    BY <1>1, <1>2, <2>1, <2>2, PlacesShrink
  <2> QED BY <1>1, <2>1, <2>3 DEF PlacesOK, LocatedBelongs, AfterNewest, FullReleased
<1> QED BY <1>3, <1>4

\* Every step.
LEMMA PlacesStep ==
    ASSUME ManagerInv, ManagerInv', PeriodsOK, OneResult, OneInttime, InttimesOK, ExpectedOK, GotBelong,
           PlacesOK, NothingDropped, NothingDropped', [Next]_vars
    PROVE  PlacesOK'
<1>1. CASE Locate \/ LockMore
  BY <1>1, PlacesSearch
<1>2. CASE GiveUp \/ Drop \/ DropLock \/ Dropped
  BY <1>2 DEF GiveUp, Drop, DropLock, Dropped, NothingDropped
<1>3. CASE AddData
  BY <1>3, PlacesAdd
<1>4. CASE LockAhead \/ ReleaseVis
  BY <1>4, PlacesRelease
<1>5. CASE Resend \/ Acknowledge
  <2>1. /\ mpc = "send" /\ mpc' = "add"
        /\ UNCHANGED <<result, visindex, visbuffer, keepwriting, oldest, newest, islocked>>
    BY <1>5 DEF Resend, Acknowledge, resultvars, lockvars
  <2> QED BY <2>1 DEF PlacesOK, LocatedBelongs, AfterNewest, FullReleased, InWindow
<1>6. CASE FillUp \/ Terminate \/ IgnoreStale \/ (\E c \in Cores : Receive(c))
  <2>1. /\ mpc' \notin {"send", "add", "more", "ahead", "release"}
        /\ UNCHANGED <<keepwriting, oldest, newest, islocked, visbuffer>>
    BY <1>6 DEF FillUp, Terminate, IgnoreStale, Receive, Return, lockvars
  <2> QED BY <2>1, PlacesQuiet
<1>7. CASE StopWriter \/ UnlockAll \/ JoinWriter
  <2>1. mpc' \notin {"send", "add", "more", "ahead", "release"} /\ ~keepwriting'
    BY <1>7, ReceivingIs DEF StopWriter, UnlockAll, JoinWriter
  <2> QED BY <2>1, PlacesQuiet
<1>8. CASE IncrementSegment
  <2>1. /\ UNCHANGED <<mpc, result, visindex, oldest, newest, islocked, keepwriting>>
        /\ \A v \in Vis : v # writesegment => visbuffer'[v] = visbuffer[v]
        /\ keepwriting => ~InWindow(writesegment)
    BY <1>8, IncrementIs
  <2> QED BY <2>1, PlacesOthers
<1>9. CASE \/ Interrupt \/ Finished \/ UNCHANGED vars \/ CheckWriting \/ LockSegment
           \/ UnlockPrevSegment \/ WriteSegment \/ UnlockLast \/ FlushSegment
  <2>1. UNCHANGED <<mpc, result, visindex, oldest, newest, islocked, keepwriting, visbuffer>>
    BY <1>9 DEF Interrupt, Finished, vars, CheckWriting, LockSegment, UnlockPrevSegment, WriteSegment,
       UnlockLast, FlushSegment, mainside, resultvars, lockvars
  <2> QED BY <2>1, PlacesOthers
<1> QED BY <1>1, <1>2, <1>3, <1>4, <1>5, <1>6, <1>7, <1>8, <1>9 DEF Next, Main, Writer
-------------------------------------------------------------------------------
(* The theorems.                                                               *)

\* The first Visibilities are as long as all, and expect what their periods have.
LEMMA NewVisExpects ==
    ASSUME OneInttime
    PROVE  \A i \in Nat : NewVis[i].inttime = IntTime[FirstScan] /\ Expects(NewVis[i])
<1> DEFINE S == {i \in Nat : NewVis[i].inttime = IntTime[FirstScan] /\ Expects(NewVis[i])}
<1>1. 0 \in S
  <2>1. NewVis[0].inttime = IntTime[FirstScan] /\ NewVis[0].expected = IntTime[FirstScan]
    BY NewVisType
  <2> QED BY <2>1, PeriodIs DEF Expects
<1>2. ASSUME NEW n \in Nat, n \in S PROVE n + 1 \in S
  <2>1. NewVis[n] \in GoodVis /\ NewVis[n + 1] = UpdateTime(NewVis[n])
    BY NewVisType
  <2> QED BY <1>2, <2>1, UpdateKeeps
<1>3. Nat \subseteq S
  <2> HIDE DEF S
  <2> QED BY <1>1, <1>2, SetInduction
<1> QED BY <1>3

LEMMA BelongInit == OneInttime /\ Init => BelongInv
<1> SUFFICES ASSUME OneInttime, Init PROVE BelongInv
  OBVIOUS
<1>1. /\ visbuffer = [v \in Vis |-> NewVis[v]] /\ mpc = "loop" /\ written = <<>>
      /\ oldest = 0 /\ newest = 1 /\ islocked = [v \in Vis |-> v \in {0, 1}]
      /\ VisBufferLength \in Nat /\ VisBufferLength >= 4
  BY VisBufferLengthAssumption DEF Init
<1>2. \A v \in Vis : v \in Nat /\ visbuffer[v] = NewVis[v]
  BY <1>1 DEF Vis
<1>3. InttimesOK /\ ExpectedOK /\ GotBelong
  BY <1>2, NewVisExpects, NewVisType DEF InttimesOK, ExpectedOK, GotBelong
<1>4. \A v \in Vis : InWindow(v) => islocked[v]
  <2> SUFFICES ASSUME NEW v \in Vis, InWindow(v) PROVE islocked[v]
    OBVIOUS
  <2>1. 0 \in Vis /\ 1 \in Vis /\ v \in Nat
    BY <1>1 DEF Vis
  <2>2. Window(0, v) = v /\ Window(0, 1) = 1
    BY <2>1, WindowIs
  <2>3. v <= 1
    BY <1>1, <2>2 DEF InWindow
  <2> QED BY <1>1, <2>1, <2>3
<1>5. LocatedBelongs /\ AfterNewest /\ FullReleased /\ WrittenBelong
  BY <1>1, <1>4 DEF LocatedBelongs, AfterNewest, FullReleased, WrittenBelong
<1> QED BY <1>3, <1>5 DEF BelongInv

LEMMA BelongStep ==
    /\ ManagerInv /\ ManagerInv' /\ DiskInv /\ OneInttime /\ NothingDropped /\ NothingDropped'
    /\ BelongInv /\ [Next]_vars
    => BelongInv'
<1> SUFFICES ASSUME ManagerInv, ManagerInv', DiskInv, OneInttime, NothingDropped, NothingDropped',
                    BelongInv, [Next]_vars
             PROVE  BelongInv'
  OBVIOUS
<1>1. /\ InttimesOK /\ ExpectedOK /\ GotBelong /\ LocatedBelongs /\ PlacesOK /\ WrittenBelong
      /\ PeriodsOK /\ OneResult
  BY DEF BelongInv, PlacesOK, DiskInv
<1>2. InttimesOK' /\ ExpectedOK' /\ GotBelong'
  BY <1>1, GotStep
<1>3. PlacesOK'
  BY <1>1, PlacesStep
<1>4. WrittenBelong'
  BY <1>1, WrittenStep
<1> QED BY <1>2, <1>3, <1>4 DEF BelongInv, PlacesOK

\* As long as no old data is dropped to make room, and with one integration time,
\* results are located right: what the theorems after it rest on.
THEOREM BelongInvariant == OneInttime /\ Spec /\ []NothingDropped => []BelongInv
<1>1. OneInttime /\ Init => BelongInv
  BY BelongInit
<1>2. /\ ManagerInv /\ ManagerInv' /\ DiskInv /\ OneInttime /\ NothingDropped /\ NothingDropped'
      /\ BelongInv /\ [Next]_vars
      => BelongInv'
  BY BelongStep
<1>3. OneInttime => []OneInttime
  <2>1. OneInttime => OneInttime'
    BY DEF OneInttime, Configured, FirstScan, NumScans
  <2> QED BY <2>1, PTL
<1> QED BY <1>1, <1>2, <1>3, ManagerInvariant, DiskInvariant, PTL DEF Spec

\* Every integration on disk is made of subintegrations of its own period, however late
\* results come, as long as loopwrite is fast enough for no data to be dropped.
THEOREM WrittenBelongs == OneInttime /\ Spec /\ []NothingDropped => []WrittenBelong
<1>1. BelongInv => WrittenBelong
  BY DEF BelongInv
<1> QED BY <1>1, BelongInvariant, PTL

\* A Visibility that is given to the write thread as complete has every subintegration
\* of its period, in the short last integration of a scan too.
THEOREM ReleasedIsFull == OneInttime /\ Spec /\ []NothingDropped => []ReleasedFull
<1>1. BelongInv => ReleasedFull
  BY DEF BelongInv, FullReleased, Full, ReleasedFull
<1> QED BY <1>1, BelongInvariant, PTL

\* addData is on a Visibility that the main thread has locked: one that it has released is
\* full, so that no result is missing in it.
THEOREM HeldIsAdded == OneInttime /\ Spec /\ []NothingDropped => []HeldWhileAdding
<1>1. ManagerInv /\ DiskInv /\ BelongInv => HeldWhileAdding
  <2> SUFFICES ASSUME ManagerInv, DiskInv, BelongInv, mpc = "add", visindex >= 0
               PROVE  owner[visindex] = "main"
    BY DEF HeldWhileAdding
  <2>1. visindex \in Vis /\ InWindow(visindex) /\ keepwriting /\ islocked \in [Vis -> BOOLEAN]
    BY ReceivingIs DEF Receiving
  <2>2. ~Stored(result) /\ result \in Subints
    BY DEF DiskInv, OneResult, Receiving, ManagerInv, DispatchInv, PhaseOK
  <2>3. Belongs(result, visbuffer[visindex])
    BY DEF BelongInv, LocatedBelongs
  <2>4. islocked[visindex]
    <3> SUFFICES ASSUME ~islocked[visindex] PROVE FALSE
      OBVIOUS
    <3>1. Full(visbuffer[visindex])
      BY <2>1 DEF BelongInv, FullReleased
    <3> QED BY <2>1, <2>2, <2>3, <3>1 DEF Full, Stored
  <2> QED BY <2>1, <2>4 DEF ManagerInv, LockInv, WindowOK
<1> QED BY <1>1, BelongInvariant, ManagerInvariant, DiskInvariant, PTL
-------------------------------------------------------------------------------
(* Nothing is lost.                                                            *)

\* The subintegrations that are with Cores, and how many results are still to come.
Out == {k \in Subints : Queued(k)}
Taken == mpc \in {"locate", "more", "drop", "send"}
CountOK ==
    /\ Cardinality(Out) + (IF Taken THEN 1 ELSE 0) =
          IF resend /\ ~Filling THEN RECEIVE_RING_LENGTH * NumCores ELSE sendcount
    /\ mpc \in {"stopwriter", "unlockall", "join", "done"} => sendcount = 0

\* What was dispatched is with a Core, at hand, or stored.
KeptOK == \A k \in 0 .. next - 1 :
    Queued(k) \/ Stored(k) \/ ((Taken \/ mpc = "add") /\ k = result)

\* What was written and is still in the buffer is on disk.
OnDisk(k) == \E i \in 1 .. Len(written) : k \in written[i].got
Gone(v) == \/ wpc = "increment" /\ v = writesegment
           \/ wpc = "flushing" /\ Window(writesegment, v) < updates
           \/ wpc = "ended"
FlushedOK == \A v \in Vis : Gone(v) => \A k \in visbuffer[v].got : OnDisk(k)

\* What is not stored is not before the oldest Visibility, and is not ignored.
NotBefore == keepwriting => \A k \in Subints :
    ~Stored(k) => Difference(k, visbuffer[oldest]) >= 0
NotIgnored == mpc \in {"send", "add"} => visindex >= 0

\* The write thread is joined at the end.
EndedOK == mpc = "done" => wpc = "ended"

KeptInv == CountOK /\ KeptOK /\ FlushedOK /\ NotBefore /\ NotIgnored /\ EndedOK

\* Only so many subintegrations are with Cores.
LEMMA OutIs == Out \subseteq Subints /\ IsFiniteSet(Out) /\ Cardinality(Out) \in Nat
<1>1. NumSubints - 1 \in Int
  BY ScanOfIs
<1>2. IsFiniteSet(Subints)
  BY <1>1, FS_Interval DEF Subints
<1>3. Out \subseteq Subints
  BY DEF Out
<1> QED BY <1>2, <1>3, FS_Subset, FS_CardinalityType

\* One more is sent to a Core.
LEMMA OutSent ==
    ASSUME ManagerInv, OneResult, NEW c \in Cores, SendData(c), next \in Subints
    PROVE  /\ \A k \in Subints : Queued(k)' <=> Queued(k) \/ k = next
           /\ Cardinality(Out') = Cardinality(Out) + 1
<1>1. inflight \in [Cores -> Seq(Subints)]
  BY DEF ManagerInv, TypeOK
<1>2. PICK q \in Seq(Subints) : q = inflight[c]
  BY <1>1
<1>3. inflight'[c] = Append(q, next) /\ \A d \in Cores \ {c} : inflight'[d] = inflight[d]
  BY <1>1, <1>2 DEF SendData
<1>4. /\ Len(q) \in Nat /\ Len(inflight'[c]) = Len(q) + 1 /\ inflight'[c][Len(q) + 1] = next
      /\ \A i \in 1 .. Len(q) : inflight'[c][i] = inflight[c][i]
  BY <1>2, <1>3
<1>5. /\ \A i \in 1 .. Len(inflight'[c]) : i \in 1 .. Len(q) \/ i = Len(q) + 1
      /\ Len(q) + 1 \in 1 .. Len(inflight'[c])
      /\ \A i \in 1 .. Len(q) : i \in 1 .. Len(inflight'[c])
  BY <1>4
<1>6. ASSUME NEW k \in Subints, Queued(k)' PROVE Queued(k) \/ k = next
  <2>1. PICK d \in Cores : \E i \in 1 .. Len(inflight'[d]) : inflight'[d][i] = k
    BY <1>6 DEF Queued
  <2>2. PICK i \in 1 .. Len(inflight'[d]) : inflight'[d][i] = k
    BY <2>1
  <2>3. CASE d = c
    BY <1>2, <1>4, <1>5, <2>2, <2>3 DEF Queued
  <2>4. CASE d # c
    BY <1>3, <2>2, <2>4 DEF Queued
  <2> QED BY <2>3, <2>4
<1>7. ASSUME NEW k \in Subints, Queued(k) PROVE Queued(k)'
  <2>1. PICK d \in Cores : \E i \in 1 .. Len(inflight[d]) : inflight[d][i] = k
    BY <1>7 DEF Queued
  <2>2. PICK i \in 1 .. Len(inflight[d]) : inflight[d][i] = k
    BY <2>1
  <2>3. CASE d = c
    <3>1. i \in 1 .. Len(inflight'[c]) /\ inflight'[c][i] = k
      BY <1>2, <1>4, <1>5, <2>2, <2>3
    <3> QED BY <3>1 DEF Queued
  <2>4. CASE d # c
    <3>1. i \in 1 .. Len(inflight'[d]) /\ inflight'[d][i] = k
      BY <1>3, <2>2, <2>4
    <3> QED BY <3>1 DEF Queued
  <2> QED BY <2>3, <2>4
<1>8. ASSUME NEW k \in Subints, k = next PROVE Queued(k)'
  <2>1. Len(q) + 1 \in 1 .. Len(inflight'[c]) /\ inflight'[c][Len(q) + 1] = k
    BY <1>4, <1>5, <1>8
  <2> QED BY <2>1 DEF Queued
<1>9. \A k \in Subints : Queued(k)' <=> Queued(k) \/ k = next
  BY <1>6, <1>7, <1>8
<1>10. PICK x \in Subints : x = next
  OBVIOUS
<1>11. x \notin Out
  <2>1. Queued(x) => x < x
    BY <1>10 DEF OneResult
  <2> QED BY <2>1 DEF Out, Subints
<1>12. Out' = Out \cup {x}
  BY <1>9, <1>10 DEF Out
<1> QED BY <1>9, <1>11, <1>12, OutIs, FS_AddElement

\* One comes back.
LEMMA OutReceived ==
    ASSUME ManagerInv, OneResult, NEW c \in Cores, Receive(c)
    PROVE  /\ result' \in Subints
           /\ \A k \in Subints : Queued(k) => Queued(k)' \/ k = result'
           /\ Cardinality(Out') = Cardinality(Out) - 1
<1>1. inflight \in [Cores -> Seq(Subints)]
  BY DEF ManagerInv, TypeOK
<1>2. PICK q \in Seq(Subints) : q = inflight[c]
  BY <1>1
<1>3. /\ q # <<>> /\ result' = Head(q) /\ inflight'[c] = Tail(q)
      /\ \A d \in Cores \ {c} : inflight'[d] = inflight[d]
  BY <1>1, <1>2 DEF Receive
<1>4. /\ Len(q) \in Nat /\ 1 \in 1 .. Len(q) /\ result' = q[1] /\ result' \in Subints
      /\ Len(inflight'[c]) = Len(q) - 1
      /\ \A i \in 1 .. Len(q) - 1 : inflight'[c][i] = q[i + 1]
  BY <1>2, <1>3
<1>5. PICK x \in Subints : x = result'
  BY <1>4
<1>6. Queued(x)
  BY <1>2, <1>4, <1>5 DEF Queued
<1>7. ~Queued(x)'
  <2>1. OneResult' /\ mpc' = "locate"
    BY OneResultReceived DEF Receive
  <2>2. ~Queued(result)'
    BY <2>1 DEF OneResult, Receiving
  <2> QED BY <1>5, <2>2 DEF Queued
<1>8. ASSUME NEW k \in Subints, Queued(k), k # x PROVE Queued(k)'
  <2>1. PICK d \in Cores : \E i \in 1 .. Len(inflight[d]) : inflight[d][i] = k
    BY <1>8 DEF Queued
  <2>2. PICK i \in 1 .. Len(inflight[d]) : inflight[d][i] = k
    BY <2>1
  <2>3. CASE d = c
    <3>1. q[i] = k /\ i # 1 /\ i \in 1 .. Len(q)
      BY <1>2, <1>4, <1>5, <1>8, <2>2, <2>3
    <3>2. i - 1 \in 1 .. Len(q) - 1 /\ i - 1 + 1 = i
      BY <1>4, <3>1
    <3>3. inflight'[c][i - 1] = q[i - 1 + 1]
      BY <1>4, <3>2
    <3>4. i - 1 \in 1 .. Len(inflight'[c]) /\ inflight'[c][i - 1] = k
      BY <1>4, <3>1, <3>2, <3>3
    <3> QED BY <3>4 DEF Queued
  <2>4. CASE d # c
    <3>1. i \in 1 .. Len(inflight'[d]) /\ inflight'[d][i] = k
      BY <1>3, <2>2, <2>4
    <3> QED BY <3>1 DEF Queued
  <2> QED BY <2>3, <2>4
<1>9. ASSUME NEW k \in Subints, Queued(k)' PROVE Queued(k)
  <2>1. PICK d \in Cores : \E i \in 1 .. Len(inflight'[d]) : inflight'[d][i] = k
    BY <1>9 DEF Queued
  <2>2. PICK i \in 1 .. Len(inflight'[d]) : inflight'[d][i] = k
    BY <2>1
  <2>3. CASE d = c
    <3>1. i \in 1 .. Len(q) - 1 /\ i + 1 \in 1 .. Len(q)
      BY <1>4, <2>2, <2>3
    <3>2. inflight[c][i + 1] = k /\ i + 1 \in 1 .. Len(inflight[c])
      BY <1>2, <1>4, <2>2, <2>3, <3>1
    <3> QED BY <3>2 DEF Queued
  <2>4. CASE d # c
    BY <1>3, <2>2, <2>4 DEF Queued
  <2> QED BY <2>3, <2>4
<1>10. Out' = Out \ {x} /\ x \in Out
  BY <1>6, <1>7, <1>8, <1>9 DEF Out
<1> QED BY <1>4, <1>5, <1>8, <1>10, OutIs, FS_RemoveElement
\* As many results are waited for as are still to come.
LEMMA CountStep ==
    ASSUME ManagerInv, OneResult, CountOK, [Next]_vars
    PROVE  CountOK'
<1> DEFINE R == RECEIVE_RING_LENGTH * NumCores
           n == Cardinality(Out)
<1>1. /\ sendcount \in Nat /\ next \in 0 .. NumSubints /\ NumSubints \in Nat /\ resend \in BOOLEAN
      /\ source \in Cores /\ NumCores \in Nat \ {0} /\ R \in Nat /\ R > 0 /\ n \in Nat
  BY NumCoresAssumption, ScanOfIs, OutIs DEF ManagerInv, TypeOK, RECEIVE_RING_LENGTH
<1>2. /\ mpc = "loop" => resend
      /\ resend /\ sendcount < R => mpc = "loop"
      /\ resend /\ mpc = "send" => next < NumSubints
  BY DEF ManagerInv, DispatchInv, PhaseOK, FillOK, Filling
<1>3. /\ n + (IF Taken THEN 1 ELSE 0) = IF resend /\ ~(sendcount < R) THEN R ELSE sendcount
      /\ mpc \in {"stopwriter", "unlockall", "join", "done"} => sendcount = 0
  BY DEF CountOK, Filling
<1>4. CountOK' <=>
      /\ Cardinality(Out') + (IF Taken' THEN 1 ELSE 0) =
            IF resend' /\ ~(sendcount' < R) THEN R ELSE sendcount'
      /\ mpc' \in {"stopwriter", "unlockall", "join", "done"} => sendcount' = 0
  BY DEF CountOK, Filling
<1>5. UNCHANGED inflight => Out' = Out
  BY DEF Out, Queued
<1> HIDE DEF R, n
<1>6. CASE FillUp
  <2>1. /\ SendData(sendcount % NumCores) /\ next < NumSubints /\ mpc = "loop" /\ mpc' = "loop"
        /\ sendcount < R /\ sendcount' = sendcount + 1 /\ UNCHANGED resend
    BY <1>6 DEF FillUp, More, Filling, R
  <2>2. sendcount % NumCores \in Cores /\ next \in Subints
    BY <1>1, <2>1 DEF Cores, Subints
  <2>3. Cardinality(Out') = n + 1
    BY <2>1, <2>2, OutSent DEF n
  <2>4. ~Taken /\ ~Taken' /\ resend
    BY <1>2, <2>1 DEF Taken
  <2>5. Cardinality(Out') = sendcount + 1
    BY <1>1, <1>3, <2>1, <2>3, <2>4
  <2>6. PICK s \in Nat : s = sendcount
    BY <1>1
  <2>7. CASE s + 1 < R
    BY <1>1, <1>4, <2>1, <2>4, <2>5, <2>6, <2>7
  <2>8. CASE ~(s + 1 < R)
    <3>1. s + 1 = R
      BY <1>1, <2>1, <2>6, <2>8
    <3>2. ~(sendcount' < R) /\ Cardinality(Out') = R
      BY <1>1, <2>1, <2>5, <2>6, <3>1
    <3> QED BY <1>1, <1>4, <2>1, <2>4, <3>2
  <2> QED BY <2>7, <2>8
<1>7. CASE Resend
  <2>1. /\ SendData(source) /\ mpc = "send" /\ mpc' = "add" /\ resend
        /\ sendcount' = sendcount + 1 /\ UNCHANGED resend
    BY <1>7 DEF Resend
  <2>2. next \in Subints
    BY <1>1, <1>2, <2>1 DEF Subints
  <2>3. Cardinality(Out') = n + 1
    BY <1>1, <2>1, <2>2, OutSent DEF n
  <2>4. Taken /\ ~Taken' /\ ~(sendcount < R)
    BY <1>2, <2>1 DEF Taken
  <2>5. n + 1 = R
    BY <1>3, <2>1, <2>4
  <2>6. ~(sendcount' < R)
    BY <1>1, <2>1, <2>4
  <2> QED BY <1>1, <1>4, <2>1, <2>3, <2>4, <2>5, <2>6
<1>8. CASE \E c \in Cores : Receive(c)
  <2>1. PICK c \in Cores : Receive(c)
    BY <1>8
  <2>2. Cardinality(Out') = n - 1
    BY <2>1, OutReceived DEF n
  <2>3. /\ mpc \in {"loop", "final"} /\ mpc' = "locate" /\ UNCHANGED <<resend, sendcount>>
    BY <2>1 DEF Receive
  <2>4. ~Taken /\ Taken'
    BY <2>3 DEF Taken
  <2> QED BY <1>1, <1>3, <1>4, <2>2, <2>3, <2>4
<1>9. CASE Terminate
  <2>1. /\ mpc = "loop" /\ resend /\ ~resend' /\ UNCHANGED inflight
        /\ sendcount' = IF sendcount < R THEN sendcount ELSE R
        /\ mpc' = IF sendcount = 0 THEN "stopwriter" ELSE "final"
    BY <1>2, <1>9 DEF Terminate, FinalResults, Filling, R
  <2>2. ~Taken /\ ~Taken' /\ Cardinality(Out') = n
    BY <1>5, <2>1 DEF Taken, n
  <2>3. n = IF sendcount < R THEN sendcount ELSE R
    BY <1>1, <1>3, <2>1, <2>2
  <2> QED BY <1>1, <1>4, <2>1, <2>2, <2>3
<1>10. CASE Acknowledge
  <2>1. /\ mpc = "send" /\ ~resend /\ ~resend' /\ UNCHANGED inflight
        /\ sendcount' = sendcount - 1 /\ mpc' = "add"
    BY <1>10 DEF Acknowledge
  <2>2. Taken /\ ~Taken' /\ Cardinality(Out') = n
    BY <1>5, <2>1 DEF Taken, n
  <2>3. n + 1 = sendcount
    BY <1>3, <2>1, <2>2
  <2> QED BY <1>1, <1>4, <2>1, <2>2, <2>3
<1>11. CASE ~(FillUp \/ Resend \/ (\E c \in Cores : Receive(c)) \/ Terminate \/ Acknowledge)
  <2>1. UNCHANGED <<inflight, resend, sendcount>>
    BY <1>11 DEF Next, Main, Writer, Locate, LockMore, GiveUp, Drop, DropLock,
       Dropped, IgnoreStale, AddData, LockAhead, ReleaseVis, StopWriter, UnlockAll, JoinWriter,
       Interrupt, Finished, vars, dispatchvars, mainside, CheckWriting, LockSegment,
       UnlockPrevSegment, WriteSegment, IncrementSegment, UnlockLast, FlushSegment
  <2>2. /\ Taken' <=> Taken
        /\ mpc' \in {"stopwriter", "unlockall", "join", "done"} =>
              mpc \in {"stopwriter", "unlockall", "join", "done"} \/ sendcount = 0
    BY <1>11 DEF Next, Main, Writer, Locate, LockMore, GiveUp, Drop, DropLock, Return,
       Dropped, IgnoreStale, AddData, LockAhead, ReleaseVis, StopWriter, UnlockAll, JoinWriter,
       Interrupt, Finished, vars, mainside, CheckWriting, LockSegment,
       UnlockPrevSegment, WriteSegment, IncrementSegment, UnlockLast, FlushSegment, Taken
  <2>3. Cardinality(Out') = n
    BY <1>5, <2>1 DEF n
  <2> QED BY <1>3, <1>4, <2>1, <2>2, <2>3
<1> QED BY <1>6, <1>7, <1>8, <1>9, <1>10, <1>11

\* What is on disk stays there.
LEMMA OnDiskKept ==
    ASSUME ManagerInv, [Next]_vars, NEW k, OnDisk(k)
    PROVE  OnDisk(k)'
<1>1. /\ visbuffer \in [Vis -> VisType] /\ writesegment \in Vis /\ updates \in 0 .. VisBufferLength - 1
      /\ written \in Seq(VisType) /\ Len(written) \in Nat
  BY BufferIs
<1>2. PICK i \in 1 .. Len(written) : k \in written[i].got
  BY DEF OnDisk
<1>3. ASSUME NEW v \in Vis, Writedata(visbuffer[v]) PROVE OnDisk(k)'
  <2>1. visbuffer[v] \in VisType
    BY <1>1
  <2>2. CASE Len(written') = Len(written) + 1 /\ \A j \in 1 .. Len(written) : written'[j] = written[j]
    <3>1. i \in 1 .. Len(written') /\ k \in written'[i].got
      BY <1>1, <1>2, <2>2
    <3> QED BY <3>1 DEF OnDisk
  <2>3. CASE written' = written
    BY <2>3 DEF OnDisk
  <2> QED BY <1>1, <1>3, <2>1, <2>2, <2>3, WritedataIs
<1>4. CASE WriteSegment
  BY <1>1, <1>3, <1>4 DEF WriteSegment
<1>5. CASE FlushSegment
  <2>1. ToFlush \in Vis
    BY <1>1, PlaceIs DEF ToFlush
  <2> QED BY <1>3, <1>5, <2>1 DEF FlushSegment
<1>6. CASE ~WriteSegment /\ ~FlushSegment
  BY <1>6, WrittenKept DEF OnDisk
<1> QED BY <1>4, <1>5, <1>6

\* What was stored stays so: increment() zeroes what is on disk.
LEMMA StoredKept ==
    ASSUME ManagerInv, FlushedOK, [Next]_vars, NEW k, Stored(k)
    PROVE  Stored(k)'
<1>1. OnDisk(k) => Stored(k)'
  BY OnDiskKept DEF OnDisk, Stored
<1>2. ASSUME NEW v \in Vis, k \in visbuffer[v].got PROVE Stored(k)'
  <2>1. CASE AddData
    <3>1. k \in visbuffer'[v].got
      BY <1>2, <2>1, AddDataIs
    <3> QED BY <3>1 DEF Stored
  <2>2. CASE IncrementSegment
    <3>1. CASE v = writesegment
      <4>1. OnDisk(k)
        BY <1>2, <2>2, <3>1 DEF FlushedOK, Gone, IncrementSegment
      <4> QED BY <1>1, <4>1
    <3>2. CASE v # writesegment
      <4>1. visbuffer'[v] = visbuffer[v]
        BY <2>2, <3>2, IncrementIs
      <4> QED BY <1>2, <4>1 DEF Stored
    <3> QED BY <3>1, <3>2
  <2>3. CASE ~AddData /\ ~IncrementSegment
    BY <1>2, <2>3, VisKept DEF Stored
  <2> QED BY <2>1, <2>2, <2>3
<1> QED BY <1>1, <1>2 DEF Stored, OnDisk
\* What is in a Visibility that is written is then on disk.
LEMMA WritedataStores ==
    ASSUME ManagerInv, OneInttime, InttimesOK, GotBelong, NEW v \in Vis, Writedata(visbuffer[v]),
           NEW k \in visbuffer[v].got
    PROVE  OnDisk(k)'
<1>1. /\ visbuffer[v] \in VisType /\ visbuffer[v] \in GoodVis /\ written \in Seq(VisType)
      /\ visbuffer[v].inttime = IntTime[FirstScan]
  BY BufferIs DEF InttimesOK
<1>2. k \in Subints
  BY <1>1, VisParts
<1>3. Belongs(k, visbuffer[v])
  BY DEF GotBelong
<1>4. ~PastEnd(visbuffer[v])
  BY <1>1, <1>2, <1>3, FitsBelongs
<1>5. ToWrite(visbuffer[v])
  BY <1>4 DEF ToWrite
<1>6. /\ Len(written) \in Nat /\ Len(written') = Len(written) + 1
      /\ written'[Len(written) + 1] = visbuffer[v]
  BY <1>1, <1>5, WritedataIs
<1>7. Len(written) + 1 \in 1 .. Len(written')
  BY <1>6
<1> QED BY <1>6, <1>7 DEF OnDisk

\* What the write thread has gone through is on disk.
LEMMA FlushedStep ==
    ASSUME ManagerInv, PeriodsOK, OneInttime, InttimesOK, GotBelong, FlushedOK, [Next]_vars
    PROVE  FlushedOK'
<1>1. /\ writesegment \in Vis /\ updates \in 0 .. VisBufferLength - 1
      /\ VisBufferLength \in Nat /\ VisBufferLength >= 4
  BY BufferIs
<1>2. ASSUME NEW v \in Vis, Gone(v), NEW k \in visbuffer[v].got PROVE OnDisk(k)'
  BY <1>2, OnDiskKept DEF FlushedOK
<1>3. CASE AddData
  <2>1. /\ visindex \in Vis /\ mpc = "add" /\ \A v \in Vis \ {visindex} : visbuffer'[v] = visbuffer[v]
        /\ UNCHANGED <<wpc, writesegment, updates>>
    BY <1>3, AddDataIs DEF writevars
  <2>2. ~Gone(visindex)
    <3>1. keepwriting /\ InWindow(visindex)
      <4>1. -1 \notin Vis
        BY <1>1 DEF Vis
      <4> QED BY <2>1, <4>1, ReceivingIs DEF Receiving
    <3>2. wpc \notin {"flushing", "ended"}
      BY <3>1 DEF ManagerInv, LockInv, WriterOK
    <3>3. visindex = writesegment => wpc # "increment"
      BY <2>1, <3>1, ReceivingIs
    <3> QED BY <3>2, <3>3 DEF Gone
  <2>3. \A v \in Vis : Gone(v)' => Gone(v) /\ visbuffer'[v] = visbuffer[v]
    BY <2>1, <2>2 DEF Gone, Window
  <2> QED BY <1>2, <2>3 DEF FlushedOK
<1>4. CASE IncrementSegment
  <2>1. /\ \A v \in Vis : v # writesegment => visbuffer'[v] = visbuffer[v]
        /\ wpc = "increment" /\ wpc' \in {"increment", "check"}
        /\ wpc' = "increment" => writesegment' = writesegment
    BY <1>4, IncrementIs DEF IncrementSegment
  <2> SUFFICES ASSUME NEW v \in Vis, Gone(v)', NEW k \in visbuffer'[v].got PROVE OnDisk(k)'
    BY DEF FlushedOK
  <2>2. v = writesegment /\ Gone(v)
    BY <2>1 DEF Gone
  <2>3. CASE visbuffer' = visbuffer
    BY <1>2, <2>2, <2>3
  <2>4. CASE visbuffer'[writesegment] = Zeroed(UpdateTime(visbuffer[writesegment]))
    <3>1. UpdateTime(visbuffer[writesegment]) \in GoodVis
      BY <1>1, BufferIs, UpdateTimeType
    <3>2. visbuffer'[v].got = {}
      BY <2>2, <2>4, <3>1, ZeroedIs
    <3> QED BY <3>2
  <2> QED BY <1>4, <2>3, <2>4, IncrementIs
<1>5. CASE WriteSegment
  <2>1. /\ Writedata(visbuffer[writesegment]) /\ UNCHANGED <<visbuffer, writesegment>>
        /\ wpc' = "increment"
    BY <1>5 DEF WriteSegment
  <2> SUFFICES ASSUME NEW v \in Vis, Gone(v)', NEW k \in visbuffer'[v].got PROVE OnDisk(k)'
    BY DEF FlushedOK
  <2>2. v = writesegment
    BY <2>1 DEF Gone
  <2> QED BY <2>1, <2>2, WritedataStores
<1>6. CASE FlushSegment
  <2>1. /\ wpc = "flushing" /\ Writedata(visbuffer[ToFlush]) /\ UNCHANGED <<visbuffer, writesegment>>
        /\ \/ wpc' = "ended" /\ updates = VisBufferLength - 1
           \/ wpc' = "flushing" /\ updates' = updates + 1
    BY <1>6 DEF FlushSegment
  <2>2. ToFlush \in Vis /\ Window(writesegment, ToFlush) = updates
    BY <1>1, PlaceFacts DEF ToFlush, Place
  <2> SUFFICES ASSUME NEW v \in Vis, Gone(v)', NEW k \in visbuffer'[v].got PROVE OnDisk(k)'
    BY DEF FlushedOK
  <2>3. Window(writesegment, v) \in 0 .. VisBufferLength - 1
    BY <1>1, WindowIs
  <2>4. Window(writesegment, v) < updates \/ Window(writesegment, v) = updates
    <3>1. CASE wpc' = "ended" /\ updates = VisBufferLength - 1
      BY <1>1, <2>3, <3>1
    <3>2. CASE wpc' = "flushing" /\ updates' = updates + 1
      <4>1. Window(writesegment, v) < updates + 1
        BY <2>1, <3>2 DEF Gone, Window
      <4> QED BY <1>1, <2>3, <4>1
    <3> QED BY <2>1, <3>1, <3>2
  <2>5. CASE Window(writesegment, v) < updates
    BY <1>2, <2>1, <2>5 DEF Gone
  <2>6. CASE Window(writesegment, v) = updates
    <3>1. v = ToFlush
      BY <1>1, <2>2, <2>6, WindowFacts
    <3> QED BY <2>1, <2>2, <3>1, WritedataStores
  <2> QED BY <2>4, <2>5, <2>6
<1>7. CASE ~(AddData \/ IncrementSegment \/ WriteSegment \/ FlushSegment)
  <2>1. UNCHANGED <<visbuffer, writesegment, updates>>
    BY <1>7 DEF Next, Main, Writer, FillUp, Terminate, Locate, LockMore, GiveUp, Drop, DropLock,
       Dropped, Resend, Acknowledge, IgnoreStale, LockAhead, ReleaseVis, StopWriter, UnlockAll,
       JoinWriter, Receive, Interrupt, Finished, vars, writevars, CheckWriting, LockSegment,
       UnlockPrevSegment, UnlockLast
  <2>2. wpc' = wpc \/ wpc' \in {"lock", "flush", "unlockprev", "write"}
        \/ (wpc = "flush" /\ wpc' = "flushing")
    BY <1>7 DEF Next, Main, Writer, FillUp, Terminate, Locate, LockMore, GiveUp, Drop, DropLock,
       Dropped, Resend, Acknowledge, IgnoreStale, LockAhead, ReleaseVis, StopWriter, UnlockAll,
       JoinWriter, Receive, Interrupt, Finished, vars, writevars, CheckWriting, LockSegment,
       UnlockPrevSegment, UnlockLast
  <2>3. ASSUME NEW v \in Vis, Gone(v)' PROVE Gone(v)
    <3>1. CASE wpc = "flush" /\ wpc' = "flushing"
      <4>1. updates = 0
        BY <3>1 DEF PeriodsOK
      <4>2. Window(writesegment, v) < 0
        BY <2>1, <2>3, <3>1, <4>1 DEF Gone, Window
      <4>3. Window(writesegment, v) \in 0 .. VisBufferLength - 1
        BY <1>1, WindowIs
      <4> QED BY <1>1, <4>2, <4>3
    <3>2. CASE ~(wpc = "flush" /\ wpc' = "flushing")
      BY <2>1, <2>2, <2>3, <3>2 DEF Gone, Window
    <3> QED BY <3>1, <3>2
  <2> QED BY <1>2, <2>1, <2>3 DEF FlushedOK
<1> QED BY <1>3, <1>4, <1>5, <1>6, <1>7

\* The write thread stays as it ended.
LEMMA EndedStep ==
    ASSUME EndedOK, [Next]_vars
    PROVE  EndedOK'
<1>1. mpc' = "done" => wpc = "ended"
  BY DEF Next, Main, Writer, FillUp, Terminate, Locate, LockMore, GiveUp, Drop, DropLock, Return,
     Dropped, Resend, Acknowledge, IgnoreStale, AddData, LockAhead, ReleaseVis, StopWriter, UnlockAll,
     JoinWriter, Receive, Interrupt, Finished, vars, mainside, CheckWriting, LockSegment,
     UnlockPrevSegment, WriteSegment, IncrementSegment, UnlockLast, FlushSegment, EndedOK
<1>2. wpc = "ended" => wpc' = "ended"
  BY DEF Next, Main, Writer, FillUp, Terminate, Locate, LockMore, GiveUp, Drop, DropLock,
     Dropped, Resend, Acknowledge, IgnoreStale, AddData, LockAhead, ReleaseVis, StopWriter, UnlockAll,
     JoinWriter, Receive, Interrupt, Finished, vars, writevars, CheckWriting, LockSegment,
     UnlockPrevSegment, WriteSegment, IncrementSegment, UnlockLast, FlushSegment
<1> QED BY <1>1, <1>2 DEF EndedOK

\* What is not stored is not before the oldest Visibility: all that are passed over when
\* one is released are full.
LEMMA NotBeforeStep ==
    ASSUME ManagerInv, ManagerInv', PeriodsOK, OneInttime, InttimesOK, FullReleased, FlushedOK, Roomy,
           NotBefore, [Next]_vars
    PROVE  NotBefore'
<1> SUFFICES ASSUME keepwriting', NEW k \in Subints, ~Stored(k)'
             PROVE  Difference(k, visbuffer'[oldest']) >= 0
  BY DEF NotBefore
<1>1. ~Stored(k)
  BY StoredKept
<1>2. keepwriting /\ oldest \in Vis /\ newest \in Vis /\ InWindow(oldest)
  <2>1. keepwriting
    BY DEF Next, Main, Writer, FillUp, Terminate, Locate, LockMore, GiveUp, Drop, DropLock,
       Dropped, Resend, Acknowledge, IgnoreStale, AddData, LockAhead, ReleaseVis, StopWriter, UnlockAll,
       JoinWriter, Receive, Interrupt, Finished, vars, mainside, CheckWriting, LockSegment,
       UnlockPrevSegment, WriteSegment, IncrementSegment, UnlockLast, FlushSegment
  <2> QED BY <2>1, ReceivingIs
<1>3. Difference(k, visbuffer[oldest]) >= 0
  BY <1>1, <1>2 DEF NotBefore
<1>4. CASE ReleaseVis /\ oldest = visindex
  <2>1. /\ visindex # newest /\ UNCHANGED visbuffer /\ mpc = "release"
        /\ oldest' = Advance(oldest, [islocked EXCEPT ![oldest] = FALSE])
    BY <1>4, ReceivingIs DEF ReleaseVis, OldestOnceReleased
  <2>2. PICK o \in Vis : /\ o = oldest' /\ InWindow(o)
                         /\ \A v \in Vis : Window(oldest, v) < Window(oldest, o) =>
                               ~islocked[v] \/ v = oldest
    BY <1>2, <1>4, <2>1, AdvanceInWindow
  <2>3. Window(oldest, o) <= Window(oldest, newest)
    BY <2>2 DEF InWindow
  <2>4. ASSUME NEW v \in Vis, Window(oldest, v) < Window(oldest, o) PROVE ~Belongs(k, visbuffer[v])
    <3>1. InWindow(v)
      <4>1. /\ Window(oldest, v) \in 0 .. VisBufferLength - 1 /\ Window(oldest, o) \in 0 .. VisBufferLength - 1
            /\ Window(oldest, newest) \in 0 .. VisBufferLength - 1 /\ VisBufferLength \in Nat
        BY <1>2, WindowIs, VisBufferLengthAssumption
      <4> QED BY <2>3, <2>4, <4>1 DEF InWindow
    <3>2. Full(visbuffer[v])
      BY <1>2, <1>4, <2>1, <2>2, <2>4, <3>1 DEF FullReleased
    <3> QED BY <1>1, <3>2 DEF Full, Stored
  <2>5. Difference(k, visbuffer[o]) >= 0
    BY <1>2, <1>3, <2>3, <2>4, ChainTo
  <2> QED BY <2>1, <2>2, <2>5
<1>5. CASE ~(ReleaseVis /\ oldest = visindex)
  <2>1. oldest' = oldest
    BY <1>5 DEF Next, Main, Writer, FillUp, Terminate, Locate, LockMore, GiveUp, Drop, DropLock,
       Dropped, Resend, Acknowledge, IgnoreStale, AddData, LockAhead, ReleaseVis, StopWriter, UnlockAll,
       JoinWriter, Receive, Interrupt, Finished, vars, lockvars, mainside, CheckWriting, LockSegment,
       UnlockPrevSegment, WriteSegment, IncrementSegment, UnlockLast, FlushSegment, OldestOnceReleased,
       OldestAfter, Roomy, NothingDropped
  <2>2. Difference(k, visbuffer'[oldest]) = Difference(k, visbuffer[oldest])
    <3>1. CASE AddData
      <4>1. Zeroed(visbuffer'[oldest]) = Zeroed(visbuffer[oldest])
        BY <1>2, <3>1, AddDataIs
      <4>2. visbuffer[oldest] \in GoodVis /\ visbuffer'[oldest] \in GoodVis
        <5>1. visbuffer'[oldest] \in GoodVis
          BY <1>2 DEF ManagerInv, TypeOK, ScansOK, GoodVis
        <5> QED BY <1>2, <5>1, BufferIs
      <4> QED BY <4>1, <4>2, SamePeriod
    <3>2. CASE IncrementSegment
      <4>1. visbuffer'[oldest] = visbuffer[oldest]
        BY <1>2, <3>2, IncrementIs
      <4> QED BY <4>1
    <3>3. CASE ~AddData /\ ~IncrementSegment
      BY <3>3, VisKept
    <3> QED BY <3>1, <3>2, <3>3
  <2> QED BY <1>3, <2>1, <2>2
<1> QED BY <1>4, <1>5

\* No result is taken for stale.
LEMMA NotIgnoredStep ==
    ASSUME ManagerInv, ManagerInv', PeriodsOK, OneResult, OneInttime, InttimesOK, Roomy, Roomy', NotBefore,
           NotIgnored, [Next]_vars
    PROVE  NotIgnored'
<1>1. CASE Locate
  <2>1. mpc = "locate" /\ ~Crowded
    BY <1>1 DEF Locate, Roomy
  <2>2. keepwriting /\ result \in Subints /\ ~Stored(result)
    BY <2>1, ReceivingIs DEF Receiving, OneResult, ManagerInv, DispatchInv, PhaseOK
  <2>3. Difference(result, visbuffer[oldest]) >= 0
    BY <2>2 DEF NotBefore
  <2>4. mpc' = "more" \/ visindex' >= 0
    BY <1>1, <2>1, <2>3, LocateRight
  <2> QED BY <2>4 DEF NotIgnored
<1>2. CASE LockMore
  <2>1. Succ(newest) >= 0
    <3>1. newest \in Vis
      BY ReceivingIs
    <3>2. Succ(newest) \in Vis
      BY <3>1, SuccIs
    <3> QED BY <3>2, VisBufferLengthAssumption DEF Vis
  <2>2. mpc' = "more" \/ visindex' = Succ(newest)
    BY <1>2 DEF LockMore
  <2> QED BY <2>1, <2>2 DEF NotIgnored
<1>3. CASE ~Locate /\ ~LockMore
  <2>1. mpc' \in {"send", "add"} => mpc \in {"send", "add"} /\ UNCHANGED visindex
    BY <1>3 DEF Next, Main, Writer, FillUp, Terminate, GiveUp, Drop, DropLock, Return,
       Dropped, Resend, Acknowledge, IgnoreStale, AddData, LockAhead, ReleaseVis, StopWriter, UnlockAll,
       JoinWriter, Receive, Interrupt, Finished, vars, resultvars, mainside, CheckWriting, LockSegment,
       UnlockPrevSegment, WriteSegment, IncrementSegment, UnlockLast, FlushSegment, Roomy, NothingDropped
  <2> QED BY <2>1 DEF NotIgnored
<1> QED BY <1>1, <1>2, <1>3

\* What was dispatched is somewhere.
LEMMA KeptStep ==
    ASSUME ManagerInv, OneResult, FlushedOK, NotIgnored, KeptOK, [Next]_vars
    PROVE  KeptOK'
<1> DEFINE Hand == Taken \/ mpc = "add"
<1>1. next \in 0 .. NumSubints /\ NumSubints \in Nat /\ source \in Cores /\ NumCores \in Nat \ {0}
      /\ sendcount \in Nat /\ \A k \in 0 .. next - 1 : k \in Subints
  <2>1. next \in 0 .. NumSubints /\ NumSubints \in Nat /\ source \in Cores /\ sendcount \in Nat
    BY ScanOfIs DEF ManagerInv, TypeOK
  <2> QED BY <2>1, NumCoresAssumption DEF Subints
<1>2. \A k : Stored(k) => Stored(k)'
  BY StoredKept
<1>3. \A k \in 0 .. next - 1 : Queued(k) \/ Stored(k) \/ (Hand /\ k = result)
  BY DEF KeptOK
<1>4. ASSUME NEW c \in Cores, SendData(c), next \in Subints, Hand' <=> Hand, UNCHANGED result
      PROVE  KeptOK'
  <2> SUFFICES ASSUME NEW k \in 0 .. next' - 1 PROVE Queued(k)' \/ Stored(k)' \/ (Hand' /\ k = result')
    BY DEF KeptOK, Taken
  <2>1. next' = next + 1
    BY <1>4 DEF SendData
  <2>2. k \in 0 .. next - 1 \/ k = next
    BY <1>1, <2>1
  <2>3. \A j \in Subints : Queued(j) \/ j = next => Queued(j)'
    BY <1>4, OutSent
  <2>4. CASE k = next
    BY <1>4, <2>3, <2>4
  <2>5. CASE k \in 0 .. next - 1
    BY <1>1, <1>2, <1>3, <1>4, <2>3, <2>5
  <2> QED BY <2>2, <2>4, <2>5
<1>5. CASE FillUp
  <2>1. /\ SendData(sendcount % NumCores) /\ next < NumSubints /\ UNCHANGED <<mpc, result>>
    BY <1>5 DEF FillUp, More, resultvars
  <2>2. sendcount % NumCores \in Cores /\ next \in Subints
    BY <1>1, <2>1 DEF Cores, Subints
  <2> QED BY <1>4, <2>1, <2>2 DEF Taken
<1>6. CASE Resend
  <2>1. /\ SendData(source) /\ mpc = "send" /\ mpc' = "add" /\ UNCHANGED result /\ resend
    BY <1>6 DEF Resend, resultvars
  <2>2. next < NumSubints
    BY <2>1 DEF ManagerInv, DispatchInv, PhaseOK
  <2>3. next \in Subints
    BY <1>1, <2>2 DEF Subints
  <2> QED BY <1>1, <1>4, <2>1, <2>3 DEF Taken
<1>7. CASE \E c \in Cores : Receive(c)
  <2>1. PICK c \in Cores : Receive(c)
    BY <1>7
  <2>2. mpc \in {"loop", "final"} /\ mpc' = "locate" /\ UNCHANGED next
    BY <2>1 DEF Receive
  <2>3. ~Hand /\ Hand'
    BY <2>2 DEF Taken
  <2>4. \A k \in Subints : Queued(k) => Queued(k)' \/ k = result'
    BY <2>1, OutReceived
  <2>5. \A k \in 0 .. next - 1 : Queued(k)' \/ Stored(k)' \/ (Hand' /\ k = result')
    BY <1>1, <1>2, <1>3, <2>3, <2>4
  <2> QED BY <2>2, <2>5 DEF KeptOK, Taken
<1>8. CASE AddData
  <2>1. /\ visindex \in Vis /\ visbuffer'[visindex].got = visbuffer[visindex].got \cup {result}
        /\ UNCHANGED <<inflight, next>>
    BY <1>8, AddDataIs
  <2>2. PICK x : x = result
    OBVIOUS
  <2>3. \A k : Queued(k)' <=> Queued(k)
    BY <2>1 DEF Queued
  <2>4. \A k \in 0 .. next - 1 : Queued(k)' \/ Stored(k)'
    <3>1. \E v \in Vis : x \in visbuffer'[v].got
      BY <2>1, <2>2
    <3>2. Stored(x)'
      BY <3>1 DEF Stored
    <3> QED BY <1>2, <1>3, <2>2, <2>3, <3>2
  <2> QED BY <2>1, <2>4 DEF KeptOK
<1>9. CASE IgnoreStale
  <2>1. mpc = "add" /\ visindex < 0
    BY <1>9 DEF IgnoreStale
  <2>2. visindex \in Int
    BY VisBufferLengthAssumption DEF ManagerInv, TypeOK, Vis
  <2> QED BY <2>1, <2>2 DEF NotIgnored
<1>10. CASE ~(FillUp \/ Resend \/ (\E c \in Cores : Receive(c)) \/ AddData \/ IgnoreStale)
  <2>1. UNCHANGED <<inflight, next, result>>
    BY <1>10 DEF Next, Main, Writer, Terminate, Locate, LockMore, GiveUp, Drop, DropLock,
       Dropped, Acknowledge, LockAhead, ReleaseVis, StopWriter, UnlockAll, JoinWriter, Interrupt,
       Finished, vars, dispatchvars, resultvars, mainside, CheckWriting, LockSegment,
       UnlockPrevSegment, WriteSegment, IncrementSegment, UnlockLast, FlushSegment
  <2>2. Hand => Hand'
    BY <1>10 DEF Next, Main, Writer, Terminate, Locate, LockMore, GiveUp, Drop, DropLock, Return,
       Dropped, Acknowledge, LockAhead, ReleaseVis, StopWriter, UnlockAll, JoinWriter, Interrupt,
       Finished, vars, mainside, CheckWriting, LockSegment, UnlockPrevSegment, WriteSegment,
       IncrementSegment, UnlockLast, FlushSegment, Taken
  <2>3. \A k : Queued(k)' <=> Queued(k)
    BY <2>1 DEF Queued
  <2>4. \A k \in 0 .. next - 1 : Queued(k)' \/ Stored(k)' \/ (Hand' /\ k = result')
    BY <1>2, <1>3, <2>1, <2>2, <2>3
  <2> QED BY <2>1, <2>4 DEF KeptOK, Taken
<1> QED BY <1>5, <1>6, <1>7, <1>8, <1>9, <1>10
\* Nothing is dispatched, and no subintegration is before the first Visibility.
LEMMA KeptInit == OneInttime /\ Init => KeptInv
<1> SUFFICES ASSUME OneInttime, Init PROVE KeptInv
  OBVIOUS
<1>1. /\ visbuffer = [v \in Vis |-> NewVis[v]] /\ mpc = "loop" /\ next = 0 /\ sendcount = 0
      /\ inflight = [c \in Cores |-> <<>>] /\ oldest = 0 /\ wpc = "check"
      /\ NumCores \in Nat \ {0} /\ 0 \in Vis
  BY VisBufferLengthAssumption, NumCoresAssumption DEF Init, Vis
<1>2. CountOK
  <2>1. Out = {}
    BY <1>1 DEF Out, Queued
  <2>2. Cardinality(Out) = 0
    BY <2>1, FS_EmptySet
  <2>3. Filling
    BY <1>1 DEF Filling, RECEIVE_RING_LENGTH
  <2> QED BY <1>1, <2>2, <2>3 DEF CountOK, Taken
<1>3. NotBefore
  <2> SUFFICES ASSUME NEW k \in Subints PROVE Difference(k, visbuffer[oldest]) >= 0
    BY DEF NotBefore
  <2>1. visbuffer[oldest].scan = FirstScan /\ visbuffer[oldest].start = 0
    BY <1>1, NewVisType
  <2>2. ScanOf(k) \in Configured /\ OffsetOf(k) \in Nat /\ FirstScan \in Configured /\ FirstScan <= ScanOf(k)
    BY ScanOfIs, FirstScanIs
  <2>3. /\ ScanOf(k) \in Nat /\ FirstScan \in Nat /\ Far \in Int /\ Far >= 2 * IntTime[FirstScan]
        /\ IntTime[FirstScan] \in Nat
    BY <2>2, PeriodIs
  <2>4. CASE ScanOf(k) > FirstScan
    <3>1. Difference(k, visbuffer[oldest]) = Far
      BY <2>1, <2>4 DEF Difference
    <3> QED BY <2>3, <3>1
  <2>5. CASE ScanOf(k) = FirstScan
    <3>1. Difference(k, visbuffer[oldest]) = 2 * OffsetOf(k) + 1
      BY <2>1, <2>2, <2>3, <2>5 DEF Difference
    <3> QED BY <2>2, <3>1
  <2> QED BY <2>2, <2>3, <2>4, <2>5
<1>4. KeptOK /\ FlushedOK /\ NotIgnored /\ EndedOK
  BY <1>1 DEF KeptOK, FlushedOK, Gone, NotIgnored, EndedOK
<1> QED BY <1>2, <1>3, <1>4 DEF KeptInv

LEMMA KeptInvStep ==
    /\ ManagerInv /\ ManagerInv' /\ DiskInv /\ OneInttime /\ BelongInv /\ Roomy /\ Roomy'
    /\ KeptInv /\ [Next]_vars
    => KeptInv'
<1> SUFFICES ASSUME ManagerInv, ManagerInv', DiskInv, OneInttime, BelongInv, Roomy, Roomy',
                    KeptInv, [Next]_vars
             PROVE  KeptInv'
  OBVIOUS
<1>1. /\ PeriodsOK /\ OneResult /\ InttimesOK /\ GotBelong /\ FullReleased
      /\ CountOK /\ KeptOK /\ FlushedOK /\ NotBefore /\ NotIgnored /\ EndedOK
  BY DEF DiskInv, BelongInv, KeptInv
<1>2. CountOK' /\ EndedOK'
  BY <1>1, CountStep, EndedStep
<1>3. KeptOK'
  BY <1>1, KeptStep
<1>4. FlushedOK'
  BY <1>1, FlushedStep
<1>5. NotBefore' /\ NotIgnored'
  BY <1>1, NotBeforeStep, NotIgnoredStep
<1> QED BY <1>2, <1>3, <1>4, <1>5 DEF KeptInv

\* As long as the buffer is not nearly full, and with one integration time, no result is
\* lost on its way from a Core to the disk.
THEOREM KeptInvariant == OneInttime /\ Spec /\ []Roomy => []KeptInv
<1>1. OneInttime /\ Init => KeptInv
  BY KeptInit
<1>2. /\ ManagerInv /\ ManagerInv' /\ DiskInv /\ OneInttime /\ BelongInv /\ Roomy /\ Roomy'
      /\ KeptInv /\ [Next]_vars
      => KeptInv'
  BY KeptInvStep
<1>3. OneInttime => []OneInttime
  <2>1. OneInttime => OneInttime'
    BY DEF OneInttime, Configured, FirstScan, NumScans
  <2> QED BY <2>1, PTL
<1>4. Roomy => NothingDropped
  BY DEF Roomy
<1> QED BY <1>1, <1>2, <1>3, <1>4, ManagerInvariant, DiskInvariant, BelongInvariant, PTL DEF Spec

\* When execute() returns, the result of everything that was dispatched is in one
\* integration on disk, whether the job ran to its end or was interrupted, however the
\* Cores' results and the two threads interleave.
THEOREM EverythingIsOnDisk == OneInttime /\ Spec /\ []Roomy => []OnDiskOnce
<1>1. ManagerInv /\ DiskInv /\ KeptInv => OnDiskOnce
  <2> SUFFICES ASSUME ManagerInv, DiskInv, KeptInv, mpc = "done", NEW k \in 0 .. next - 1
               PROVE  Cardinality({i \in 1 .. Len(written) : k \in written[i].got}) = 1
    BY DEF OnDiskOnce
  <2>1. k \in Subints
    <3>1. next \in 0 .. NumSubints /\ NumSubints \in Nat
      BY ScanOfIs DEF ManagerInv, TypeOK
    <3> QED BY <3>1 DEF Subints
  <2>2. Out = {}
    <3>1. sendcount = 0 /\ ~resend /\ ~Taken
      BY DEF KeptInv, CountOK, ManagerInv, DispatchInv, PhaseOK, MainSteps, Receiving, Taken
    <3>2. Cardinality(Out) + 0 = 0
      BY <3>1 DEF KeptInv, CountOK
    <3>3. Cardinality(Out) = 0
      BY <3>2, OutIs
    <3> QED BY <3>3, OutIs, FS_EmptySet
  <2>3. Stored(k)
    <3>1. ~Queued(k)
      BY <2>1, <2>2 DEF Out
    <3> QED BY <3>1 DEF KeptInv, KeptOK, Taken
  <2>4. OnDisk(k)
    <3>1. wpc = "ended"
      BY DEF KeptInv, EndedOK
    <3>2. \A v \in Vis : k \in visbuffer[v].got => OnDisk(k)
      BY <3>1 DEF KeptInv, FlushedOK, Gone
    <3> QED BY <2>3, <3>2 DEF Stored, OnDisk
  <2>5. PICK j \in 1 .. Len(written) : k \in written[j].got
    BY <2>4 DEF OnDisk
  <2>6. \A i \in 1 .. Len(written) : k \in written[i].got => i = j
    BY <2>5 DEF DiskInv, WrittenOnce
  <2>7. {i \in 1 .. Len(written) : k \in written[i].got} = {j}
    BY <2>5, <2>6
  <2> QED BY <2>7, FS_Singleton
<1> QED BY <1>1, KeptInvariant, ManagerInvariant, DiskInvariant, PTL
===============================================================================
