--------------------------- MODULE MCServing_proof ---------------------------
(* The machines of MCServing, for every value of the constants it leaves open: *)
(* what the registry guarantees for every set of pairs, workers and lanes,     *)
(* with kills, withdrawals and republications, apart from the named races;     *)
(* whose results a request of the resident service is answered with, that the  *)
(* service keeps the promise of AnswerService, whose turn it is, and what a    *)
(* teardown leaves of a vLLM server.  Only one machine moves, so a step of the *)
(* whole is a step or a stutter of each.                                       *)
EXTENDS MCServing, SequenceTheorems, FiniteSetTheorems, WellFoundedInduction, TLAPS

-----------------------------------------------------------------------------
(* The registry of vLLM pairs                                                 *)

\* The variables and their types hold in every reachable state; in particular a
\* worker starts on its pair only when it has given back all it held.
THEOREM RegistryTypeCorrect == Spec => []TypeOK
<1> USE RegistryAssumption, DescriptorsAssumption DEF RegistryAssumption, DescriptorsAssumption
<1>1. Init => TypeOK
  <2> SUFFICES ASSUME Init PROVE TypeOK
    OBVIOUS
  <2>1. age \in [Descriptors -> 0 .. MaxAge + 1] /\ published \in [Endpoints -> 0 .. MaxPublish]
    BY DEF Init
  <2> QED
    BY <2>1 DEF Init, TypeOK, Scanning, JobPlaces
<1>2. TypeOK /\ [Next]_vars => TypeOK'
  <2> SUFFICES ASSUME TypeOK, [Next]_vars PROVE TypeOK'
    OBVIOUS
  <2> USE DEF TypeOK, Scanning, JobPlaces, files, jvars, wvars, Goto, JobGoto, Race, Renamed
  <2>1. ASSUME NEW e \in Endpoints, Supervise(e), UNCHANGED wrongLane PROVE TypeOK'
    <3> USE <2>1
    <3>1. CASE Publish(e)
      BY <3>1 DEF Publish, TempFree, Descriptors
    <3>2. CASE Announce(e)
      BY <3>2 DEF Announce, Descriptors
    <3>3. CASE BeatFree(e)
      BY <3>3 DEF BeatFree, TempFree, Descriptors
    <3>4. CASE BeatLeased(e)
      BY <3>4 DEF BeatLeased, Descriptors
    <3>5. CASE ReplaceFree(e)
      BY <3>5 DEF ReplaceFree, Heartbeat, Descriptors
    <3>6. CASE ReplaceLeased(e)
      BY <3>6 DEF ReplaceLeased, Heartbeat, Descriptors
    <3>7. CASE UnpublishLeased(e)
      BY <3>7 DEF UnpublishLeased
    <3> QED
      BY <3>1, <3>2, <3>3, <3>4, <3>5, <3>6, <3>7 DEF Supervise
  <2>2. ASSUME NEW e \in Endpoints, UnpublishFree(e) \/ JobKilled(e), UNCHANGED wrongLane
        PROVE TypeOK'
    BY <2>2 DEF UnpublishFree, JobKilled
  <2>3. ASSUME NEW w \in Workers, Scan(w), UNCHANGED wrongLane PROVE TypeOK'
    <3> USE <2>3
    <3>1. ASSUME NEW d \in Descriptors, ReapCheck(w, d) PROVE TypeOK'
      BY <3>1 DEF ReapCheck
    <3>2. CASE ReapMove(w)
      <4>1. Pair(cur[w]) \in Endpoints
        BY <3>2 DEF ReapMove, Pair, Descriptors
      <4> QED
        BY <3>2, <4>1 DEF ReapMove, Requeue
    <3>3. CASE ReapEnd(w)
      BY <3>3 DEF ReapEnd
    <3>4. ASSUME NEW d \in Descriptors, Claim(w, d) PROVE TypeOK'
      <4>1. Pair(d) \in Endpoints
        BY DEF Pair, Descriptors
      <4> QED
        BY <3>4, <4>1 DEF Claim, ClaimMove
    <3>5. CASE ClaimNone(w)
      BY <3>5 DEF ClaimNone
    <3>6. CASE Hold(w)
      BY <3>6 DEF Hold, Heartbeat
    <3>7. CASE Take(w)
      BY <3>7 DEF Take, Heartbeat
    <3>8. ASSUME NEW d \in Descriptors, ReturnHeld(w, d) PROVE TypeOK'
      BY <3>8 DEF ReturnHeld, Requeue
    <3>9. CASE Return(w)
      BY <3>9 DEF Return
    <3> QED
      BY <3>1, <3>2, <3>3, <3>4, <3>5, <3>6, <3>7, <3>8, <3>9 DEF Scan
  <2>4. ASSUME NEW w \in Workers, Launch(w) \/ Crash(w), UNCHANGED wrongLane PROVE TypeOK'
    BY <2>4 DEF Launch, Crash
  <2>5. ASSUME NEW w \in Workers, Release(w), UNCHANGED wrongLane PROVE TypeOK'
    BY <2>5 DEF Release, Requeue
  <2>6. CASE Tick /\ UNCHANGED wrongLane
    BY <2>6 DEF Tick, Aging, Stale
  <2>7. CASE UNCHANGED vars
    BY <2>7 DEF vars
  <2> QED
    BY <2>1, <2>2, <2>3, <2>4, <2>5, <2>6, <2>7 DEF Next
<1> QED
  BY <1>1, <1>2, PTL DEF Spec

-----------------------------------------------------------------------------
(* Bookings.                                                                  *)

\* Every descriptor names one pair: its own, or the pair it is the temp file of.
LEMMA PairOfDescriptor ==
    /\ \A d \in Descriptors : Pair(d) \in Endpoints
    /\ \A e \in Endpoints : Pair(e) = e /\ Pair(Temp(e)) = e
<1>1. \A e, f \in Endpoints : Temp(e) = Temp(f) => e = f
  BY DEF Temp
<1> QED
  BY <1>1, DescriptorsAssumption DEF DescriptorsAssumption, Pair, Descriptors

\* What no race has touched: the pair is free or in one pair of hands, and a job
\* that announced it still has its descriptor, or its temp file, on the shelf.
Untouched(e) ==
    /\ Taken(e) => e \notin pending
    /\ \A w, v \in Workers : e \in Mine(w) \cap Mine(v) => w = v
    /\ \A w \in Workers : e \in held[w] => lease[w] # e /\ ~(pc[w] = "claimed" /\ cur[w] = e)
    /\ crashes = 0 /\ e \in running => Taken(e)
    /\ job[e] = "announce" => Temp(e) \in pending
    /\ job[e] \in {"beat", "up", "rfree", "look", "rleased", "rest"} => e \in pending \cup running

Booked == \A e \in Endpoints \ raced : Untouched(e)

\* A step of a job: it writes only the descriptor of its own pair, and hands
\* nothing to a worker.
LEMMA JobKeepsBooked ==
    ASSUME TypeOK, Booked, NEW e \in Endpoints, Supervise(e) \/ UnpublishFree(e) \/ JobKilled(e)
    PROVE Booked'
<1> USE DescriptorsAssumption DEF DescriptorsAssumption, JobGoto, Race, files, wvars
<1>0. UNCHANGED wvars
  BY DEF Supervise, Publish, Announce, BeatFree, BeatLeased, ReplaceFree, ReplaceLeased,
     UnpublishFree, UnpublishLeased, JobKilled
<1>1. \A w \in Workers : Mine(w)' = Mine(w)
  BY <1>0 DEF Mine
<1>2. \A f \in Endpoints : Taken(f)' <=> Taken(f)
  BY <1>1 DEF Taken
<1>3. /\ raced \subseteq raced'
      /\ crashes' = 0 => crashes = 0
  BY DEF TypeOK, Supervise, Publish, Announce, BeatFree, BeatLeased, ReplaceFree, ReplaceLeased,
     UnpublishFree, UnpublishLeased, JobKilled
<1>4. SUFFICES ASSUME NEW f \in Endpoints \ raced' PROVE Untouched(f)'
  BY DEF Booked
<1>5. Untouched(f) /\ f \notin raced
  BY <1>3, <1>4 DEF Booked
<1>6. CASE f # e
  <2>1. /\ job'[f] = job[f]
        /\ f \in pending' <=> f \in pending
        /\ f \in running' <=> f \in running
        /\ Temp(f) \in pending' <=> Temp(f) \in pending
    BY <1>6, PairOfDescriptor DEF TypeOK, Supervise, Publish, Announce, BeatFree, BeatLeased,
       ReplaceFree, ReplaceLeased, UnpublishFree, UnpublishLeased, JobKilled, TempFree
  <2> QED
    BY <1>0, <1>1, <1>2, <1>3, <1>5, <2>1 DEF Untouched
<1>7. CASE f = e
  <2> USE <1>1, <1>2, <1>3, <1>5, <1>7 DEF Untouched, TypeOK
  <2>1. CASE Publish(e)
    BY <2>1 DEF Publish, TempFree
  <2>2. CASE Announce(e)
    BY <2>2 DEF Announce
  <2>3. CASE BeatFree(e)
    BY <2>3 DEF BeatFree, TempFree
  <2>4. CASE BeatLeased(e)
    BY <2>4 DEF BeatLeased
  <2>5. CASE ReplaceFree(e)
    BY <2>5 DEF ReplaceFree
  <2>6. CASE ReplaceLeased(e)
    BY <2>6 DEF ReplaceLeased
  <2>7. CASE UnpublishFree(e)
    BY <2>7 DEF UnpublishFree
  <2>8. CASE UnpublishLeased(e)
    BY <2>8 DEF UnpublishLeased
  <2>9. CASE JobKilled(e)
    BY <2>9 DEF JobKilled
  <2> QED
    BY <2>1, <2>2, <2>3, <2>4, <2>5, <2>6, <2>7, <2>8, <2>9 DEF Supervise
<1> QED
  BY <1>6, <1>7

\* A step of a worker: it moves at most one descriptor, which it takes from the
\* shelf, puts back there from its own hands, or reaps from nobody's.
LEMMA WorkerKeepsBooked ==
    ASSUME TypeOK, Booked, NEW w \in Workers, Launch(w) \/ Scan(w) \/ Release(w) \/ Crash(w)
    PROVE Booked'
<1> USE DescriptorsAssumption DEF DescriptorsAssumption, Goto, Race, files, jvars
<1>1. /\ raced \subseteq raced'
      /\ crashes' = 0 => crashes = 0
  BY DEF TypeOK, Launch, Scan, Release, Crash, ReapCheck, ReapMove, ReapEnd, Claim, ClaimNone,
     Hold, Take, ReturnHeld, Return
<1>2. job' = job
  BY DEF Launch, Scan, Release, Crash, ReapCheck, ReapMove, ReapEnd, Claim, ClaimNone,
     Hold, Take, ReturnHeld, Return
<1>3. SUFFICES ASSUME NEW f \in Endpoints \ raced' PROVE Untouched(f)'
  BY DEF Booked
<1>4. Untouched(f) /\ f \notin raced
  BY <1>1, <1>3 DEF Booked
<1>5. \A v \in Workers \ {w} : Mine(v)' = Mine(v)
  BY DEF TypeOK, Mine, Launch, Scan, Release, Crash, ReapCheck, ReapMove, ReapEnd, Claim,
     ClaimNone, Hold, Take, ReturnHeld, Return
<1> DEFINE Apart == (\A v \in Workers : f \in held[v] => lease[v] # f /\ ~(pc[v] = "claimed" /\ cur[v] = f))'
<1> USE <1>1, <1>2, <1>4, <1>5
\* Steps that move no file and keep what the worker holds.
<1>6. ASSUME UNCHANGED <<pending, running>>, crashes' = crashes, Mine(w)' = Mine(w), Apart
      PROVE Untouched(f)'
  BY <1>6 DEF Untouched, Taken
\* Steps that hand back the descriptor d, which the worker holds.
<1>7. ASSUME NEW d \in Mine(w), Requeue(d), crashes' = crashes, Apart,
             f \in Mine(w)' <=> f \in Mine(w) \ {d}
      PROVE Untouched(f)'
  BY <1>7 DEF Untouched, Taken, Requeue
<1>8. CASE Launch(w) \/ ReapEnd(w) \/ ClaimNone(w) \/ Return(w)
  <2>1. Mine(w)' = Mine(w)
    BY <1>8 DEF TypeOK, Mine, Launch, ReapEnd, ClaimNone, Return
  <2>2. Apart
    BY <1>8 DEF Untouched, TypeOK, Launch, ReapEnd, ClaimNone, Return
  <2> QED
    BY <1>6, <1>8, <2>1, <2>2 DEF Launch, ReapEnd, ClaimNone, Return
<1>9. ASSUME NEW d \in Descriptors, ReapCheck(w, d) PROVE Untouched(f)'
  <2>1. Mine(w)' = Mine(w)
    BY <1>9 DEF TypeOK, Mine, ReapCheck
  <2>2. Apart
    BY <1>9 DEF Untouched, TypeOK, ReapCheck
  <2> QED
    BY <1>6, <1>9, <2>1, <2>2 DEF ReapCheck
<1>10. CASE ReapMove(w)
  <2>1. Mine(w)' = Mine(w)
    BY <1>10 DEF TypeOK, Mine, ReapMove
  <2>2. cur[w] = f => ~Taken(f)
    BY <1>3, <1>10, PairOfDescriptor DEF ReapMove, TypeOK
  <2>3. Apart
    BY <1>10 DEF Untouched, TypeOK, ReapMove
  <2> QED
    BY <1>10, <2>1, <2>2, <2>3 DEF Untouched, Taken, ReapMove, Requeue
<1>11. ASSUME NEW d \in Descriptors, Claim(w, d) PROVE Untouched(f)'
  <2>1. Mine(w)' = Mine(w) \cup {d}
    BY <1>11 DEF TypeOK, Mine, Claim
  <2>2. d # Temp(f)
    BY <1>3, <1>11, PairOfDescriptor DEF Claim, TypeOK
  <2>3. d = f => f \notin held[w]
    BY <1>11 DEF Untouched, Taken, Mine, Claim, ClaimMove, TypeOK
  <2>4. Apart
    BY <1>11, <2>3 DEF Untouched, TypeOK, Claim
  <2> QED
    BY <1>11, <2>1, <2>2, <2>4 DEF Untouched, Taken, Claim, ClaimMove
<1>12. CASE Hold(w) \/ Take(w)
  <2>1. cur[w] \in Descriptors /\ cur[w] # None
    BY <1>12 DEF TypeOK, Hold, Take
  <2>2. CASE Hold(w)
    <3>1. Mine(w)' = Mine(w)
      BY <2>1, <2>2 DEF TypeOK, Mine, Hold
    <3>2. Apart
      BY <2>2 DEF Untouched, TypeOK, Hold
    <3> QED
      BY <1>6, <2>2, <3>1, <3>2 DEF Hold
  <2>3. CASE Take(w)
    <3>1. lease[w] = None
      BY <2>3 DEF TypeOK, Take
    <3>2. Mine(w)' = Mine(w)
      BY <2>1, <2>3, <3>1 DEF TypeOK, Mine, Take
    <3>3. Apart
      BY <2>3 DEF Untouched, TypeOK, Take
    <3> QED
      BY <1>6, <2>3, <3>2, <3>3 DEF Take
  <2> QED
    BY <1>12, <2>2, <2>3
<1>13. ASSUME NEW d \in Descriptors, ReturnHeld(w, d) PROVE Untouched(f)'
  <2>1. d \in Mine(w)
    BY <1>13 DEF Mine, ReturnHeld
  <2>2. f \in Mine(w)' <=> f \in Mine(w) \ {d}
    BY <1>13 DEF Untouched, TypeOK, Mine, ReturnHeld
  <2>3. Apart
    BY <1>13 DEF Untouched, TypeOK, ReturnHeld
  <2> QED
    BY <1>7, <1>13, <2>1, <2>2, <2>3 DEF ReturnHeld
<1>14. CASE Release(w)
  <2>1. lease[w] \in Mine(w)
    BY <1>14 DEF TypeOK, Mine, Release
  <2>2. f \in Mine(w)' <=> f \in Mine(w) \ {lease[w]}
    BY <1>14 DEF TypeOK, Mine, Release
  <2>3. Apart
    BY <1>14 DEF Untouched, TypeOK, Release
  <2> QED
    BY <1>7, <1>14, <2>1, <2>2, <2>3 DEF Release
<1>15. CASE Crash(w)
  <2>1. Mine(w)' \subseteq Mine(w) /\ crashes' # 0
    BY <1>15 DEF TypeOK, Mine, Crash
  <2>2. Apart
    BY <1>15 DEF Untouched, TypeOK, Crash
  <2> QED
    BY <1>15, <2>1, <2>2 DEF Untouched, Taken, Crash
<1> QED
  BY <1>8, <1>9, <1>10, <1>11, <1>12, <1>13, <1>14, <1>15 DEF Scan

\* Booked holds in every reachable state.
LEMMA BookedAlways == Spec => []Booked
<1>1. Init => Booked
  BY DescriptorsAssumption DEF DescriptorsAssumption, Descriptors, Init, Booked, Untouched, Taken, Mine
<1>2. TypeOK /\ Booked /\ [Next]_vars => Booked'
  <2> SUFFICES ASSUME TypeOK, Booked, [Next]_vars PROVE Booked'
    OBVIOUS
  <2>1. CASE UNCHANGED vars
    <3>1. \A e \in Endpoints : Untouched(e)' <=> Untouched(e)
      BY <2>1 DEF vars, files, jvars, wvars, Untouched, Taken, Mine
    <3> QED
      BY <2>1, <3>1 DEF Booked, vars
  <2>2. CASE Tick
    <3>1. \A w \in Workers : Mine(w)' = Mine(w)
      BY <2>2 DEF Tick, Mine, TypeOK
    <3>2. \A e \in Endpoints : Untouched(e) => Untouched(e)'
      BY <2>2, <3>1 DEF Tick, Untouched, Taken, TypeOK
    <3> QED
      BY <2>2, <3>2 DEF Booked, Tick
  <2> QED
    BY <2>1, <2>2, JobKeepsBooked, WorkerKeepsBooked DEF Next
<1> QED
  BY <1>1, <1>2, RegistryTypeCorrect, PTL DEF Spec

\* Without one of the named races a pair is never booked twice, and is never on
\* offer while a worker holds it.
THEOREM RegistryBooksOnce == Spec => []BookedOnce
<1>1. Booked => BookedOnce
  BY DEF Booked, Untouched, BookedOnce
<1> QED
  BY <1>1, BookedAlways, PTL

\* Without races and kills, every descriptor in leased/ is in the hands of a
\* worker that will give it back: the lane filter takes no pair out of the fleet.
THEOREM RegistryAccountsForLeases == Spec => []LeasedAccounted
<1>1. Booked => LeasedAccounted
  BY DEF Booked, Untouched, LeasedAccounted
<1> QED
  BY <1>1, BookedAlways, PTL

\* A pair whose job is up stays advertised or leased, whatever workers do or die.
THEOREM RegistryKeepsAdvertised == Spec => []Advertised
<1>1. Booked => Advertised
  BY DEF Booked, Untouched, Advertised
<1> QED
  BY <1>1, BookedAlways, PTL

-----------------------------------------------------------------------------
(* Sequences without repetition: the turn order and the idle replicas.        *)

Once(s)    == \A i, j \in DOMAIN s : s[i] = s[j] => i = j
Members(s) == {s[i] : i \in DOMAIN s}

LEMMA RemoveOne ==
    ASSUME NEW A, NEW s \in Seq(A), NEW k \in DOMAIN s
    PROVE  LET t == Fleet!RemoveAt(s, k) IN
           /\ t \in Seq(A) /\ Len(t) = Len(s) - 1 /\ Len(t) \in Nat
           /\ \A j \in 1 .. Len(t) : t[j] = IF j < k THEN s[j] ELSE s[j + 1]
<1> DEFINE a == SubSeq(s, 1, k - 1)
           b == SubSeq(s, k + 1, Len(s))
<1>1. Len(s) \in Nat /\ DOMAIN s = 1 .. Len(s) /\ \A j \in 1 .. Len(s) : s[j] \in A
  BY LenProperties, ElementOfSeq
<1>2. k \in 1 .. Len(s) /\ k - 1 \in Int /\ k + 1 \in Int
  BY <1>1
<1>3. a \in Seq(A) /\ Len(a) = k - 1 /\ \A j \in 1 .. k - 1 : a[j] = s[j]
  BY <1>1, <1>2, SubSeqProperties, Z3
<1>4. b \in Seq(A) /\ Len(b) = Len(s) - k /\ \A j \in 1 .. Len(s) - k : b[j] = s[j + k]
  <2>1. \A j \in k + 1 .. Len(s) : s[j] \in A
    BY <1>1, <1>2
  <2>2. /\ b \in Seq(A) /\ Len(b) = IF k + 1 <= Len(s) THEN Len(s) - (k + 1) + 1 ELSE 0
        /\ \A j \in 1 .. Len(s) - (k + 1) + 1 : b[j] = s[k + 1 + j - 1]
    BY <1>1, <1>2, <2>1, SubSeqProperties
  <2> QED
    BY <1>1, <1>2, <2>2
<1> DEFINE c == a \o b
<1>5. Fleet!RemoveAt(s, k) = c
  BY DEF Fleet!RemoveAt
<1> HIDE DEF a, b
<1>6. c \in Seq(A) /\ Len(c) = Len(a) + Len(b)
  BY <1>3, <1>4, ConcatProperties
<1>7. \A j \in 1 .. Len(a) + Len(b) : c[j] = IF j <= Len(a) THEN a[j] ELSE b[j - Len(a)]
  BY <1>3, <1>4, ConcatProperties
<1> HIDE DEF c
<1>8. Len(c) = Len(s) - 1 /\ Len(c) \in Nat
  BY <1>1, <1>2, <1>3, <1>4, <1>6
<1>9. ASSUME NEW j \in 1 .. Len(c) PROVE c[j] = IF j < k THEN s[j] ELSE s[j + 1]
  <2>1. j \in 1 .. Len(a) + Len(b) /\ j \in Nat \ {0} /\ k \in Nat /\ Len(a) = k - 1 /\ Len(s) \in Nat
    BY <1>1, <1>2, <1>3, <1>6, <1>8
  <2>2. c[j] = IF j <= Len(a) THEN a[j] ELSE b[j - Len(a)]
    BY <1>7, <2>1
  <2>3. CASE j < k
    <3>1. j <= Len(a) /\ j \in 1 .. k - 1
      BY <2>1, <2>3
    <3> QED
      BY <1>3, <2>2, <2>3, <3>1
  <2>4. CASE ~(j < k)
    <3>1. ~(j <= Len(a)) /\ j - Len(a) \in 1 .. Len(s) - k /\ j - Len(a) + k = j + 1
      BY <1>8, <2>1, <2>4
    <3> QED
      BY <1>4, <2>2, <2>4, <3>1
  <2> QED
    BY <2>3, <2>4
<1> QED
  BY <1>5, <1>6, <1>8, <1>9

\* An element that is removed is gone, and the others stay.
LEMMA RemoveOnce ==
    ASSUME NEW A, NEW s \in Seq(A), Once(s), NEW k \in DOMAIN s
    PROVE  LET t == Fleet!RemoveAt(s, k) IN
           t \in Seq(A) /\ Once(t) /\ Members(t) = Members(s) \ {s[k]}
<1> DEFINE t == Fleet!RemoveAt(s, k)
<1>1. /\ t \in Seq(A) /\ Len(t) = Len(s) - 1 /\ Len(t) \in Nat /\ DOMAIN t = 1 .. Len(t)
      /\ \A j \in 1 .. Len(t) : t[j] = IF j < k THEN s[j] ELSE s[j + 1]
      /\ DOMAIN s = 1 .. Len(s) /\ k \in 1 .. Len(s) /\ Len(s) \in Nat
  BY RemoveOne
<1> HIDE DEF t
<1>2. Once(t)
  BY <1>1 DEF Once
<1>3. \A j \in DOMAIN t : t[j] \in Members(s) \ {s[k]}
  BY <1>1 DEF Once, Members
<1>4. ASSUME NEW i \in DOMAIN s, s[i] # s[k] PROVE s[i] \in Members(t)
  <2>1. CASE i < k
    BY <1>1, <2>1 DEF Members
  <2>2. CASE i > k
    <3>1. i - 1 \in DOMAIN t /\ t[i - 1] = s[i]
      BY <1>1, <2>2
    <3> QED
      BY <3>1 DEF Members
  <2> QED
    BY <1>1, <1>4, <2>1, <2>2
<1>5. Members(t) = Members(s) \ {s[k]}
  BY <1>3, <1>4 DEF Members
<1> QED
  BY <1>1, <1>2, <1>5 DEF t

LEMMA AppendOnce ==
    ASSUME NEW A, NEW s \in Seq(A), Once(s), NEW x \in A, x \notin Members(s)
    PROVE  Append(s, x) \in Seq(A) /\ Once(Append(s, x)) /\ Members(Append(s, x)) = Members(s) \cup {x}
<1>1. /\ Append(s, x) \in Seq(A) /\ Len(s) \in Nat /\ DOMAIN s = 1 .. Len(s)
      /\ DOMAIN Append(s, x) = 1 .. Len(s) + 1
      /\ Append(s, x)[Len(s) + 1] = x /\ \A i \in 1 .. Len(s) : Append(s, x)[i] = s[i]
  OBVIOUS
<1>2. Once(Append(s, x))
  BY <1>1 DEF Once, Members
<1>3. Members(Append(s, x)) = Members(s) \cup {x}
  BY <1>1 DEF Members
<1> QED
  BY <1>1, <1>2, <1>3

LEMMA TailOnce ==
    ASSUME NEW A, NEW s \in Seq(A), Once(s), s # <<>>
    PROVE  Tail(s) \in Seq(A) /\ Once(Tail(s)) /\ Members(Tail(s)) = Members(s) \ {s[1]}
<1>1. /\ Tail(s) \in Seq(A) /\ Len(s) \in Nat \ {0} /\ DOMAIN s = 1 .. Len(s)
      /\ DOMAIN Tail(s) = 1 .. Len(s) - 1 /\ \A i \in 1 .. Len(s) - 1 : Tail(s)[i] = s[i + 1]
  OBVIOUS
<1>2. Once(Tail(s))
  BY <1>1 DEF Once
<1>3. \A i \in DOMAIN Tail(s) : Tail(s)[i] \in Members(s) \ {s[1]}
  BY <1>1 DEF Once, Members
<1>4. ASSUME NEW i \in DOMAIN s, s[i] # s[1] PROVE s[i] \in Members(Tail(s))
  <2>1. i - 1 \in DOMAIN Tail(s) /\ Tail(s)[i - 1] = s[i]
    BY <1>1, <1>4
  <2> QED
    BY <2>1 DEF Members
<1>5. Members(Tail(s)) = Members(s) \ {s[1]}
  BY <1>3, <1>4 DEF Members
<1> QED
  BY <1>1, <1>2, <1>5

LEMMA JoinOnce ==
    ASSUME NEW A, NEW s \in Seq(A), NEW t \in Seq(A), Once(s), Once(t), Members(s) \cap Members(t) = {}
    PROVE  s \o t \in Seq(A) /\ Once(s \o t) /\ Members(s \o t) = Members(s) \cup Members(t)
<1> DEFINE u == s \o t
           ls == Len(s)
           lt == Len(t)
<1>1. ls \in Nat /\ lt \in Nat /\ DOMAIN s = 1 .. ls /\ DOMAIN t = 1 .. lt
  BY LenProperties
<1>2. u \in Seq(A) /\ DOMAIN u = 1 .. ls + lt
  BY LenProperties, ConcatProperties
<1>3. \A i \in 1 .. ls + lt : u[i] = IF i <= ls THEN s[i] ELSE t[i - ls]
  BY ConcatProperties
<1> HIDE DEF u, ls, lt
<1>4. \A i \in DOMAIN u : \/ i \in DOMAIN s /\ i <= ls /\ u[i] = s[i]
                          \/ i - ls \in DOMAIN t /\ i > ls /\ u[i] = t[i - ls]
  BY <1>1, <1>2, <1>3
<1>5. \A i \in DOMAIN s, j \in DOMAIN t : s[i] # t[j]
  BY DEF Members
<1>6. ASSUME NEW i \in DOMAIN u, NEW j \in DOMAIN u, u[i] = u[j] PROVE i = j
  <2>1. CASE i <= ls
    <3>1. i \in DOMAIN s /\ j \in DOMAIN s /\ s[i] = s[j]
      BY <1>1, <1>2, <1>4, <1>5, <1>6, <2>1
    <3> QED
      BY <3>1 DEF Once
  <2>2. CASE i > ls
    <3>1. i - ls \in DOMAIN t /\ j - ls \in DOMAIN t /\ t[i - ls] = t[j - ls]
      BY <1>1, <1>2, <1>4, <1>5, <1>6, <2>2
    <3>2. i - ls = j - ls
      BY <3>1 DEF Once
    <3> QED
      BY <1>1, <1>2, <3>2
  <2> QED
    BY <1>1, <1>2, <2>1, <2>2
<1>7. \A i \in DOMAIN s : i \in DOMAIN u /\ u[i] = s[i]
  BY <1>1, <1>2, <1>3
<1>8. \A i \in DOMAIN t : ls + i \in DOMAIN u /\ u[ls + i] = t[i]
  BY <1>1, <1>2, <1>3
<1>9. Members(u) = Members(s) \cup Members(t)
  <2>1. Members(u) \subseteq Members(s) \cup Members(t)
    BY <1>4 DEF Members
  <2>2. Members(s) \cup Members(t) \subseteq Members(u)
    BY <1>7, <1>8 DEF Members
  <2> QED
    BY <2>1, <2>2
<1>10. Once(u)
  BY <1>6 DEF Once
<1> QED
  BY <1>2, <1>9, <1>10 DEF u

-----------------------------------------------------------------------------
(* ResidentService.                                                           *)

Replicas   == 1 .. N
Live       == Members(live)
Spare      == Members(idle)
Owning     == {"batch", "send", "wait", "take"}
Excl(r)    == r \in scen.excl
Busy(w)    == busy[w] # <<>>
Ended      == {"fail", "down"}
Over(r, i) == results[r][i] = <<r, i>>

\* A list with so many places.
Listed(f, size) == DOMAIN f = 1 .. size /\ f = [i \in 1 .. size |-> f[i]]

QueueShaped ==
    /\ scen \in Scenarios
    /\ stage \in [Requests -> {"unsent", "queued", "taken"}]
    /\ reply \in [Requests -> {"none", "error", "answered"}]
    /\ scan \subseteq Requests /\ (place # "scan" => scan = {})
    /\ live \in Seq(Requests) /\ Once(live)

PoolShaped ==
    /\ idle \in Seq(Replicas) /\ Once(idle)
    /\ nxt \in [Requests -> Nat] /\ \A r \in Requests : nxt[r] <= Jobs[r]
    /\ DOMAIN results = Requests /\ \A r \in Requests : Listed(results[r], Jobs[r])
    /\ DOMAIN busy = Replicas /\ DOMAIN hand = Replicas /\ DOMAIN card = Replicas
    /\ alive \subseteq Replicas

\* What is listed or live has no answer yet; what owns the fleet is alone.
Waiting ==
    /\ \A r \in Requests : stage[r] # "taken" => reply[r] = "none"
    /\ \A r \in scan : /\ stage[r] # "unsent" /\ reply[r] = "none"
                       /\ stage[r] = "taken" => r \in scen.refused
    /\ \A r \in Live : stage[r] = "taken" /\ reply[r] = "none" /\ r \notin scen.refused
    /\ place \in Owning => /\ head \in Requests /\ Excl(head) /\ live = <<>>
                           /\ stage[head] = "taken" /\ reply[head] = "none"

\* A replica that is busy has the job its key names, for a request that is live
\* or that asked for the fleet.
KeyOf(w) ==
    \E r \in Requests : \E i \in 1 .. Jobs[r] :
        /\ hand[w] = <<r, i>>
        /\ IF Excl(r) THEN busy[w] = <<Batch, i>>
           ELSE busy[w] = <<r, i>> /\ (place \notin Ended => r \in Live)
Keyed == \A w \in Replicas : Busy(w) => KeyOf(w) /\ w \notin Spare

\* A position holds its own result or none, and until a result is placed a
\* replica has the job.
Placed ==
    /\ \A r \in Requests : \A i \in 1 .. Jobs[r] : results[r][i] = <<>> \/ Over(r, i)
    /\ \A r \in Requests : reply[r] = "answered" => \A i \in 1 .. Jobs[r] : Over(r, i)
    /\ place \notin Ended => \A r \in Requests : ~Excl(r) /\ r \notin failed =>
           \A i \in 1 .. nxt[r] : Over(r, i) \/ \E w \in Replicas : busy[w] = <<r, i>>

\* No two requests own the fleet, or nothing goes wrong while one does.
Lonely == \A q, r \in scen.excl : q = r
Tame   == \A s \in Scenarios : \/ \A q, r \in s.excl : q = r
                               \/ s.raising \cap s.excl = {} /\ ~s.mortal

AtWork == {w \in Replicas : Busy(w)}

\* In the second case a batch begins with an idle fleet and ends with one.
Sound ==
    /\ scen.raising \cap scen.excl = {} /\ ~scen.mortal
    /\ alive = Replicas /\ ~poisoned
    /\ \A w \in Replicas : Busy(w) /\ card[w] = "raised" => hand[w][1] \in scen.raising
    /\ inflight = IF place \in Owning THEN Cardinality(AtWork) ELSE 0
    /\ place \in Owning => \A w \in Replicas : Busy(w) => hand[w][1] = head
    /\ place \notin Owning \cup {"down"} => \A w \in Replicas : Busy(w) => ~Excl(hand[w][1])
    /\ place \in Owning /\ Width[head] \notin Replicas => AtWork = {} /\ place = "batch"

FleetInv == QueueShaped /\ PoolShaped /\ Waiting /\ Keyed /\ Placed /\ (Lonely \/ Sound)

\* What no part of the invariant but those of the places speaks of.
contents == <<scen, stage, reply, nxt, results, failed, inflight, idle, busy, poisoned, hand, card, alive>>

\* A step from place to place, the listing included.
LEMMA MovesKeep ==
    ASSUME FleetInv, UNCHANGED <<contents, live, head>>,
           place # "down", place = "fail" => place' = "down", place' # "fail",
           place' # "scan" => scan' = {},
           \A r \in scan' : r \in scan \/ (r \in Requests /\ stage[r] = "queued"),
           place' \in Owning <=> place \in Owning,
           place = "batch" => Width[head] \in Replicas
    PROVE  FleetInv'
<1> USE DEF FleetInv, contents
<1>1. QueueShaped'
  BY DEF QueueShaped
<1>2. PoolShaped'
  BY DEF PoolShaped
<1>3. Waiting'
  <2>1. \A r \in scan' : stage[r] # "unsent" /\ reply[r] = "none" /\ (stage[r] = "taken" => r \in scen.refused)
    BY DEF Waiting
  <2> QED
    BY <2>1 DEF Waiting, Live, Excl, Owning
<1>4. Keyed'
  BY DEF Keyed, KeyOf, Busy, Spare, Live, Excl, Ended
<1>5. Placed'
  BY DEF Placed, Over, Excl, Ended
<1>6. (Lonely \/ Sound)'
  <2>1. CASE Lonely
    BY <2>1 DEF Lonely
  <2>2. CASE Sound
    BY <2>2 DEF Sound, AtWork, Busy, Excl
  <2> QED
    BY <2>1, <2>2
<1> QED
  BY <1>1, <1>2, <1>3, <1>4, <1>5, <1>6

LEMMA ServeMoves ==
    ASSUME FleetInv,
           \/ Fleet!List \/ Fleet!Dispatched \/ Fleet!DispatchRaises \/ Fleet!FailDone \/ Fleet!Harvested
           \/ Fleet!Settled \/ Fleet!BatchLoop \/ Fleet!BatchSent \/ Fleet!BatchTaken \/ Fleet!IdleExit
           \/ Fleet!Admitted /\ place' # "batch"
    PROVE  FleetInv'
<1> USE DEF contents, Owning, Fleet!Owning, Fleet!client, Fleet!queue, Fleet!loop, Fleet!work, Fleet!pool,
        Fleet!procs, Replicas, Fleet!Replicas
<1>1. UNCHANGED <<contents, live, head>>
  BY DEF Fleet!List, Fleet!Dispatched, Fleet!DispatchRaises, Fleet!FailDone, Fleet!Harvested, Fleet!Settled,
         Fleet!BatchLoop, Fleet!BatchSent, Fleet!BatchTaken, Fleet!IdleExit, Fleet!Admitted
<1>2. /\ place # "down" /\ place' # "fail" /\ (place = "fail" => place' = "down")
      /\ place' \in Owning <=> place \in Owning
      /\ place = "batch" => Width[head] \in Replicas
  BY DEF Fleet!List, Fleet!Dispatched, Fleet!DispatchRaises, Fleet!FailDone, Fleet!Harvested, Fleet!Settled,
         Fleet!BatchLoop, Fleet!BatchSent, Fleet!BatchTaken, Fleet!IdleExit, Fleet!Admitted
<1>3. /\ place' # "scan" => scan' = {}
      /\ \A r \in scan' : r \in scan \/ (r \in Requests /\ stage[r] = "queued")
  BY DEF FleetInv, QueueShaped, Fleet!List, Fleet!Dispatched, Fleet!DispatchRaises, Fleet!FailDone,
         Fleet!Harvested, Fleet!Settled, Fleet!BatchLoop, Fleet!BatchSent, Fleet!BatchTaken, Fleet!IdleExit,
         Fleet!Admitted
<1> QED
  BY <1>1, <1>2, <1>3, MovesKeep

\* A request comes in: the pool does not notice.
LEMMA ArrivalsKeep ==
    ASSUME FleetInv, UNCHANGED <<scen, place, head, inflight, nxt, results, idle, busy, poisoned, hand, card, alive>>,
           failed \subseteq failed', Live \subseteq Live',
           \A r \in Requests : reply'[r] = "answered" => reply[r] = "answered",
           QueueShaped', Waiting'
    PROVE  FleetInv'
<1> USE DEF FleetInv
<1>1. PoolShaped'
  BY DEF PoolShaped
<1>2. Keyed'
  BY DEF Keyed, KeyOf, Busy, Spare, Excl, Ended
<1>3. Placed'
  BY DEF Placed, Over, Excl, Ended
<1>4. (Lonely \/ Sound)'
  <2>1. CASE Lonely
    BY <2>1 DEF Lonely
  <2>2. CASE Sound
    BY <2>2 DEF Sound, AtWork, Busy, Excl, Owning
  <2> QED
    BY <2>1, <2>2
<1> QED
  BY <1>1, <1>2, <1>3, <1>4

LEMMA AskKeeps ==
    ASSUME FleetInv, NEW r \in Requests, Fleet!Ask(r)
    PROVE  FleetInv'
<1>1. /\ stage[r] = "unsent" /\ stage' = [stage EXCEPT ![r] = "queued"]
      /\ UNCHANGED <<scen, reply, place, scan, live, head, inflight, nxt, results, failed, idle, busy,
                     poisoned, hand, card, alive>>
  BY DEF Fleet!Ask, Fleet!client, Fleet!loop, Fleet!work, Fleet!pool, Fleet!procs
<1>2. QueueShaped'
  BY <1>1 DEF FleetInv, QueueShaped
<1>3. stage \in [Requests -> {"unsent", "queued", "taken"}] /\ scan \subseteq Requests
  BY DEF FleetInv, QueueShaped
<1>4. Waiting'
  BY <1>1, <1>3 DEF FleetInv, Waiting, Live, Excl, Owning
<1> QED
  BY <1>1, <1>2, <1>4, ArrivalsKeep DEF Live

LEMMA RefuseKeeps ==
    ASSUME FleetInv, NEW r \in Requests, Fleet!Refuse(r)
    PROVE  FleetInv'
<1>1. /\ place = "scan" /\ r \in scan /\ r \in scen.refused /\ failed \subseteq failed'
      /\ UNCHANGED <<scen, place, live, head, inflight, nxt, results, idle, busy, poisoned, hand, card, alive>>
      /\ \/ stage' = [stage EXCEPT ![r] = "taken"] /\ UNCHANGED <<reply, scan>>
         \/ /\ stage[r] = "taken" /\ stage' = stage
            /\ reply' = [reply EXCEPT ![r] = "error"] /\ scan' = scan \ {r}
  BY DEF Fleet!Refuse, Fleet!client, Fleet!pool, Fleet!procs
<1>2. /\ stage \in [Requests -> {"unsent", "queued", "taken"}]
      /\ reply \in [Requests -> {"none", "error", "answered"}] /\ scan \subseteq Requests
  BY DEF FleetInv, QueueShaped
<1>3. QueueShaped'
  BY <1>1 DEF FleetInv, QueueShaped
<1>4. r \notin Live
  BY <1>1 DEF FleetInv, Waiting
<1>5. /\ \A q \in Requests : q # r => stage'[q] = stage[q] /\ reply'[q] = reply[q]
      /\ stage'[r] = "taken" /\ scan' \subseteq scan /\ (r \in scan' => reply'[r] = reply[r])
  BY <1>1, <1>2
<1>6. \A q \in scan' : /\ stage'[q] # "unsent" /\ reply'[q] = "none"
                       /\ stage'[q] = "taken" => q \in scen'.refused
  BY <1>1, <1>2, <1>5 DEF FleetInv, Waiting
<1>7. \A q \in Live' : stage'[q] = "taken" /\ reply'[q] = "none" /\ q \notin scen'.refused
  <2>1. Live' = Live /\ Live \subseteq Requests
    BY <1>1 DEF FleetInv, QueueShaped, Live, Members
  <2> QED
    BY <1>1, <1>4, <1>5, <2>1 DEF FleetInv, Waiting
<1>8. Waiting'
  BY <1>1, <1>5, <1>6, <1>7 DEF FleetInv, Waiting, Owning
<1>9. \A q \in Requests : reply'[q] = "answered" => reply[q] = "answered"
  BY <1>1, <1>2
<1> QED
  BY <1>1, <1>3, <1>8, <1>9, ArrivalsKeep DEF Live

LEMMA AcceptKeeps ==
    ASSUME FleetInv, NEW r \in Requests, Fleet!Accept(r)
    PROVE  FleetInv'
<1>1. /\ place = "scan" /\ r \in scan /\ r \notin scen.refused
      /\ stage' = [stage EXCEPT ![r] = "taken"] /\ live' = Append(live, r)
      /\ scan' \subseteq scan \ {r}
      /\ UNCHANGED <<scen, reply, place, head, inflight, nxt, results, failed, idle, busy, poisoned, hand,
                     card, alive>>
  BY DEF Fleet!Accept, Fleet!client, Fleet!work, Fleet!pool, Fleet!procs
<1>2. /\ stage \in [Requests -> {"unsent", "queued", "taken"}] /\ scan \subseteq Requests
      /\ live \in Seq(Requests) /\ Once(live)
  BY DEF FleetInv, QueueShaped
<1>3. r \notin Live /\ reply[r] = "none"
  BY <1>1 DEF FleetInv, Waiting
<1>4. live' \in Seq(Requests) /\ Once(live') /\ Live' = Live \cup {r}
  BY <1>1, <1>2, <1>3, AppendOnce DEF Live
<1>5. QueueShaped'
  BY <1>1, <1>4 DEF FleetInv, QueueShaped
<1>6. Waiting'
  BY <1>1, <1>2, <1>3, <1>4 DEF FleetInv, Waiting, Excl, Owning
<1> QED
  BY <1>1, <1>4, <1>5, <1>6, ArrivalsKeep

\* The request that is alone gets the whole fleet, which is idle.
LEMMA BeginKeeps ==
    ASSUME FleetInv, Fleet!Admitted, place' = "batch"
    PROVE  FleetInv'
<1>1. /\ place = "scan" /\ scan = {} /\ Len(live) = 1 /\ Excl(live[1])
      /\ head' = live[1] /\ live' = <<>>
      /\ UNCHANGED <<contents, scan>>
  BY DEF Fleet!Admitted, Fleet!client, Fleet!queue, Fleet!work, Fleet!pool, Fleet!procs, contents, Fleet!Excl, Excl
<1>2. live[1] \in Requests /\ Live = {live[1]}
  <2>1. live \in Seq(Requests) /\ DOMAIN live = 1 .. 1
    BY <1>1, LenProperties DEF FleetInv, QueueShaped
  <2>2. DOMAIN live = {1} /\ live[1] \in Requests
    BY <1>1, <2>1, ElementOfSeq
  <2> QED
    BY <2>2 DEF Live, Members
<1>3. <<>> \in Seq(Requests) /\ Once(<<>>) /\ Members(<<>>) = {}
  BY EmptySeq DEF Once, Members
<1>4. QueueShaped'
  BY <1>1, <1>3 DEF FleetInv, QueueShaped, contents
<1>5. PoolShaped'
  BY <1>1 DEF FleetInv, PoolShaped, contents
<1>6. Waiting'
  BY <1>1, <1>2, <1>3 DEF FleetInv, Waiting, Live, Excl, Owning, contents
<1>7. \A w \in Replicas : Busy(w) => \E r \in Requests : \E i \in 1 .. Jobs[r] :
          Excl(r) /\ hand[w] = <<r, i>> /\ busy[w] = <<Batch, i>>
  BY <1>1, <1>2 DEF FleetInv, Keyed, KeyOf, Ended
<1>8. Keyed'
  BY <1>1, <1>7 DEF FleetInv, Keyed, KeyOf, Busy, Spare, Excl, contents
<1>9. Placed'
  BY <1>1 DEF FleetInv, Placed, Over, Excl, Ended, contents
<1>10. ASSUME Sound PROVE Sound'
  <2>1. \A w \in Replicas : ~Busy(w)
    BY <1>1, <1>7, <1>10 DEF Sound, Owning
  <2>2. AtWork = {} /\ Cardinality({}) = 0
    BY <2>1, FS_EmptySet DEF AtWork
  <2> QED
    BY <1>1, <1>10, <2>1, <2>2 DEF Sound, Owning, AtWork, Busy, Excl, contents
<1>11. (Lonely \/ Sound)'
  BY <1>1, <1>10 DEF FleetInv, Lonely, contents
<1> QED
  BY <1>4, <1>5, <1>6, <1>8, <1>9, <1>11 DEF FleetInv

LEMMA Numbers == N \in Nat \ {0} /\ Batch \notin Requests /\ Jobs \in [Requests -> Nat \ {0}]
BY ServiceAssumption

LEMMA SpareIdle == ASSUME FleetInv, NEW w \in Replicas, w \in Spare PROVE ~Busy(w)
BY DEF FleetInv, Keyed

LEMMA WorkFinite == ASSUME FleetInv PROVE IsFiniteSet(AtWork)
<1>1. IsFiniteSet(1 .. N)
  BY Numbers, FS_Interval
<1> QED
  BY <1>1, FS_Subset DEF AtWork, Replicas

\* A job in hand is as good in the next state, while its request is live.
LEMMA KeysStay ==
    ASSUME NEW w \in Replicas, KeyOf(w), busy'[w] = busy[w], hand'[w] = hand[w], scen' = scen,
           place' \notin Ended => place \notin Ended /\ Live \subseteq Live'
    PROVE  KeyOf(w)'
<1>1. PICK r \in Requests : \E j \in 1 .. Jobs[r] :
          /\ hand[w] = <<r, j>>
          /\ IF Excl(r) THEN busy[w] = <<Batch, j>>
             ELSE busy[w] = <<r, j>> /\ (place \notin Ended => r \in Live)
  BY DEF KeyOf
<1> PICK i \in 1 .. Jobs[r] :
          /\ hand[w] = <<r, i>>
          /\ IF Excl(r) THEN busy[w] = <<Batch, i>>
             ELSE busy[w] = <<r, i>> /\ (place \notin Ended => r \in Live)
  BY <1>1
<1>2. /\ hand'[w] = <<r, i>>
      /\ IF r \in scen'.excl THEN busy'[w] = <<Batch, i>>
         ELSE busy'[w] = <<r, i>> /\ (place' \notin Ended => r \in Live')
  BY DEF Excl
<1> QED
  BY <1>2 DEF KeyOf, Excl, Ended

\* A spare replica gets the next job of a request.
LEMMA HandedKeeps ==
    ASSUME FleetInv, NEW k \in DOMAIN idle, NEW r \in Requests, idle[k] \in alive, nxt[r] < Jobs[r],
           place \notin Ended, IF Excl(r) THEN place = "send" /\ r = head ELSE place = "dispatch" /\ r \in Live,
           idle' = Fleet!RemoveAt(idle, k),
           busy' = [busy EXCEPT ![idle[k]] = IF Excl(r) THEN <<Batch, nxt[r] + 1>> ELSE <<r, nxt[r] + 1>>],
           hand' = [hand EXCEPT ![idle[k]] = <<r, nxt[r] + 1>>],
           card' = [card EXCEPT ![idle[k]] = "working"],
           nxt' = [nxt EXCEPT ![r] = nxt[r] + 1],
           inflight' = IF Excl(r) THEN inflight + 1 ELSE inflight,
           live' \in Seq(Requests) /\ Once(live') /\ Live' = Live, live = <<>> => live' = <<>>,
           UNCHANGED <<scen, stage, reply, place, scan, head, results, failed, poisoned, alive>>
    PROVE  FleetInv'
<1> DEFINE w == idle[k]
           i == nxt[r] + 1
           key == IF Excl(r) THEN <<Batch, i>> ELSE <<r, i>>
<1>1. /\ idle \in Seq(Replicas) /\ Once(idle) /\ w \in Replicas /\ w \in Spare /\ nxt[r] \in Nat
      /\ nxt \in [Requests -> Nat] /\ DOMAIN busy = Replicas /\ DOMAIN hand = Replicas /\ DOMAIN card = Replicas
  BY DEF FleetInv, PoolShaped, Spare, Members
<1>2. idle' \in Seq(Replicas) /\ Once(idle') /\ Spare' = Spare \ {w}
  BY <1>1, RemoveOnce DEF Spare
<1>3. ~Busy(w)
  BY <1>1, SpareIdle
<1>4. i \in 1 .. Jobs[r]
  BY <1>1, Numbers
<1>5. /\ DOMAIN busy' = Replicas /\ DOMAIN hand' = Replicas /\ DOMAIN card' = Replicas
      /\ busy'[w] = key /\ hand'[w] = <<r, i>> /\ card'[w] = "working"
      /\ \A v \in Replicas \ {w} : busy'[v] = busy[v] /\ hand'[v] = hand[v] /\ card'[v] = card[v]
  BY <1>1
<1>6. nxt' \in [Requests -> Nat] /\ nxt'[r] = i /\ \A q \in Requests \ {r} : nxt'[q] = nxt[q]
  BY <1>1
<1> HIDE DEF w, i, key
<1>7. QueueShaped'
  BY DEF FleetInv, QueueShaped
<1>8. PoolShaped'
  BY <1>2, <1>4, <1>5, <1>6 DEF FleetInv, PoolShaped
<1>9. Waiting'
  BY DEF FleetInv, Waiting, Excl, Owning
<1>10. Keyed'
  <2> SUFFICES ASSUME NEW v \in Replicas, Busy(v)' PROVE KeyOf(v)' /\ v \notin Spare'
    BY DEF Keyed
  <2>1. CASE v = w
    BY <1>2, <1>4, <1>5, <2>1 DEF KeyOf, Excl, Ended, key
  <2>2. CASE v # w
    <3>1. KeyOf(v) /\ v \notin Spare
      BY <1>5, <2>2 DEF FleetInv, Keyed, Busy
    <3> QED
      BY <1>2, <1>5, <2>2, <3>1, KeysStay
  <2> QED
    BY <2>1, <2>2
<1>11. Placed'
  <2>1. \A q \in Requests : \A j \in 1 .. Jobs[q] : results'[q][j] = <<>> \/ Over(q, j)'
    BY DEF FleetInv, Placed, Over
  <2>2. \A q \in Requests : reply'[q] = "answered" => \A j \in 1 .. Jobs[q] : Over(q, j)'
    BY DEF FleetInv, Placed, Over
  <2>3. ASSUME NEW q \in Requests, ~Excl(q), q \notin failed, NEW j \in 1 .. nxt'[q]
        PROVE  Over(q, j)' \/ \E v \in Replicas : busy'[v] = <<q, j>>
    <3>1. CASE q = r /\ j = i
      BY <1>1, <1>5, <2>3, <3>1 DEF key
    <3>2. CASE ~(q = r /\ j = i)
      <4>1. j \in 1 .. nxt[q]
        BY <1>1, <1>6, <3>2 DEF i
      <4>2. Over(q, j) \/ \E v \in Replicas : busy[v] = <<q, j>>
        BY <2>3, <4>1 DEF FleetInv, Placed
      <4>3. \A v \in Replicas : busy[v] = <<q, j>> => v # w
        <5>1. <<q, j>> # <<>>
          OBVIOUS
        <5> QED
          BY <1>3, <5>1 DEF Busy
      <4> QED
        BY <1>5, <4>2, <4>3 DEF Over
    <3> QED
      BY <3>1, <3>2
  <2> QED
    BY <2>1, <2>2, <2>3 DEF Placed, Excl, Ended
<1>12. ASSUME Sound PROVE Sound'
  <2>1. AtWork' = AtWork \cup {w} /\ w \notin AtWork
    <3>1. key # <<>>
      BY DEF key
    <3> QED
      BY <1>1, <1>3, <1>5, <3>1 DEF AtWork, Busy
  <2>2. Cardinality(AtWork') = Cardinality(AtWork) + 1
    BY <2>1, WorkFinite, FS_AddElement
  <2>3. inflight' = IF place' \in Owning THEN Cardinality(AtWork') ELSE 0
    BY <1>12, <2>2 DEF Sound, Owning
  <2>4. \A v \in Replicas : Busy(v)' /\ card'[v] = "raised" => hand'[v][1] \in scen.raising
    BY <1>5, <1>12 DEF Sound, Busy
  <2>5. place' \in Owning => \A v \in Replicas : Busy(v)' => hand'[v][1] = head
    BY <1>5, <1>12 DEF Sound, Busy, Owning
  <2>6. place' \notin Owning \cup {"down"} => \A v \in Replicas : Busy(v)' => ~Excl(hand'[v][1])
    BY <1>5, <1>12 DEF Sound, Busy, Owning
  <2> QED
    BY <1>12, <2>3, <2>4, <2>5, <2>6 DEF Sound, Owning, Excl
<1>13. (Lonely \/ Sound)'
  BY <1>12 DEF FleetInv, Lonely
<1> QED
  BY <1>7, <1>8, <1>9, <1>10, <1>11, <1>13 DEF FleetInv

\* A set of positions that is not empty has a first one.
LEMMA FirstPosition ==
    ASSUME NEW T, T \subseteq Nat, T # {}
    PROVE  Fleet!FirstOf(T) \in T /\ \A j \in T : Fleet!FirstOf(T) <= j
<1> DEFINE R == OpToRel(<, Nat)
<1>1. IsWellFoundedOn(R, Nat)
  BY NatLessThanWellFounded
<1>2. PICK x \in T : \A y \in T : <<y, x>> \notin R
  <2> HIDE DEF R
  <2> QED
    BY <1>1, WFMin
<1>3. \A y \in T : x <= y
  <2>1. \A y \in T : ~(y < x)
    BY <1>2 DEF OpToRel
  <2> QED
    BY <2>1
<1> QED
  BY <1>3 DEF Fleet!FirstOf

LEMMA DispatchKeeps == ASSUME FleetInv, Fleet!Dispatch PROVE FleetInv'
<1> DEFINE t == Fleet!FirstOf(Fleet!Turns)
           r == live[t]
           moved == Fleet!RemoveAt(live, t)
<1>1. live \in Seq(Requests) /\ Once(live) /\ DOMAIN live \subseteq Nat /\ idle \in Seq(Replicas)
  BY LenProperties DEF FleetInv, QueueShaped, PoolShaped
<1>2. Fleet!Turns # {} /\ Fleet!Turns \subseteq DOMAIN live
  BY DEF Fleet!Dispatch, Fleet!Turns
<1>3. t \in Fleet!Turns
  BY <1>1, <1>2, FirstPosition
<1>4. t \in DOMAIN live /\ r \in Requests /\ r \in Live /\ ~Excl(r) /\ nxt[r] < Jobs[r]
  <2>1. ASSUME NEW j \in Fleet!Turns
        PROVE  /\ j \in DOMAIN live /\ live[j] \in Requests
               /\ ~Excl(live[j]) /\ nxt[live[j]] < Jobs[live[j]]
    BY <1>1, <2>1 DEF Fleet!Turns, Fleet!Wants, Fleet!Excl, Excl
  <2> HIDE DEF t
  <2> QED
    BY <1>3, <2>1 DEF Live, Members
<1>5. idle # <<>> /\ 1 \in DOMAIN idle /\ idle[1] \in alive
  <2>1. idle # <<>> /\ idle[1] \in alive
    BY DEF Fleet!Dispatch
  <2> QED
    BY <1>1, <2>1, EmptySeq, LenProperties
<1>6. moved \in Seq(Requests) /\ Once(moved) /\ Members(moved) = Live \ {r}
  BY <1>1, <1>4, RemoveOnce DEF Live
<1>7. /\ Append(moved, r) \in Seq(Requests) /\ Once(Append(moved, r))
      /\ Members(Append(moved, r)) = Live
  <2> HIDE DEF moved, r
  <2>1. r \notin Members(moved)
    BY <1>6
  <2>2. Members(Append(moved, r)) = Members(moved) \cup {r}
    BY <1>4, <1>6, <2>1, AppendOnce
  <2>3. Append(moved, r) \in Seq(Requests) /\ Once(Append(moved, r))
    BY <1>4, <1>6, <2>1, AppendOnce
  <2> QED
    BY <1>4, <1>6, <2>2, <2>3
<1>8. /\ place = "dispatch" /\ live' = Append(moved, r)
      /\ idle' = Fleet!RemoveAt(idle, 1)
      /\ busy' = [busy EXCEPT ![idle[1]] = <<r, nxt[r] + 1>>]
      /\ hand' = [hand EXCEPT ![idle[1]] = <<r, nxt[r] + 1>>]
      /\ card' = [card EXCEPT ![idle[1]] = "working"]
      /\ nxt' = [nxt EXCEPT ![r] = nxt[r] + 1]
      /\ UNCHANGED <<scen, stage, reply, place, scan, head, inflight, results, failed, poisoned, alive>>
  BY DEF Fleet!Dispatch, Fleet!Send, Fleet!client, Fleet!queue
<1> HIDE DEF moved, r, t
<1>9. live # <<>> /\ live' \in Seq(Requests) /\ Once(live') /\ Live' = Live
  BY <1>4, <1>7, <1>8 DEF Live
<1>10. /\ place \notin Ended /\ IF Excl(r) THEN place = "send" /\ r = head ELSE place = "dispatch" /\ r \in Live
       /\ busy' = [busy EXCEPT ![idle[1]] = IF Excl(r) THEN <<Batch, nxt[r] + 1>> ELSE <<r, nxt[r] + 1>>]
       /\ inflight' = IF Excl(r) THEN inflight + 1 ELSE inflight
  BY <1>4, <1>8 DEF Ended
<1> QED
  BY <1>4, <1>5, <1>8, <1>9, <1>10, HandedKeeps

LEMMA BatchSendKeeps == ASSUME FleetInv, Fleet!BatchSend PROVE FleetInv'
<1> DEFINE k == Fleet!FirstOf(Fleet!Serviceable(Width[head]))
<1>1. /\ place = "send" /\ idle[k] \in alive /\ nxt[head] < Jobs[head]
      /\ Fleet!Serviceable(Width[head]) # {}
      /\ idle' = Fleet!RemoveAt(idle, k)
      /\ busy' = [busy EXCEPT ![idle[k]] = <<Batch, nxt[head] + 1>>]
      /\ hand' = [hand EXCEPT ![idle[k]] = <<head, nxt[head] + 1>>]
      /\ card' = [card EXCEPT ![idle[k]] = "working"]
      /\ nxt' = [nxt EXCEPT ![head] = nxt[head] + 1]
      /\ inflight' = inflight + 1
      /\ UNCHANGED <<scen, stage, reply, place, scan, live, head, results, failed, poisoned, alive>>
  BY DEF Fleet!BatchSend, Fleet!Send, Fleet!Unsent, Fleet!client, Fleet!queue
<1>2. DOMAIN idle \subseteq Nat
  BY LenProperties DEF FleetInv, PoolShaped
<1>3. k \in DOMAIN idle
  BY <1>1, <1>2, FirstPosition DEF Fleet!Serviceable
<1>4. head \in Requests /\ Excl(head)
  BY <1>1 DEF FleetInv, Waiting, Owning
<1>5. live \in Seq(Requests) /\ Once(live) /\ Live' = Live
  BY <1>1 DEF FleetInv, QueueShaped, Live
<1> HIDE DEF k
<1> QED
  BY <1>1, <1>3, <1>4, <1>5, HandedKeeps DEF Ended

\* While a request owns the fleet, every job in hand is its own.
LEMMA OwnedJobs ==
    ASSUME FleetInv, place \in Owning, NEW w \in Replicas, Busy(w)
    PROVE  \E i \in 1 .. Jobs[head] : hand[w] = <<head, i>> /\ busy[w] = <<Batch, i>>
<1>1. KeyOf(w)
  BY DEF FleetInv, Keyed
<1>2. PICK r \in Requests : \E i \in 1 .. Jobs[r] :
          /\ hand[w] = <<r, i>>
          /\ IF Excl(r) THEN busy[w] = <<Batch, i>>
             ELSE busy[w] = <<r, i>> /\ (place \notin Ended => r \in Live)
  BY <1>1 DEF KeyOf
<1>3. head \in Requests /\ Excl(head) /\ live = <<>>
  BY DEF FleetInv, Waiting
<1>4. Live = {}
  BY <1>3 DEF Live, Members
<1>5. Excl(r)
  BY <1>2, <1>4 DEF Owning, Ended
<1>6. r = head
  <2>1. CASE Lonely
    BY <1>3, <1>5, <2>1 DEF Lonely, Excl
  <2>2. CASE Sound
    <3>1. hand[w][1] = r
      BY <1>2
    <3> QED
      BY <2>2, <3>1 DEF Sound
  <2> QED
    BY <2>1, <2>2 DEF FleetInv
<1> QED
  BY <1>2, <1>5, <1>6

\* A result comes back: its replica is free, and the result is at its place.
LEMMA ReturnedKeeps ==
    ASSUME FleetInv, NEW w \in Replicas, Busy(w), NEW r \in Requests, NEW i \in 1 .. Jobs[r],
           hand[w] = <<r, i>>,
           IF Excl(r) THEN busy[w] = <<Batch, i>> ELSE busy[w] = <<r, i>>,
           idle' = Append(idle, w), busy' = [busy EXCEPT ![w] = <<>>], card' = [card EXCEPT ![w] = "waiting"],
           failed \subseteq failed',
           UNCHANGED <<scen, stage, reply, scan, live, head, nxt, poisoned, hand, alive>>,
           \/ place = "harvest" /\ place' = "harvest" /\ ~Excl(r) /\ inflight' = inflight
              /\ results' = [results EXCEPT ![r] = [results[r] EXCEPT ![i] = hand[w]]]
           \/ place \in {"wait", "take"} /\ place' = "take" /\ Excl(r) /\ inflight' = inflight - 1
              /\ results' = [results EXCEPT ![r] = [results[r] EXCEPT ![i] = hand[w]]]
           \/ place = "harvest" /\ place' = "down" /\ Excl(r) /\ UNCHANGED <<inflight, results>>
    PROVE  FleetInv'
<1>1. w \notin Spare /\ idle \in Seq(Replicas) /\ Once(idle) /\ DOMAIN busy = Replicas /\ DOMAIN card = Replicas
  BY DEF FleetInv, Keyed, PoolShaped
<1>2. idle' \in Seq(Replicas) /\ Once(idle') /\ Spare' = Spare \cup {w}
  BY <1>1, AppendOnce DEF Spare
<1>3. /\ DOMAIN busy' = Replicas /\ DOMAIN card' = Replicas /\ busy'[w] = <<>> /\ card'[w] = "waiting"
      /\ \A v \in Replicas \ {w} : busy'[v] = busy[v] /\ card'[v] = card[v]
  BY <1>1
<1>4. /\ DOMAIN results = Requests /\ \A q \in Requests : Listed(results[q], Jobs[q])
      /\ \A q \in Requests : \A j \in 1 .. Jobs[q] : results[q][j] = <<>> \/ Over(q, j)
  BY DEF FleetInv, PoolShaped, Placed
<1>5. /\ DOMAIN results' = Requests /\ \A q \in Requests : Listed(results[q], Jobs[q])'
      /\ \A q \in Requests : \A j \in 1 .. Jobs[q] : results'[q][j] = results[q][j] \/ results'[q][j] = <<q, j>>
      /\ place' # "down" => results'[r][i] = <<r, i>>
  <2>1. CASE place' = "down"
    BY <1>4, <2>1
  <2>2. CASE place' # "down"
    <3>1. results' = [results EXCEPT ![r] = [results[r] EXCEPT ![i] = <<r, i>>]]
      BY <2>2
    <3>2. /\ DOMAIN results' = Requests /\ results'[r] = [results[r] EXCEPT ![i] = <<r, i>>]
          /\ \A q \in Requests \ {r} : results'[q] = results[q]
      BY <1>4, <3>1
    <3>3. /\ Listed(results[r], Jobs[r])' /\ results'[r][i] = <<r, i>>
          /\ \A j \in (1 .. Jobs[r]) \ {i} : results'[r][j] = results[r][j]
      BY <1>4, <3>2 DEF Listed
    <3> QED
      BY <1>4, <3>2, <3>3 DEF Listed
  <2> QED
    BY <2>1, <2>2
<1>6. QueueShaped'
  BY DEF FleetInv, QueueShaped
<1>7. PoolShaped'
  BY <1>2, <1>3, <1>5 DEF FleetInv, PoolShaped
<1>8. Waiting'
  BY DEF FleetInv, Waiting, Excl, Owning, Live
<1>9. Keyed'
  <2> SUFFICES ASSUME NEW v \in Replicas, Busy(v)' PROVE KeyOf(v)' /\ v \notin Spare'
    BY DEF Keyed
  <2>1. v # w
    BY <1>3 DEF Busy
  <2>2. KeyOf(v) /\ v \notin Spare
    BY <1>3, <2>1 DEF FleetInv, Keyed, Busy
  <2>3. KeyOf(v)'
    BY <1>3, <2>1, <2>2, KeysStay DEF Ended, Live
  <2> QED
    BY <1>2, <2>1, <2>2, <2>3
<1>10. Placed'
  <2>1. \A q \in Requests : \A j \in 1 .. Jobs[q] : results'[q][j] = <<>> \/ Over(q, j)'
    BY <1>4, <1>5 DEF Over
  <2>2. \A q \in Requests : \A j \in 1 .. Jobs[q] : Over(q, j) => Over(q, j)'
    BY <1>5 DEF Over
  <2>3. \A q \in Requests : reply'[q] = "answered" => \A j \in 1 .. Jobs[q] : Over(q, j)'
    BY <2>2 DEF FleetInv, Placed
  <2>4. ASSUME place' \notin Ended, NEW q \in Requests, ~Excl(q), q \notin failed', NEW j \in 1 .. nxt'[q]
        PROVE  Over(q, j)' \/ \E v \in Replicas : busy'[v] = <<q, j>>
    <3>1. j \in 1 .. Jobs[q]
      BY Numbers DEF FleetInv, PoolShaped
    <3>2. Over(q, j) \/ \E v \in Replicas : busy[v] = <<q, j>>
      BY <2>4 DEF FleetInv, Placed, Ended
    <3>3. CASE Over(q, j)
      BY <2>2, <3>1, <3>3
    <3>4. ASSUME NEW v \in Replicas, busy[v] = <<q, j>>
          PROVE  Over(q, j)' \/ \E u \in Replicas : busy'[u] = <<q, j>>
      <4>1. CASE v = w
        <5>1. q = r /\ j = i
          BY <2>4, <3>4, <4>1, Numbers
        <5> QED
          BY <1>5, <2>4, <5>1 DEF Over, Ended
      <4>2. CASE v # w
        BY <1>3, <3>4, <4>2
      <4> QED
        BY <4>1, <4>2
    <3> QED
      BY <3>2, <3>3, <3>4
  <2> QED
    BY <2>1, <2>3, <2>4 DEF Placed, Excl
<1>11. ASSUME Sound PROVE Sound'
  <2>1. AtWork' = AtWork \ {w} /\ w \in AtWork
    BY <1>3 DEF AtWork, Busy
  <2>2. Cardinality(AtWork') = Cardinality(AtWork) - 1
    BY <2>1, WorkFinite, FS_RemoveElement
  <2>3. Excl(r) => place # "harvest"
    BY <1>11 DEF Sound, Owning
  <2>4. inflight' = IF place' \in Owning THEN Cardinality(AtWork') ELSE 0
    BY <1>11, <2>2, <2>3 DEF Sound, Owning
  <2>5. \A v \in Replicas : Busy(v)' => Busy(v) /\ (card'[v] = "raised" => card[v] = "raised")
    BY <1>3 DEF Busy
  <2> QED
    BY <1>11, <2>3, <2>4, <2>5 DEF Sound, Owning, Excl
<1>12. (Lonely \/ Sound)'
  BY <1>11 DEF FleetInv, Lonely
<1> QED
  BY <1>6, <1>7, <1>8, <1>9, <1>10, <1>12 DEF FleetInv

LEMMA CollectKeeps ==
    ASSUME FleetInv, NEW w \in Replicas,
           Fleet!Collect(w) \/ Fleet!CollectStray(w) \/ Fleet!BatchCollect(w)
    PROVE  FleetInv'
<1>1. /\ Busy(w) /\ idle' = Append(idle, w) /\ busy' = [busy EXCEPT ![w] = <<>>]
      /\ card' = [card EXCEPT ![w] = "waiting"] /\ failed \subseteq failed'
      /\ UNCHANGED <<scen, stage, reply, scan, live, head, nxt, poisoned, hand, alive>>
  BY DEF Fleet!Collect, Fleet!CollectStray, Fleet!BatchCollect, Fleet!Free, Fleet!Ready, Fleet!NoKey, Busy,
         Fleet!client, Fleet!queue, Fleet!loop, Fleet!work
<1>2. PICK r \in Requests : \E j \in 1 .. Jobs[r] :
          /\ hand[w] = <<r, j>>
          /\ IF Excl(r) THEN busy[w] = <<Batch, j>>
             ELSE busy[w] = <<r, j>> /\ (place \notin Ended => r \in Live)
  BY <1>1 DEF FleetInv, Keyed, KeyOf
<1> PICK i \in 1 .. Jobs[r] :
          /\ hand[w] = <<r, i>>
          /\ IF Excl(r) THEN busy[w] = <<Batch, i>>
             ELSE busy[w] = <<r, i>> /\ (place \notin Ended => r \in Live)
  BY <1>2
<1>3. (busy[w][1] = Batch <=> Excl(r)) /\ busy[w][2] = i /\ (~Excl(r) => busy[w][1] = r)
  BY Numbers
<1>4. CASE Fleet!Collect(w)
  <2>1. /\ place = "harvest" /\ place' = "harvest" /\ inflight' = inflight /\ busy[w][1] # Batch
        /\ results' = [results EXCEPT ![busy[w][1]] =
                          [results[busy[w][1]] EXCEPT ![busy[w][2]] = hand[w]]]
    BY <1>4 DEF Fleet!Collect, Fleet!loop
  <2> QED
    BY <1>1, <1>3, <2>1, ReturnedKeeps
<1>5. CASE Fleet!CollectStray(w)
  <2>1. place = "harvest" /\ place' = "down" /\ UNCHANGED <<inflight, results>> /\ busy[w][1] = Batch
    BY <1>5 DEF Fleet!CollectStray, Fleet!work
  <2> QED
    BY <1>1, <1>3, <2>1, ReturnedKeeps
<1>6. CASE Fleet!BatchCollect(w)
  <2>1. /\ place \in {"wait", "take"} /\ place' = "take" /\ inflight' = inflight - 1
        /\ results' = [results EXCEPT ![head] = [results[head] EXCEPT ![busy[w][2]] = hand[w]]]
    BY <1>6 DEF Fleet!BatchCollect
  <2>2. r = head /\ Excl(r)
    <3>1. \E j \in 1 .. Jobs[head] : hand[w] = <<head, j>> /\ busy[w] = <<Batch, j>>
      BY <1>1, <2>1, OwnedJobs DEF Owning
    <3> QED
      BY <1>3, <3>1
  <2> QED
    BY <1>1, <1>3, <2>1, <2>2, ReturnedKeeps
<1> QED
  BY <1>4, <1>5, <1>6

\* A live request is answered, when none of its jobs is in hand.
LEMMA RepliedKeeps ==
    ASSUME FleetInv, NEW r \in Live, NEW a \in {"error", "answered"},
           place \in {"settle", "fail"}, place' = place,
           reply' = [reply EXCEPT ![r] = a], a = "answered" => \A i \in 1 .. Jobs[r] : Over(r, i),
           live' \in Seq(Requests), Once(live'), Live' = Live \ {r},
           place = "settle" => \A w \in Replicas : Busy(w) => hand[w][1] # r,
           UNCHANGED <<scen, stage, scan, head, nxt, results, failed, inflight, idle, busy, poisoned, hand,
                       card, alive>>
    PROVE  FleetInv'
<1>1. /\ r \in Requests /\ Live \subseteq Requests /\ scan = {}
      /\ reply \in [Requests -> {"none", "error", "answered"}]
      /\ stage[r] = "taken"
  BY DEF FleetInv, QueueShaped, Live, Members, Waiting
<1>2. /\ reply' \in [Requests -> {"none", "error", "answered"}] /\ reply'[r] = a
      /\ \A q \in Requests \ {r} : reply'[q] = reply[q]
  BY <1>1
<1>3. QueueShaped'
  BY <1>2 DEF FleetInv, QueueShaped
<1>4. PoolShaped'
  BY DEF FleetInv, PoolShaped
<1>5. Waiting'
  BY <1>1, <1>2 DEF FleetInv, Waiting, Owning
<1>6. Keyed'
  <2> SUFFICES ASSUME NEW w \in Replicas, Busy(w)' PROVE KeyOf(w)' /\ w \notin Spare'
    BY DEF Keyed
  <2>1. Busy(w) /\ w \notin Spare'
    BY DEF FleetInv, Keyed, Busy, Spare
  <2>2. PICK q \in Requests : \E i \in 1 .. Jobs[q] :
            /\ hand[w] = <<q, i>>
            /\ IF Excl(q) THEN busy[w] = <<Batch, i>>
               ELSE busy[w] = <<q, i>> /\ (place \notin Ended => q \in Live)
    BY <2>1 DEF FleetInv, Keyed, KeyOf
  <2>3. place = "settle" => q # r
    BY <2>1, <2>2
  <2> QED
    BY <2>1, <2>2, <2>3 DEF KeyOf, Excl, Ended
<1>7. Placed'
  <2>1. \A q \in Requests : \A j \in 1 .. Jobs[q] : results'[q][j] = <<>> \/ Over(q, j)'
    BY DEF FleetInv, Placed, Over
  <2>2. \A q \in Requests : reply'[q] = "answered" => \A j \in 1 .. Jobs[q] : Over(q, j)'
    BY <1>2 DEF FleetInv, Placed, Over
  <2> QED
    BY <2>1, <2>2 DEF FleetInv, Placed, Over, Excl, Ended
<1>8. (Lonely \/ Sound)'
  <2>1. CASE Sound
    BY <2>1 DEF Sound, AtWork, Busy, Excl, Owning
  <2> QED
    BY <2>1 DEF FleetInv, Lonely
<1> QED
  BY <1>3, <1>4, <1>5, <1>6, <1>7, <1>8 DEF FleetInv

LEMMA FailLiveKeeps == ASSUME FleetInv, Fleet!FailLive PROVE FleetInv'
<1>1. /\ place = "fail" /\ live # <<>> /\ reply' = [reply EXCEPT ![live[1]] = "error"] /\ live' = Tail(live)
      /\ UNCHANGED <<scen, stage, place, scan, head, nxt, results, failed, inflight, idle, busy, poisoned, hand,
                     card, alive>>
  BY DEF Fleet!FailLive, Fleet!client, Fleet!work, Fleet!pool, Fleet!procs
<1>2. live \in Seq(Requests) /\ Once(live)
  BY DEF FleetInv, QueueShaped
<1>3. live[1] \in Live
  BY <1>1, <1>2, EmptySeq, LenProperties DEF Live, Members
<1>4. live' \in Seq(Requests) /\ Once(live') /\ Live' = Live \ {live[1]}
  BY <1>1, <1>2, TailOnce DEF Live
<1> QED
  BY <1>1, <1>3, <1>4, RepliedKeeps

LEMMA SettleKeeps == ASSUME FleetInv, NEW k \in DOMAIN live, Fleet!Settle(k) PROVE FleetInv'
<1> DEFINE r == live[k]
           a == Fleet!Outcome(r)
<1>1. /\ place = "settle" /\ ~Excl(r) /\ Fleet!Finished(r)
      /\ reply' = [reply EXCEPT ![r] = a] /\ live' = Fleet!RemoveAt(live, k)
      /\ UNCHANGED <<scen, stage, place, scan, head, nxt, results, failed, inflight, idle, busy, poisoned, hand,
                     card, alive>>
  BY DEF Fleet!Settle, Fleet!Excl, Excl, Fleet!client, Fleet!work, Fleet!pool, Fleet!procs
<1>2. live \in Seq(Requests) /\ Once(live) /\ r \in Live /\ r \in Requests
  BY DEF FleetInv, QueueShaped, Live, Members
<1>3. a \in {"error", "answered"} /\ (a = "answered" => r \notin failed)
  BY DEF Fleet!Outcome
<1>4. live' \in Seq(Requests) /\ Once(live') /\ Live' = Live \ {r}
  BY <1>1, <1>2, RemoveOnce DEF Live
<1> HIDE DEF r, a
<1>5. \A w \in Replicas : Busy(w) => busy[w][1] # r
  BY <1>1 DEF Fleet!Finished, Fleet!Flight, Fleet!NoKey, Fleet!Replicas, Replicas, Busy
<1>6. ASSUME NEW w \in Replicas, Busy(w) PROVE hand[w][1] # r
  <2>1. PICK q \in Requests : \E i \in 1 .. Jobs[q] :
            hand[w] = <<q, i>> /\ IF Excl(q) THEN busy[w] = <<Batch, i>> ELSE busy[w] = <<q, i>>
    BY <1>6 DEF FleetInv, Keyed, KeyOf
  <2> QED
    BY <1>1, <1>5, <1>6, <2>1
<1>7. ASSUME a = "answered", NEW i \in 1 .. Jobs[r] PROVE Over(r, i)
  <2>1. r \notin failed /\ nxt[r] = Jobs[r]
    BY <1>1, <1>3, <1>7 DEF Fleet!Finished
  <2>2. Over(r, i) \/ \E w \in Replicas : busy[w] = <<r, i>>
    BY <1>1, <1>2, <1>7, <2>1 DEF FleetInv, Placed, Ended
  <2>3. \A w \in Replicas : busy[w] # <<r, i>>
    <3>1. <<r, i>> # <<>> /\ <<r, i>>[1] = r
      OBVIOUS
    <3> QED
      BY <1>5, <3>1 DEF Busy
  <2> QED
    BY <2>2, <2>3
<1> QED
  BY <1>1, <1>2, <1>3, <1>4, <1>6, <1>7, RepliedKeeps

\* A replica died with a job: whoever is live fails.
LEMMA BuryKeeps == ASSUME FleetInv, NEW w \in Replicas, Fleet!Bury(w) PROVE FleetInv'
<1>1. /\ Busy(w) /\ place = "harvest" /\ place' = "fail" /\ card[w] = "working" /\ w \notin alive
      /\ busy' = [busy EXCEPT ![w] = <<>>]
      /\ UNCHANGED <<scen, stage, reply, scan, live, head, inflight, nxt, results, idle, hand, card, alive>>
  BY DEF Fleet!Bury, Fleet!Ready, Fleet!NoKey, Busy, Fleet!client, Fleet!queue, Fleet!procs
<1>2. DOMAIN busy' = Replicas /\ busy'[w] = <<>> /\ \A v \in Replicas \ {w} : busy'[v] = busy[v]
  BY <1>1 DEF FleetInv, PoolShaped
<1>3. QueueShaped'
  BY <1>1 DEF FleetInv, QueueShaped
<1>4. PoolShaped'
  BY <1>1, <1>2 DEF FleetInv, PoolShaped
<1>5. Waiting'
  BY <1>1 DEF FleetInv, Waiting, Excl, Owning, Live
<1>6. Keyed'
  <2> SUFFICES ASSUME NEW v \in Replicas, Busy(v)' PROVE KeyOf(v)' /\ v \notin Spare'
    BY DEF Keyed
  <2>1. v # w
    BY <1>2 DEF Busy
  <2>2. KeyOf(v) /\ v \notin Spare
    BY <1>2, <2>1 DEF FleetInv, Keyed, Busy
  <2> QED
    BY <1>1, <1>2, <2>1, <2>2, KeysStay DEF Ended, Spare
<1>7. Placed'
  BY <1>1 DEF FleetInv, Placed, Over, Ended
<1>8. (Lonely \/ Sound)'
  BY <1>1 DEF FleetInv, Lonely, Sound
<1> QED
  BY <1>3, <1>4, <1>5, <1>6, <1>7, <1>8 DEF FleetInv

\* A query is done or has raised; a process dies.
LEMMA ProcsKeep == ASSUME FleetInv, NEW w \in Replicas, Fleet!Finish(w) \/ Fleet!Die(w) PROVE FleetInv'
<1>1. UNCHANGED <<scen, stage, reply, place, scan, live, head, inflight, nxt, results, failed, idle, busy,
                  poisoned, hand>>
  BY DEF Fleet!Finish, Fleet!Die, Fleet!client, Fleet!queue, Fleet!loop, Fleet!work, Fleet!pool
<1>2. /\ DOMAIN card' = Replicas /\ alive' \subseteq Replicas
      /\ \A v \in Replicas : card'[v] = "raised" => card[v] = "raised" \/ hand[v][1] \in scen.raising
      /\ alive' # alive => scen.mortal
  BY DEF FleetInv, PoolShaped, Fleet!Finish, Fleet!Die
<1>3. QueueShaped' /\ PoolShaped'
  BY <1>1, <1>2 DEF FleetInv, QueueShaped, PoolShaped
<1>4. Waiting'
  BY <1>1 DEF FleetInv, Waiting, Excl, Owning, Live
<1>5. Keyed'
  BY <1>1 DEF FleetInv, Keyed, KeyOf, Busy, Spare, Live, Excl, Ended
<1>6. Placed'
  BY <1>1 DEF FleetInv, Placed, Over, Excl, Ended
<1>7. (Lonely \/ Sound)'
  <2>1. CASE Sound
    BY <1>1, <1>2, <2>1 DEF Sound, AtWork, Busy, Excl, Owning
  <2> QED
    BY <1>1, <2>1 DEF FleetInv, Lonely
<1> QED
  BY <1>3, <1>4, <1>5, <1>6, <1>7 DEF FleetInv

\* A batch is over, however: its request gets its reply and the loop goes on.
LEMMA BatchEnds ==
    ASSUME FleetInv, place \in Owning, place' = "admit", head' = Batch, inflight' = 0, failed \subseteq failed',
           NEW a \in {"error", "answered"}, reply' = [reply EXCEPT ![head] = a],
           a = "answered" => \A i \in 1 .. Jobs[head] : Over(head, i),
           UNCHANGED <<scen, stage, scan, live, nxt, results, hand, alive>>,
           idle' \in Seq(Replicas), Once(idle'), DOMAIN busy' = Replicas, DOMAIN card' = Replicas,
           \A v \in Replicas : Busy(v)' => busy'[v] = busy[v] /\ v \notin Spare',
           Sound => AtWork = {} /\ poisoned' = poisoned
    PROVE  FleetInv'
<1>1. /\ head \in Requests /\ Excl(head) /\ live = <<>> /\ stage[head] = "taken" /\ scan = {}
      /\ reply \in [Requests -> {"none", "error", "answered"}]
  BY DEF FleetInv, QueueShaped, Waiting, Owning
<1>2. /\ reply' \in [Requests -> {"none", "error", "answered"}] /\ reply'[head] = a
      /\ \A q \in Requests \ {head} : reply'[q] = reply[q]
  BY <1>1
<1>3. Live = {} /\ Live' = {}
  BY <1>1 DEF Live, Members
<1>4. QueueShaped'
  BY <1>1, <1>2 DEF FleetInv, QueueShaped
<1>5. PoolShaped'
  BY DEF FleetInv, PoolShaped
<1>6. Waiting'
  <2>1. \A q \in Requests : stage[q] # "taken" => reply'[q] = "none"
    BY <1>1, <1>2 DEF FleetInv, Waiting
  <2> QED
    BY <1>1, <1>3, <2>1 DEF Waiting, Owning
<1>7. \A w \in Replicas : Busy(w) => \E r \in Requests : \E i \in 1 .. Jobs[r] :
          Excl(r) /\ hand[w] = <<r, i>> /\ busy[w] = <<Batch, i>>
  BY <1>3 DEF FleetInv, Keyed, KeyOf, Ended, Owning
<1>8. Keyed'
  <2> SUFFICES ASSUME NEW v \in Replicas, Busy(v)' PROVE KeyOf(v)' /\ v \notin Spare'
    BY DEF Keyed
  <2>1. busy'[v] = busy[v] /\ v \notin Spare' /\ Busy(v)
    BY DEF Busy
  <2> QED
    BY <1>7, <2>1 DEF KeyOf, Excl
<1>9. Placed'
  <2>1. \A q \in Requests : \A j \in 1 .. Jobs[q] : results'[q][j] = <<>> \/ Over(q, j)'
    BY DEF FleetInv, Placed, Over
  <2>2. \A q \in Requests : reply'[q] = "answered" => \A j \in 1 .. Jobs[q] : Over(q, j)'
    BY <1>2 DEF FleetInv, Placed, Over
  <2>3. ASSUME NEW q \in Requests, ~Excl(q), q \notin failed, NEW j \in 1 .. nxt[q] PROVE Over(q, j)
    <3>1. Over(q, j) \/ \E w \in Replicas : busy[w] = <<q, j>>
      BY <2>3 DEF FleetInv, Placed, Ended, Owning
    <3>2. \A w \in Replicas : busy[w] # <<q, j>>
      <4>1. <<q, j>> # <<>> /\ \A i : <<Batch, i>> # <<q, j>>
        BY Numbers
      <4> QED
        BY <1>7, <4>1 DEF Busy
    <3> QED
      BY <3>1, <3>2
  <2> QED
    BY <2>1, <2>2, <2>3 DEF Placed, Excl, Over
<1>10. ASSUME Sound PROVE Sound'
  <2>1. \A w \in Replicas : ~Busy(w)'
    BY <1>10 DEF AtWork, Busy
  <2> QED
    BY <1>10, <2>1 DEF Sound, Owning
<1>11. (Lonely \/ Sound)'
  BY <1>10 DEF FleetInv, Lonely
<1> QED
  BY <1>4, <1>5, <1>6, <1>8, <1>9, <1>11 DEF FleetInv

\* The replicas of a set, in any order.
LEMMA OrderOnce ==
    ASSUME NEW S \in SUBSET Replicas, NEW order \in Fleet!SetToSeqs(S)
    PROVE  order \in Seq(Replicas) /\ Once(order) /\ Members(order) \subseteq S
<1>1. IsFiniteSet(1 .. N)
  BY Numbers, FS_Interval
<1>2. IsFiniteSet(S)
  BY <1>1, FS_Subset DEF Replicas
<1>3. Fleet!Cardinality(S) = Cardinality(S)
  BY DEF Fleet!Cardinality, Cardinality
<1> DEFINE c == Cardinality(S)
<1>4. c \in Nat
  BY <1>2, FS_CardinalityType
<1>5. order \in [1 .. c -> S] /\ \A i, j \in 1 .. c : i # j => order[i] # order[j]
  BY <1>3 DEF Fleet!SetToSeqs
<1> HIDE DEF c
<1>6. order \in Seq(Replicas)
  <2>1. order \in [1 .. c -> Replicas]
    BY <1>5
  <2> QED
    BY <1>4, <2>1
<1>7. Once(order) /\ Members(order) \subseteq S
  BY <1>5 DEF Once, Members
<1> QED
  BY <1>6, <1>7

LEMMA BatchRefusesKeeps == ASSUME FleetInv, Fleet!BatchRefuses PROVE FleetInv'
<1>1. /\ place \in {"batch", "send"}
      /\ \/ place = "batch" /\ Width[head] \notin Replicas
         \/ place = "send" /\ poisoned
      /\ failed' = failed \cup {head} /\ reply' = [reply EXCEPT ![head] = "error"]
      /\ place' = "admit" /\ head' = Batch /\ inflight' = 0
      /\ UNCHANGED <<scen, stage, scan, live, nxt, results, idle, busy, poisoned, hand, card, alive>>
  BY DEF Fleet!BatchRefuses, Fleet!BatchFails, Fleet!client, Fleet!pool, Fleet!procs, Fleet!Replicas, Replicas
<1>2. place \in Owning
  BY <1>1 DEF Owning
<1>3. idle \in Seq(Replicas) /\ Once(idle) /\ DOMAIN busy = Replicas /\ DOMAIN card = Replicas
  BY DEF FleetInv, PoolShaped
<1>4. \A v \in Replicas : Busy(v)' => busy'[v] = busy[v] /\ v \notin Spare'
  BY <1>1 DEF FleetInv, Keyed, Busy, Spare
<1>5. Sound => AtWork = {}
  BY <1>1 DEF Sound, Owning
<1>6. Once(idle')
  BY <1>1, <1>3
<1> QED
  BY <1>1, <1>2, <1>3, <1>4, <1>5, <1>6, BatchEnds

LEMMA BatchSendRaisesKeeps == ASSUME FleetInv, Fleet!BatchSendRaises PROVE FleetInv'
<1> DEFINE k == Fleet!FirstOf(Fleet!Serviceable(Width[head]))
<1>1. /\ place = "send" /\ idle[k] \notin alive /\ idle' = Fleet!RemoveAt(idle, k)
      /\ Fleet!Serviceable(Width[head]) # {}
      /\ failed' = failed \cup {head} /\ reply' = [reply EXCEPT ![head] = "error"]
      /\ place' = "admit" /\ head' = Batch /\ inflight' = 0
      /\ UNCHANGED <<scen, stage, scan, live, nxt, results, busy, poisoned, hand, card, alive>>
  BY DEF Fleet!BatchSendRaises, Fleet!BatchFails, Fleet!client, Fleet!procs
<1>2. idle \in Seq(Replicas) /\ Once(idle) /\ DOMAIN busy = Replicas /\ DOMAIN card = Replicas
  BY DEF FleetInv, PoolShaped
<1>3. k \in DOMAIN idle
  <2>1. DOMAIN idle \subseteq Nat
    BY <1>2, LenProperties
  <2> QED
    BY <1>1, <2>1, FirstPosition DEF Fleet!Serviceable
<1> HIDE DEF k
<1>4. idle' \in Seq(Replicas) /\ Once(idle') /\ Spare' \subseteq Spare
  BY <1>1, <1>2, <1>3, RemoveOnce DEF Spare
<1>5. \A v \in Replicas : Busy(v)' => busy'[v] = busy[v] /\ v \notin Spare'
  BY <1>1, <1>4 DEF FleetInv, Keyed, Busy
<1>6. ~Sound
  BY <1>1, <1>2, <1>3, ElementOfSeq, LenProperties DEF Sound
<1> QED
  BY <1>1, <1>2, <1>4, <1>5, <1>6, BatchEnds DEF Owning

LEMMA BatchCollectRaisesKeeps ==
    ASSUME FleetInv, NEW w \in Replicas, Fleet!BatchCollectRaises(w) PROVE FleetInv'
<1>1. /\ place \in {"wait", "take"} /\ w \in Fleet!Returned
      /\ card[w] = "raised" \/ busy[w][2] \notin Fleet!JobsOf(head)
      /\ failed' = failed \cup {head} /\ reply' = [reply EXCEPT ![head] = "error"]
      /\ place' = "admit" /\ head' = Batch /\ inflight' = 0
      /\ UNCHANGED <<scen, stage, scan, live, nxt, results, poisoned, hand, alive>>
  BY DEF Fleet!BatchCollectRaises, Fleet!BatchFails, Fleet!client
<1>2. PICK S \in SUBSET Fleet!Returned :
         /\ \E order \in Fleet!SetToSeqs(S) : idle' = idle \o order
         /\ busy' = [v \in Replicas |-> IF v \in S THEN <<>> ELSE busy[v]]
         /\ card' = [v \in Replicas |-> IF v \in S THEN "waiting" ELSE card[v]]
  BY DEF Fleet!BatchCollectRaises, Fleet!NoKey, Fleet!Replicas, Replicas
<1> PICK order \in Fleet!SetToSeqs(S) : idle' = idle \o order
  BY <1>2
<1>3. S \subseteq Replicas /\ \A v \in S : Busy(v)
  BY <1>2 DEF Fleet!Returned, Fleet!Ready, Fleet!Replicas, Replicas, Fleet!NoKey, Busy
<1>4. order \in Seq(Replicas) /\ Once(order) /\ Members(order) \subseteq S
  BY <1>3, OrderOnce
<1>5. idle \in Seq(Replicas) /\ Once(idle)
  BY DEF FleetInv, PoolShaped
<1>6. \A v \in Spare : v \notin S
  BY <1>3 DEF FleetInv, Keyed
<1>7. idle' \in Seq(Replicas) /\ Once(idle') /\ Spare' = Spare \cup Members(order)
  BY <1>4, <1>5, <1>6, JoinOnce DEF Spare
<1>8. ASSUME NEW v \in Replicas, Busy(v)' PROVE busy'[v] = busy[v] /\ v \notin Spare'
  <2>1. v \notin S /\ busy'[v] = busy[v]
    BY <1>2, <1>8 DEF Busy
  <2> QED
    BY <1>4, <1>7, <1>8, <2>1 DEF FleetInv, Keyed, Busy
<1>9. DOMAIN busy' = Replicas /\ DOMAIN card' = Replicas
  BY <1>2
<1>10. ~Sound
  <2>1. Busy(w) /\ place \in Owning
    BY <1>1 DEF Fleet!Returned, Fleet!Ready, Fleet!NoKey, Busy, Owning
  <2>2. PICK i \in 1 .. Jobs[head] : hand[w] = <<head, i>> /\ busy[w] = <<Batch, i>>
    BY <2>1, OwnedJobs
  <2>3. card[w] = "raised" /\ hand[w][1] = head
    BY <1>1, <2>2 DEF Fleet!JobsOf
  <2>4. Excl(head)
    BY <2>1 DEF FleetInv, Waiting
  <2> QED
    BY <2>1, <2>3, <2>4 DEF Sound, Excl
<1> QED
  BY <1>1, <1>7, <1>8, <1>9, <1>10, BatchEnds DEF Owning

LEMMA BatchBuryKeeps == ASSUME FleetInv, NEW w \in Replicas, Fleet!BatchBury(w) PROVE FleetInv'
<1>1. /\ place \in {"wait", "take"} /\ Busy(w) /\ card[w] = "working" /\ w \notin alive
      /\ busy' = [busy EXCEPT ![w] = <<>>]
      /\ failed' = failed \cup {head} /\ reply' = [reply EXCEPT ![head] = "error"]
      /\ place' = "admit" /\ head' = Batch /\ inflight' = 0
      /\ UNCHANGED <<scen, stage, scan, live, nxt, results, idle, hand, card, alive>>
  BY DEF Fleet!BatchBury, Fleet!BatchFails, Fleet!Ready, Fleet!NoKey, Busy, Fleet!client, Fleet!procs
<1>2. idle \in Seq(Replicas) /\ Once(idle) /\ DOMAIN busy = Replicas /\ DOMAIN card = Replicas
  BY DEF FleetInv, PoolShaped
<1>3. \A v \in Replicas : Busy(v)' => busy'[v] = busy[v] /\ v \notin Spare'
  BY <1>1, <1>2 DEF FleetInv, Keyed, Busy, Spare
<1>4. ~Sound
  BY <1>1 DEF Sound
<1>5. Once(idle') /\ DOMAIN busy' = Replicas
  BY <1>1, <1>2
<1> QED
  BY <1>1, <1>2, <1>3, <1>4, <1>5, BatchEnds DEF Owning

LEMMA BatchDoneKeeps == ASSUME FleetInv, Fleet!BatchDone PROVE FleetInv'
<1>1. /\ place = "batch" /\ Width[head] \in Replicas /\ inflight = 0
      /\ UNCHANGED <<scen, stage, scan, live, inflight, nxt, results, failed, idle, busy, poisoned, hand,
                     card, alive>>
  BY DEF Fleet!BatchDone, Fleet!client, Fleet!work, Fleet!pool, Fleet!procs, Fleet!Replicas, Replicas
<1>2. CASE \E i \in 1 .. Jobs[head] : results[head][i] = <<>>
  <2>1. place' = "down" /\ UNCHANGED <<reply, head>>
    BY <1>2 DEF Fleet!BatchDone, Fleet!JobsOf, Fleet!NoJob
  <2>2. QueueShaped'
    BY <1>1, <2>1 DEF FleetInv, QueueShaped
  <2>3. PoolShaped'
    BY <1>1, <2>1 DEF FleetInv, PoolShaped
  <2>4. Waiting'
    BY <1>1, <2>1 DEF FleetInv, Waiting, Excl, Owning, Live
  <2>5. Keyed'
    BY <1>1, <2>1 DEF FleetInv, Keyed, KeyOf, Busy, Spare, Live, Excl, Ended
  <2>6. Placed'
    BY <1>1, <2>1 DEF FleetInv, Placed, Over, Excl, Ended
  <2>7. Sound => Sound'
    <3>1. Sound => AtWork = {}
      BY <1>1, WorkFinite, FS_EmptySet DEF Sound, Owning
    <3> QED
      BY <1>1, <2>1, <3>1 DEF Sound, AtWork, Busy, Excl, Owning
  <2>8. (Lonely \/ Sound)'
    BY <1>1, <2>7 DEF FleetInv, Lonely
  <2> QED
    BY <2>2, <2>3, <2>4, <2>5, <2>6, <2>8 DEF FleetInv
<1>3. CASE \A i \in 1 .. Jobs[head] : results[head][i] # <<>>
  <2>1. reply' = [reply EXCEPT ![head] = "answered"] /\ place' = "admit" /\ head' = Batch /\ inflight' = 0
    BY <1>1, <1>3 DEF Fleet!BatchDone, Fleet!JobsOf, Fleet!NoJob
  <2>2. head \in Requests
    BY <1>1 DEF FleetInv, Waiting, Owning
  <2>3. \A i \in 1 .. Jobs[head] : Over(head, i)
    BY <1>3, <2>2 DEF FleetInv, Placed
  <2>4. Sound => AtWork = {}
    BY <1>1, WorkFinite, FS_EmptySet DEF Sound, Owning
  <2>5. idle \in Seq(Replicas) /\ Once(idle) /\ DOMAIN busy = Replicas /\ DOMAIN card = Replicas
    BY DEF FleetInv, PoolShaped
  <2>6. \A v \in Replicas : Busy(v)' => busy'[v] = busy[v] /\ v \notin Spare'
    BY <1>1 DEF FleetInv, Keyed, Busy, Spare
  <2>7. Once(idle')
    BY <1>1, <2>5
  <2> QED
    BY <1>1, <2>1, <2>3, <2>4, <2>5, <2>6, <2>7, BatchEnds DEF Owning
<1> QED
  BY <1>2, <1>3

LEMMA FleetInitial == ASSUME Tame, Fleet!Init PROVE FleetInv
<1>1. /\ scen \in Scenarios /\ place = "admit" /\ scan = {} /\ live = <<>> /\ head = Batch /\ inflight = 0
      /\ stage = [r \in Requests |-> "unsent"] /\ reply = [r \in Requests |-> "none"]
      /\ nxt = [r \in Requests |-> 0] /\ results = [r \in Requests |-> [i \in 1 .. Jobs[r] |-> <<>>]]
      /\ idle = [i \in Replicas |-> i] /\ busy = [w \in Replicas |-> <<>>] /\ ~poisoned
      /\ hand = [w \in Replicas |-> <<>>] /\ card = [w \in Replicas |-> "waiting"] /\ alive = Replicas
  BY DEF Fleet!Init, Fleet!Replicas, Replicas, Fleet!JobsOf, Fleet!NoJob, Fleet!NoKey
<1>2. live \in Seq(Requests) /\ Once(live) /\ Live = {}
  BY <1>1, EmptySeq DEF Once, Live, Members
<1>3. idle \in Seq(Replicas) /\ Once(idle)
  <2>1. N \in Nat /\ idle \in [1 .. N -> Replicas]
    BY <1>1, Numbers DEF Replicas
  <2>2. Once(idle)
    BY <1>1 DEF Once
  <2> QED
    BY <2>1, <2>2
<1>4. QueueShaped
  BY <1>1, <1>2 DEF QueueShaped
<1>5. PoolShaped
  <2>1. DOMAIN results = Requests /\ \A r \in Requests : Listed(results[r], Jobs[r])
    BY <1>1 DEF Listed
  <2> QED
    BY <1>1, <1>3, <2>1, Numbers DEF PoolShaped
<1>6. Waiting
  BY <1>1, <1>2 DEF Waiting, Owning
<1>7. \A w \in Replicas : ~Busy(w)
  BY <1>1 DEF Busy
<1>8. Keyed
  BY <1>7 DEF Keyed
<1>9. Placed
  <2>1. \A r \in Requests : \A i \in 1 .. Jobs[r] : results[r][i] = <<>>
    BY <1>1
  <2>2. \A r \in Requests : reply[r] # "answered" /\ 1 .. nxt[r] = {}
    BY <1>1
  <2> QED
    BY <2>1, <2>2 DEF Placed
<1>10. Lonely \/ Sound
  BY <1>1, <1>7 DEF Tame, Lonely, Sound, Owning
<1> QED
  BY <1>4, <1>5, <1>6, <1>8, <1>9, <1>10 DEF FleetInv

LEMMA FleetServed == ASSUME FleetInv, Fleet!Serve PROVE FleetInv'
<1>1. CASE \/ Fleet!List \/ Fleet!Dispatched \/ Fleet!DispatchRaises \/ Fleet!FailDone \/ Fleet!Harvested
           \/ Fleet!Settled \/ Fleet!BatchLoop \/ Fleet!BatchSent \/ Fleet!BatchTaken
  BY <1>1, ServeMoves
<1>2. CASE Fleet!Admitted
  BY <1>2, BeginKeeps, ServeMoves
<1>3. CASE \E r \in Requests : Fleet!Refuse(r) \/ Fleet!Accept(r)
  BY <1>3, RefuseKeeps, AcceptKeeps
<1>4. CASE Fleet!Dispatch \/ Fleet!BatchSend
  BY <1>4, DispatchKeeps, BatchSendKeeps
<1>5. CASE Fleet!FailLive \/ \E k \in DOMAIN live : Fleet!Settle(k)
  BY <1>5, FailLiveKeeps, SettleKeeps
<1>6. CASE Fleet!BatchRefuses \/ Fleet!BatchSendRaises \/ Fleet!BatchDone
  BY <1>6, BatchRefusesKeeps, BatchSendRaisesKeeps, BatchDoneKeeps
<1>7. CASE \E w \in Replicas : Fleet!Collect(w) \/ Fleet!CollectStray(w) \/ Fleet!BatchCollect(w)
  BY <1>7, CollectKeeps
<1>8. CASE \E w \in Replicas : Fleet!Bury(w) \/ Fleet!BatchCollectRaises(w) \/ Fleet!BatchBury(w)
  BY <1>8, BuryKeeps, BatchCollectRaisesKeeps, BatchBuryKeeps
<1> QED
  BY <1>1, <1>2, <1>3, <1>4, <1>5, <1>6, <1>7, <1>8 DEF Fleet!Serve, Fleet!Replicas, Replicas

LEMMA FleetStands == ASSUME FleetInv, UNCHANGED fleetVars PROVE FleetInv'
<1>1. UNCHANGED <<contents, place, scan, live, head>>
  BY DEF fleetVars, contents
<1>2. QueueShaped' /\ PoolShaped' /\ Waiting'
  BY <1>1 DEF FleetInv, QueueShaped, PoolShaped, Waiting, contents, Live, Excl, Owning
<1>3. Keyed'
  BY <1>1 DEF FleetInv, Keyed, KeyOf, Busy, Spare, Live, Excl, Ended, contents
<1>4. Placed'
  BY <1>1 DEF FleetInv, Placed, Over, Excl, Ended, contents
<1>5. (Lonely \/ Sound)'
  BY <1>1 DEF FleetInv, Lonely, Sound, AtWork, Busy, Excl, Owning, contents
<1> QED
  BY <1>2, <1>3, <1>4, <1>5 DEF FleetInv

moves == <<machine, vars, fleetVars, nodeVars>>

LEMMA FleetInductive ==
    ASSUME FleetInv, [RegistryRuns \/ FleetRuns \/ NodeRuns]_moves PROVE FleetInv'
<1>1. CASE Fleet!Next
  <2>1. CASE Fleet!Serve
    BY <2>1, FleetServed
  <2>2. CASE Fleet!IdleExit
    BY <2>2, ServeMoves
  <2>3. CASE \E r \in Requests : Fleet!Ask(r)
    BY <2>3, AskKeeps
  <2>4. CASE \E w \in Replicas : Fleet!Finish(w) \/ Fleet!Die(w)
    BY <2>4, ProcsKeep
  <2> QED
    BY <1>1, <2>1, <2>2, <2>3, <2>4 DEF Fleet!Next, Fleet!Replicas, Replicas
<1>2. CASE UNCHANGED fleetVars
  BY <1>2, FleetStands
<1> QED
  BY <1>1, <1>2 DEF moves, RegistryRuns, FleetRuns, NodeRuns

LEMMA OwnFromInv == ASSUME FleetInv PROVE OwnAnswers
<1>1. ASSUME NEW r \in Requests, reply[r] = "answered" PROVE results[r] = Fleet!Own(r)
  <2>1. \A i \in 1 .. Jobs[r] : results[r][i] = <<r, i>>
    BY <1>1 DEF FleetInv, Placed, Over
  <2>2. results[r] = [i \in 1 .. Jobs[r] |-> results[r][i]]
    BY DEF FleetInv, PoolShaped, Listed
  <2>3. results[r] = [i \in 1 .. Jobs[r] |-> <<r, i>>]
    BY <2>1, <2>2
  <2> QED
    BY <2>3 DEF Fleet!Own, Fleet!JobsOf
<1> QED
  BY <1>1 DEF OwnAnswers, Fleet!OwnAnswers

LEMMA FleetAlways == Tame => (MCSpec => []FleetInv)
<1>1. Tame /\ MCInit => FleetInv
  BY FleetInitial DEF MCInit
<1>2. FleetInv /\ [RegistryRuns \/ FleetRuns \/ NodeRuns]_moves => FleetInv'
  BY FleetInductive
<1> QED
  BY <1>1, <1>2, PTL DEF MCSpec, moves

\* A request that is answered gets, at each position, the result of its own
\* query, whatever order the replicas finish in: _Live.took and run_batch. Not
\* when an error or a death ends the batch of one of two requests that own the
\* fleet.
THEOREM ServedOwn == Tame => (MCSpec => []OwnAnswers)
<1>1. FleetInv => OwnAnswers
  BY OwnFromInv
<1> QED
  BY <1>1, FleetAlways, PTL

-----------------------------------------------------------------------------
(* The promise of AnswerService.                                              *)

Told(r) == IF reply[r] = "answered" THEN "own" ELSE reply[r]

Promising ==
    \/ UNCHANGED <<stage, reply>>
    \/ \E r \in Requests :
          \/ stage[r] = "unsent" /\ stage' = [stage EXCEPT ![r] = "queued"] /\ reply' = reply
          \/ stage[r] = "queued" /\ stage' = [stage EXCEPT ![r] = "taken"] /\ reply' = reply
          \/ /\ stage[r] = "taken" /\ reply[r] = "none" /\ stage' = stage
             /\ \E a \in {"error", "answered"} : reply' = [reply EXCEPT ![r] = a]

\* The request a batch works for, a listed and a live one have no answer yet.
LEMMA StepsPromise == ASSUME FleetInv, Fleet!Next PROVE Promising
<1> USE DEF Fleet!client, Fleet!queue, Promising
<1>1. CASE \/ Fleet!List \/ Fleet!Admitted \/ Fleet!Dispatch \/ Fleet!DispatchRaises \/ Fleet!Dispatched
           \/ Fleet!FailDone \/ Fleet!Harvested \/ Fleet!Settled \/ Fleet!BatchLoop \/ Fleet!BatchSend
           \/ Fleet!BatchSent \/ Fleet!BatchTaken \/ Fleet!IdleExit
  BY <1>1 DEF Fleet!List, Fleet!Admitted, Fleet!Dispatch, Fleet!DispatchRaises, Fleet!Dispatched, Fleet!FailDone,
     Fleet!Harvested, Fleet!Settled, Fleet!BatchLoop, Fleet!BatchSend, Fleet!BatchSent, Fleet!BatchTaken,
     Fleet!IdleExit
<1>2. CASE \E w \in Replicas : \/ Fleet!Collect(w) \/ Fleet!CollectStray(w) \/ Fleet!Bury(w)
                               \/ Fleet!BatchCollect(w) \/ Fleet!Finish(w) \/ Fleet!Die(w)
  BY <1>2 DEF Fleet!Collect, Fleet!CollectStray, Fleet!Bury, Fleet!BatchCollect, Fleet!Finish, Fleet!Die
<1>3. ASSUME NEW r \in Requests, Fleet!Ask(r) PROVE Promising
  BY <1>3 DEF Fleet!Ask
<1>4. ASSUME NEW r \in Requests, Fleet!Accept(r) PROVE Promising
  <2>1. stage[r] = "queued"
    BY <1>4 DEF Fleet!Accept, FleetInv, QueueShaped, Waiting
  <2> QED
    BY <1>4, <2>1 DEF Fleet!Accept
<1>5. ASSUME NEW r \in Requests, Fleet!Refuse(r) PROVE Promising
  <2>1. reply[r] = "none"
    BY <1>5 DEF Fleet!Refuse, FleetInv, Waiting
  <2> QED
    BY <1>5, <2>1 DEF Fleet!Refuse
<1>6. ASSUME Fleet!FailLive PROVE Promising
  <2>1. live[1] \in Live /\ live[1] \in Requests
    BY <1>6, EmptySeq, LenProperties, ElementOfSeq DEF Fleet!FailLive, Live, Members, FleetInv, QueueShaped
  <2>2. stage[live[1]] = "taken" /\ reply[live[1]] = "none"
    BY <2>1 DEF FleetInv, Waiting
  <2> QED
    BY <1>6, <2>1, <2>2 DEF Fleet!FailLive
<1>7. ASSUME NEW k \in DOMAIN live, Fleet!Settle(k) PROVE Promising
  <2>1. live[k] \in Live /\ live[k] \in Requests
    BY DEF Live, Members, FleetInv, QueueShaped
  <2>2. stage[live[k]] = "taken" /\ reply[live[k]] = "none"
    BY <2>1 DEF FleetInv, Waiting
  <2> QED
    BY <1>7, <2>1, <2>2 DEF Fleet!Settle, Fleet!Outcome
<1>8. ASSUME place \in Owning, UNCHANGED stage,
             UNCHANGED reply \/ \E a \in {"error", "answered"} : reply' = [reply EXCEPT ![head] = a]
      PROVE  Promising
  BY <1>8 DEF FleetInv, Waiting
<1>9. CASE Fleet!BatchRefuses \/ Fleet!BatchSendRaises \/ Fleet!BatchDone
  BY <1>8, <1>9 DEF Fleet!BatchRefuses, Fleet!BatchSendRaises, Fleet!BatchDone, Fleet!BatchFails, Owning
<1>10. CASE \E w \in Replicas : Fleet!BatchCollectRaises(w) \/ Fleet!BatchBury(w)
  BY <1>8, <1>10 DEF Fleet!BatchCollectRaises, Fleet!BatchBury, Fleet!BatchFails, Owning
<1> QED
  BY <1>1, <1>2, <1>3, <1>4, <1>5, <1>6, <1>7, <1>9, <1>10 DEF Fleet!Next, Fleet!Serve, Fleet!Replicas, Replicas

Promised == [r \in Requests |-> IF reply[r] # "answered" THEN reply[r]
                                ELSE IF results[r] = Fleet!Own(r) THEN "own" ELSE "other"]

LEMMA PromisedIs == FleetInv => Promised = [r \in Requests |-> Told(r)]
BY OwnFromInv DEF Promised, Told, OwnAnswers, Fleet!OwnAnswers

LEMMA PromiseKept ==
    ASSUME FleetInv, FleetInv', Promising PROVE [Fleet!Promise!Next]_Fleet!Promise!vars
<1> DEFINE p == [r \in Requests |-> Told(r)]
           q == [r \in Requests |-> Told(r)']
<1>1. Promised = p /\ Promised' = q
  <2>1. (Promised = [r \in Requests |-> Told(r)])'
    BY PromisedIs, PTL
  <2> QED
    BY <2>1, PromisedIs
<1>2. SUFFICES [Fleet!Promise!Next]_<<stage, Promised>>
  BY DEF Fleet!Promise!vars, Promised
<1>3. reply \in [Requests -> {"none", "error", "answered"}]
  BY DEF FleetInv, QueueShaped
<1>4. CASE UNCHANGED <<stage, reply>>
  BY <1>1, <1>4 DEF Told
<1>5. ASSUME NEW r \in Requests, reply' = reply, stage[r] = "unsent", stage' = [stage EXCEPT ![r] = "queued"]
      PROVE  Fleet!Promise!Ask(r)
  <2>1. Promised' = Promised
    BY <1>1, <1>5 DEF Told
  <2> QED
    BY <1>5, <2>1 DEF Fleet!Promise!Ask, Promised
<1>6. ASSUME NEW r \in Requests, reply' = reply, stage[r] = "queued", stage' = [stage EXCEPT ![r] = "taken"]
      PROVE  Fleet!Promise!Take(r)
  <2>1. Promised' = Promised
    BY <1>1, <1>6 DEF Told
  <2> QED
    BY <1>6, <2>1 DEF Fleet!Promise!Take, Promised
<1>7. ASSUME NEW r \in Requests, stage[r] = "taken", reply[r] = "none", stage' = stage,
             NEW a \in {"error", "answered"}, reply' = [reply EXCEPT ![r] = a]
      PROVE  Fleet!Promise!Answer(r)
  <2> DEFINE b == IF a = "answered" THEN "own" ELSE a
  <2>1. reply'[r] = a /\ \A s \in Requests \ {r} : reply'[s] = reply[s]
    BY <1>3, <1>7
  <2>2. Promised[r] = "none" /\ b \in {"error", "own"}
    BY <1>1, <1>7 DEF Told
  <2>3. \A s \in Requests : Promised'[s] = IF s = r THEN b ELSE Promised[s]
    BY <1>1, <2>1 DEF Told
  <2> HIDE DEF b
  <2>4. Promised' = [Promised EXCEPT ![r] = b]
    BY <1>1, <2>3
  <2> QED
    BY <1>7, <2>2, <2>4 DEF Fleet!Promise!Answer, Promised
<1> QED
  BY <1>4, <1>5, <1>6, <1>7 DEF Promising, Fleet!Promise!Next

LEMMA PromiseBegins == ASSUME MCInit PROVE Fleet!Promise!Init
BY DEF MCInit, Fleet!Init, Fleet!Promise!Init

\* The service consumes a request once and gives it one reply, either an error
\* or the results of its own queries: _serve_multiplexed and _run_exclusive keep
\* the promise of AnswerService.
THEOREM ServicePromises == Tame => (MCSpec => PromiseSpec)
<1>1. MCInit => Fleet!Promise!Init
  BY PromiseBegins
<1>2. FleetInv /\ FleetInv' /\ [RegistryRuns \/ FleetRuns \/ NodeRuns]_moves
          => [Fleet!Promise!Next]_Fleet!Promise!vars
  <2>1. ASSUME FleetInv, [RegistryRuns \/ FleetRuns \/ NodeRuns]_moves PROVE Promising
    BY <2>1, StepsPromise DEF moves, RegistryRuns, FleetRuns, NodeRuns, fleetVars, Promising
  <2> QED
    BY <2>1, PromiseKept
<1> QED
  BY <1>1, <1>2, FleetAlways, PTL DEF MCSpec, moves, PromiseSpec, Fleet!PromiseSpec, Fleet!Promise!Spec

-----------------------------------------------------------------------------
(* NodeLifecycle.                                                             *)

Handles == 1 .. MaxBringups
Frame   == [pc : {"enter", "term", "wait", "kill", "close"}, h : Nat]
Gone(b) == b \in told \/ leader[b] = "reaped"
Early   == {"out", "opened"}

NodeShaped ==
    /\ n \in 0 .. MaxBringups /\ active \in 0 .. n
    /\ DOMAIN leader = Handles /\ engine \in [Handles -> BOOLEAN]
    /\ frames \in Seq(Frame)
    /\ \A i \in DOMAIN frames : /\ frames[i].h <= n
                                /\ frames[i].pc # "enter" => frames[i].h # 0

\* One server has engines at a time, and its API server outlives them or the
\* group was told.
Grouped ==
    /\ \A b \in Handles : b <= n <=> leader[b] # "none"
    /\ \A b, c \in Handles : engine[b] /\ engine[c] => b = c
    /\ ~weather.mortal =>
          \A b \in Handles : engine[b] /\ leader[b] \in {"exited", "reaped"} => b \in told

\* A teardown that is past its SIGTERM has reached the group, or found it gone.
Signalled ==
    /\ \A b \in stopped : b \in Handles /\ Gone(b)
    /\ \A i \in DOMAIN frames : frames[i].pc \in {"wait", "kill", "close"} => Gone(frames[i].h)

\* From Hold on, _ACTIVE is the latest server or it was torn down; before, there
\* is nothing to tear down.
Held ==
    /\ at \in Early => /\ active = 0 /\ (at = "opened" => n # 0)
                       /\ \A i \in DOMAIN frames : frames[i].pc = "enter" /\ frames[i].h = 0
    /\ at \notin Early \cup {"killed"} =>
          /\ active \in {0, n} /\ n # 0 /\ (active = 0 => n \in stopped)
          /\ \A i \in DOMAIN frames : frames[i].h \in {0, n}
    /\ at \in {"raised", "over"} /\ frames = <<>> => active = 0

NodeInv == NodeShaped /\ Grouped /\ Signalled /\ Held

\* The stack of calls: a call more, one step of the call on top, a return.
LEMMA CallFrames ==
    ASSUME frames \in Seq(Frame), NEW h \in Nat, frames' = Append(frames, [pc |-> "enter", h |-> h])
    PROVE  /\ frames' \in Seq(Frame) /\ frames' # <<>>
           /\ \A i \in DOMAIN frames' : \/ i \in DOMAIN frames /\ frames'[i] = frames[i]
                                        \/ frames'[i] = [pc |-> "enter", h |-> h]
<1> DEFINE f == [pc |-> "enter", h |-> h]
<1>1. f \in Frame
  BY DEF Frame
<1> HIDE DEF f
<1>2. /\ Append(frames, f) \in Seq(Frame) /\ Append(frames, f) # <<>>
      /\ \A i \in DOMAIN Append(frames, f) :
            \/ i \in DOMAIN frames /\ Append(frames, f)[i] = frames[i]
            \/ Append(frames, f)[i] = f
  BY <1>1
<1> QED
  BY <1>2 DEF f

LEMMA TopFrame ==
    ASSUME frames \in Seq(Frame), frames # <<>>
    PROVE  Len(frames) \in DOMAIN frames /\ Node!Top \in Frame
<1>1. Len(frames) \in Nat \ {0} /\ DOMAIN frames = 1 .. Len(frames)
  BY LenProperties, EmptySeq
<1> QED
  BY <1>1, ElementOfSeq DEF Node!Top

LEMMA GotoFrames ==
    ASSUME frames \in Seq(Frame), frames # <<>>, NEW f \in Frame,
           frames' = [frames EXCEPT ![Len(frames)] = f]
    PROVE  /\ frames' \in Seq(Frame) /\ frames' # <<>>
           /\ \A i \in DOMAIN frames' : i \in DOMAIN frames /\ (frames'[i] = frames[i] \/ frames'[i] = f)
<1>1. Len(frames) \in DOMAIN frames /\ DOMAIN frames = 1 .. Len(frames)
  BY TopFrame, LenProperties
<1>2. frames' \in Seq(Frame)
  BY <1>1, ExceptSeq
<1>3. /\ DOMAIN frames' = DOMAIN frames
      /\ \A i \in DOMAIN frames : frames'[i] = frames[i] \/ frames'[i] = f
  OBVIOUS
<1>4. frames' # <<>>
  BY <1>1, <1>3
<1> QED
  BY <1>2, <1>3, <1>4

LEMMA ReturnFrames ==
    ASSUME frames \in Seq(Frame), frames # <<>>, Node!Return
    PROVE  /\ frames' \in Seq(Frame)
           /\ \A i \in DOMAIN frames' : i \in DOMAIN frames /\ frames'[i] = frames[i]
<1>1. Len(frames) \in Nat \ {0} /\ DOMAIN frames = 1 .. Len(frames)
  BY LenProperties, EmptySeq
<1>2. frames' = SubSeq(frames, 1, Len(frames) - 1)
  BY DEF Node!Return
<1> DEFINE m == Len(frames) - 1
<1>3. m \in Int /\ m <= Len(frames) /\ \A i \in 1 .. m : frames[i] \in Frame
  BY <1>1, ElementOfSeq
<1> HIDE DEF m
<1>4. /\ SubSeq(frames, 1, m) \in Seq(Frame)
      /\ Len(SubSeq(frames, 1, m)) = IF 1 <= m THEN m - 1 + 1 ELSE 0
      /\ \A i \in 1 .. m - 1 + 1 : SubSeq(frames, 1, m)[i] = frames[1 + i - 1]
  BY <1>3, SubSeqProperties
<1>5. DOMAIN SubSeq(frames, 1, m) = 1 .. Len(SubSeq(frames, 1, m))
  BY <1>4, LenProperties
<1> QED
  BY <1>1, <1>2, <1>3, <1>4, <1>5 DEF m

LEMMA GroupedKeeps == ASSUME NodeInv, Node!Next PROVE Grouped'
<1> USE DEF Node!Handles, Handles, Node!caller, Node!group, Node!Alive
<1>0. /\ n \in Nat /\ DOMAIN leader = Handles /\ engine \in [Handles -> BOOLEAN] /\ MaxBringups \in Nat
      /\ n <= MaxBringups
  BY NodeAssumption DEF NodeInv, NodeShaped
<1>1. CASE UNCHANGED <<weather, n, leader, engine, told>>
  BY <1>1 DEF NodeInv, Grouped
<1>2. CASE Node!Spawn
  <2>1. /\ n' = n + 1 /\ n' \in Handles /\ leader' = [leader EXCEPT ![n'] = "starting"]
        /\ UNCHANGED <<weather, engine, told>>
    BY <1>0, <1>2 DEF Node!Spawn
  <2>2. leader'[n'] = "starting" /\ \A b \in Handles \ {n'} : leader'[b] = leader[b]
    BY <1>0, <2>1
  <2>3. \A b \in Handles : b <= n' <=> leader'[b] # "none"
    BY <1>0, <2>1, <2>2 DEF NodeInv, Grouped
  <2> QED
    BY <2>1, <2>2, <2>3 DEF NodeInv, Grouped
<1>3. ASSUME NEW b \in Handles, leader[b] \in {"exited", "reaped"}, Node!Reap(b),
             UNCHANGED <<weather, n, engine, told>>
      PROVE  Grouped'
  <2>1. leader'[b] = "reaped" /\ \A c \in Handles \ {b} : leader'[c] = leader[c]
    BY <1>0, <1>3 DEF Node!Reap
  <2> QED
    BY <1>3, <2>1 DEF NodeInv, Grouped
<1>4. CASE Node!Exited
  <2>1. n \in Handles
    BY <1>0, <1>4 DEF Node!Exited, NodeInv, Held, Early
  <2> QED
    BY <1>3, <1>4, <2>1 DEF Node!Exited
<1>5. ASSUME frames # <<>>, Node!Top.pc # "enter" PROVE Node!Top.h \in Handles
  BY <1>0, <1>5, TopFrame DEF NodeInv, NodeShaped, Node!Top, Frame
<1>6. CASE Node!Waited
  BY <1>3, <1>5, <1>6 DEF Node!Waited, Node!At
<1>7. CASE Node!Term
  BY <1>7 DEF Node!Term, NodeInv, Grouped
<1>8. CASE Node!Kill
  <2> DEFINE b == Node!Top.h
  <2>1. b \in Handles
    BY <1>5, <1>8 DEF Node!Kill, Node!At
  <2>2. CASE UNCHANGED <<leader, engine, told>>
    BY <1>1, <1>8, <2>2 DEF Node!Kill
  <2>3. CASE leader[b] # "none" /\ leader' = [leader EXCEPT ![b] = "exited"]
             /\ engine' = [engine EXCEPT ![b] = FALSE] /\ told' = told \cup {b}
    <3>1. /\ leader'[b] = "exited" /\ ~engine'[b] /\ UNCHANGED <<weather, n>> /\ told \subseteq told'
          /\ \A c \in Handles \ {b} : leader'[c] = leader[c] /\ engine'[c] = engine[c]
      BY <1>0, <1>8, <2>1, <2>3 DEF Node!Kill
    <3> HIDE DEF b
    <3> QED
      BY <2>1, <2>3, <3>1 DEF NodeInv, Grouped
  <2> QED
    BY <1>8, <2>2, <2>3 DEF Node!Kill, Node!Reachable
<1>9. ASSUME NEW b \in Handles, Node!Server(b) PROVE Grouped'
  <2>1. UNCHANGED <<weather, n, told>>
    BY <1>9 DEF Node!Server, Node!Fork, Node!Serve, Node!Go, Node!EngineGoes
  <2>2. CASE Node!Fork(b)
    <3>1. /\ leader[b] = "starting" /\ (\A c \in Handles : ~engine[c]) /\ leader' = leader
          /\ \A c \in Handles \ {b} : engine'[c] = engine[c]
      BY <1>0, <2>2 DEF Node!Fork
    <3> QED
      BY <2>1, <3>1 DEF NodeInv, Grouped
  <2>3. CASE Node!Serve(b)
    <3>1. /\ leader[b] # "none" /\ leader'[b] = "serving" /\ engine' = engine
          /\ \A c \in Handles \ {b} : leader'[c] = leader[c]
      BY <1>0, <2>3 DEF Node!Serve
    <3> QED
      BY <2>1, <3>1 DEF NodeInv, Grouped
  <2>4. CASE Node!Go(b)
    <3>1. /\ leader[b] # "none" /\ leader'[b] = "exited" /\ engine' = engine
          /\ \A c \in Handles \ {b} : leader'[c] = leader[c]
          /\ b \in told \/ weather.mortal \/ \E c \in Handles \ {b} : engine[c]
      BY <1>0, <2>4 DEF Node!Go
    <3> QED
      BY <2>1, <3>1 DEF NodeInv, Grouped
  <2>5. CASE Node!EngineGoes(b)
    <3>1. leader' = leader /\ \A c \in Handles : engine'[c] => engine[c]
      BY <1>0, <2>5 DEF Node!EngineGoes
    <3> QED
      BY <2>1, <3>1 DEF NodeInv, Grouped
  <2> QED
    BY <1>9, <2>2, <2>3, <2>4, <2>5 DEF Node!Server
<1>10. CASE Node!Hold \/ Node!Trap \/ Node!Answered \/ Node!TimedOut \/ Node!Giving \/ Node!Enter
            \/ Node!WaitedInVain \/ Node!Close \/ Node!Signal
  BY <1>1, <1>10 DEF Node!Hold, Node!Trap, Node!Answered, Node!TimedOut, Node!Giving, Node!Fail, Node!Finish,
     Node!Enter, Node!WaitedInVain, Node!Close, Node!Signal
<1> QED
  BY <1>2, <1>4, <1>6, <1>7, <1>8, <1>9, <1>10 DEF Node!Next, Node!Polling, Node!Teardown

\* What was told, or waited for, stays so.
LEMMA GoneStays == ASSUME NodeInv, Node!Next, NEW b \in Handles, Gone(b) PROVE Gone(b)'
<1> USE DEF Node!caller, Node!group, Node!Alive, Gone
<1>0. DOMAIN leader = Handles /\ n \in Nat
  BY NodeAssumption DEF NodeInv, NodeShaped
<1>1. told \subseteq told'
  BY DEF Node!Next, Node!Spawn, Node!Polling, Node!Hold, Node!Trap, Node!Answered, Node!Exited, Node!TimedOut,
     Node!Giving, Node!Fail, Node!Finish, Node!Teardown, Node!Enter, Node!Term, Node!Waited, Node!WaitedInVain,
     Node!Kill, Node!Close, Node!Signal, Node!Server, Node!Fork, Node!Serve, Node!Go, Node!EngineGoes
<1>2. ASSUME leader[b] = "reaped" PROVE leader'[b] = "reaped"
  <2>1. leader' # leader =>
           \E c : \E a : /\ leader' = [leader EXCEPT ![c] = a]
                         /\ leader[c] # "reaped" \/ a = "reaped"
    <3>1. CASE Node!Spawn
      <4>1. leader' = [leader EXCEPT ![n + 1] = "starting"] /\ n + 1 \in Handles
        BY <1>0, <3>1, NodeAssumption DEF Node!Spawn, Handles, NodeInv, NodeShaped
      <4>2. leader[n + 1] # "reaped"
        <5>1. leader[n + 1] = "none"
          BY <1>0, <4>1 DEF NodeInv, Grouped
        <5> QED
          BY <5>1
      <4> QED
        BY <4>1, <4>2
    <3>2. CASE ~Node!Spawn
      BY <3>2 DEF Node!Next, Node!Polling, Node!Hold, Node!Trap, Node!Answered, Node!Exited, Node!TimedOut,
         Node!Giving, Node!Fail, Node!Finish, Node!Teardown, Node!Enter, Node!Term, Node!Waited,
         Node!WaitedInVain, Node!Kill, Node!Close, Node!Signal, Node!Server, Node!Fork, Node!Serve, Node!Go,
         Node!EngineGoes, Node!Reap, Node!Reachable
    <3> QED
      BY <3>1, <3>2
  <2> QED
    BY <1>0, <1>2, <2>1
<1> QED
  BY <1>1, <1>2

\* A call that was under way, a new one, or the step the call on top makes.
Moved(f) ==
    \/ \E i \in DOMAIN frames : f = frames[i]
    \/ f.pc = "enter" /\ f.h \in {0, n} /\ (at \in Early => f.h = 0)
    \/ /\ frames # <<>>
       /\ \/ Node!Top.pc = "enter" /\ f.pc = "term" /\ f.h # 0 /\ f.h \in {Node!Top.h, active}
          \/ Node!Top.pc = "term" /\ f.pc = "wait" /\ f.h = Node!Top.h /\ Node!Term
          \/ /\ Node!Top.pc \in {"wait", "kill"} /\ f.pc \in {"kill", "close"} /\ f.h = Node!Top.h

LEMMA FramesMove ==
    ASSUME NodeInv, Node!Next
    PROVE  frames' \in Seq(Frame) /\ \A i \in DOMAIN frames' : Moved(frames'[i])
<1>0. frames \in Seq(Frame) /\ n \in Nat /\ active \in Nat
  BY NodeAssumption DEF NodeInv, NodeShaped
<1>1. CASE UNCHANGED frames
  BY <1>0, <1>1 DEF Moved
<1>2. ASSUME NEW h \in {0, n}, at \in Early => h = 0, Node!Call(h)
      PROVE  frames' \in Seq(Frame) /\ \A i \in DOMAIN frames' : Moved(frames'[i])
  <2>1. /\ frames' \in Seq(Frame)
        /\ \A i \in DOMAIN frames' : \/ i \in DOMAIN frames /\ frames'[i] = frames[i]
                                     \/ frames'[i] = [pc |-> "enter", h |-> h]
    BY <1>0, <1>2, CallFrames DEF Node!Call
  <2> QED
    BY <1>2, <2>1 DEF Moved
<1>3. CASE Node!Giving
  BY <1>2, <1>3 DEF Node!Giving, Node!Fail, Node!Finish, Early
<1>4. CASE Node!Signal
  <2>1. CASE frames' = <<>>
    BY <2>1
  <2>2. CASE Node!Call(0)
    BY <1>2, <2>2
  <2> QED
    BY <1>4, <2>1, <2>2 DEF Node!Signal
<1>5. ASSUME frames # <<>>, Node!Return
      PROVE  frames' \in Seq(Frame) /\ \A i \in DOMAIN frames' : Moved(frames'[i])
  BY <1>0, <1>5, ReturnFrames DEF Moved
<1>6. ASSUME frames # <<>>, NEW f \in Frame, frames' = [frames EXCEPT ![Len(frames)] = f], Moved(f)
      PROVE  frames' \in Seq(Frame) /\ \A i \in DOMAIN frames' : Moved(frames'[i])
  <2>1. /\ frames' \in Seq(Frame)
        /\ \A i \in DOMAIN frames' : i \in DOMAIN frames /\ (frames'[i] = frames[i] \/ frames'[i] = f)
    BY <1>0, <1>6, GotoFrames
  <2> QED
    BY <1>6, <2>1 DEF Moved
<1>7. CASE Node!Enter
  <2> DEFINE h == IF Node!Top.h # 0 THEN Node!Top.h ELSE active
             f == [pc |-> "term", h |-> h]
  <2>1. frames # <<>> /\ Node!Top.pc = "enter"
    BY <1>7 DEF Node!Enter, Node!At
  <2>2. Node!Return \/ (h # 0 /\ frames' = [frames EXCEPT ![Len(frames)] = f])
    BY <1>7 DEF Node!Enter
  <2>3. h \in {Node!Top.h, active} /\ h \in Nat
    BY <1>0, <2>1, TopFrame DEF Frame
  <2>4. f \in Frame /\ f.pc = "term" /\ f.h = h
    BY <2>3 DEF Frame
  <2> HIDE DEF h, f
  <2>5. h # 0 => Moved(f)
    BY <2>1, <2>3, <2>4 DEF Moved
  <2> QED
    BY <1>5, <1>6, <2>1, <2>2, <2>4, <2>5
<1>8. ASSUME frames # <<>>, NEW to \in {"wait", "kill", "close"}, Node!Goto(to),
             \/ Node!Top.pc = "term" /\ to = "wait" /\ Node!Term
             \/ Node!Top.pc \in {"wait", "kill"} /\ to \in {"kill", "close"}
      PROVE  frames' \in Seq(Frame) /\ \A i \in DOMAIN frames' : Moved(frames'[i])
  <2> DEFINE f == [Node!Top EXCEPT !.pc = to]
  <2>1. Len(frames) \in DOMAIN frames /\ Node!Top \in Frame
    BY <1>0, <1>8, TopFrame
  <2>2. f \in Frame /\ f.pc = to /\ f.h = Node!Top.h
    BY <2>1 DEF Frame
  <2>3. frames' = [frames EXCEPT ![Len(frames)] = f]
    BY <1>8, <2>1 DEF Node!Goto, Node!Top
  <2> HIDE DEF f
  <2>4. Moved(f)
    BY <1>8, <2>2 DEF Moved
  <2> QED
    BY <1>6, <1>8, <2>2, <2>3, <2>4
<1>9. CASE Node!Term
  BY <1>8, <1>9 DEF Node!Term, Node!At
<1>10. CASE Node!Waited \/ Node!WaitedInVain \/ Node!Kill
  BY <1>8, <1>10 DEF Node!Waited, Node!WaitedInVain, Node!Kill, Node!At
<1>11. CASE Node!Close
  BY <1>5, <1>11 DEF Node!Close, Node!At
<1>12. CASE Node!Spawn \/ Node!Polling \/ \E b \in Node!Handles : Node!Server(b)
  BY <1>1, <1>12 DEF Node!Spawn, Node!Polling, Node!Hold, Node!Trap, Node!Answered, Node!Exited, Node!TimedOut,
     Node!Server, Node!Fork, Node!Serve, Node!Go, Node!EngineGoes
<1> QED
  BY <1>3, <1>4, <1>7, <1>9, <1>10, <1>11, <1>12 DEF Node!Next, Node!Teardown

\* What the invariant says of the calls under way.
LEMMA TopKnown ==
    ASSUME NodeInv, frames # <<>>
    PROVE  /\ Node!Top \in Frame /\ Node!Top.h <= n
           /\ Node!Top.pc # "enter" => Node!Top.h \in Handles
           /\ Node!Top.pc \in {"wait", "kill", "close"} => Gone(Node!Top.h)
           /\ at \in Early => Node!Top.pc = "enter" /\ Node!Top.h = 0
           /\ at \notin Early \cup {"killed"} => Node!Top.h \in {0, n}
<1>1. Len(frames) \in DOMAIN frames /\ Node!Top \in Frame /\ Node!Top = frames[Len(frames)]
  BY TopFrame DEF NodeInv, NodeShaped, Node!Top
<1>2. n \in Nat /\ n <= MaxBringups /\ MaxBringups \in Nat
  BY NodeAssumption DEF NodeInv, NodeShaped
<1>3. /\ Node!Top.h \in Nat /\ Node!Top.h <= n
      /\ Node!Top.pc # "enter" => Node!Top.h # 0
  BY <1>1 DEF NodeInv, NodeShaped, Frame
<1>4. Node!Top.pc \in {"wait", "kill", "close"} => Gone(Node!Top.h)
  BY <1>1 DEF NodeInv, Signalled
<1>5. /\ at \in Early => Node!Top.pc = "enter" /\ Node!Top.h = 0
      /\ at \notin Early \cup {"killed"} => Node!Top.h \in {0, n}
  BY <1>1 DEF NodeInv, Held
<1> QED
  BY <1>1, <1>2, <1>3, <1>4, <1>5 DEF Handles

LEMMA ShapedKeeps == ASSUME NodeInv, Node!Next PROVE NodeShaped'
<1> USE DEF Node!caller, Node!group, Node!Handles, Handles
<1>0. /\ n \in Nat /\ active \in Nat /\ active <= n /\ n <= MaxBringups /\ MaxBringups \in Nat
      /\ DOMAIN leader = Handles /\ engine \in [Handles -> BOOLEAN]
  BY NodeAssumption DEF NodeInv, NodeShaped
<1>1. n' \in 0 .. MaxBringups /\ n <= n' /\ active' \in {0, n, active}
  BY <1>0 DEF Node!Next, Node!Spawn, Node!Polling, Node!Hold, Node!Trap, Node!Answered, Node!Exited, Node!TimedOut,
     Node!Giving, Node!Fail, Node!Finish, Node!Teardown, Node!Enter, Node!Term, Node!Waited, Node!WaitedInVain,
     Node!Kill, Node!Close, Node!Signal, Node!Server, Node!Fork, Node!Serve, Node!Go, Node!EngineGoes
<1>2. DOMAIN leader' = Handles /\ engine' \in [Handles -> BOOLEAN]
  BY <1>0 DEF Node!Next, Node!Spawn, Node!Polling, Node!Hold, Node!Trap, Node!Answered, Node!Exited, Node!TimedOut,
     Node!Giving, Node!Fail, Node!Finish, Node!Teardown, Node!Enter, Node!Term, Node!Waited, Node!WaitedInVain,
     Node!Kill, Node!Close, Node!Signal, Node!Server, Node!Fork, Node!Serve, Node!Go, Node!EngineGoes, Node!Reap
<1>3. frames' \in Seq(Frame)
  BY FramesMove
<1>4. ASSUME NEW i \in DOMAIN frames' PROVE frames'[i].h <= n' /\ (frames'[i].pc # "enter" => frames'[i].h # 0)
  <2> DEFINE f == frames'[i]
  <2>1. Moved(f) /\ f \in Frame
    BY <1>3, FramesMove, ElementOfSeq, LenProperties
  <2>2. f.h \in Nat
    BY <2>1 DEF Frame
  <2> HIDE DEF f
  <2>3. f.h <= n /\ (f.pc # "enter" => f.h # 0)
    <3>1. CASE \E j \in DOMAIN frames : f = frames[j]
      BY <3>1 DEF NodeInv, NodeShaped
    <3>2. CASE f.pc = "enter" /\ f.h \in {0, n}
      BY <1>0, <3>2
    <3>3. CASE frames # <<>> /\ f.h # 0 /\ f.h \in {Node!Top.h, active}
      BY <1>0, <3>3, TopKnown
    <3>4. CASE frames # <<>> /\ f.h = Node!Top.h /\ Node!Top.pc # "enter"
      BY <1>0, <3>4, TopKnown
    <3> QED
      BY <2>1, <3>1, <3>2, <3>3, <3>4 DEF Moved
  <2>4. f.h <= n'
    BY <1>0, <1>1, <2>2, <2>3
  <2> QED
    BY <2>3, <2>4 DEF f
<1>5. active' \in 0 .. n'
  BY <1>0, <1>1
<1> QED
  BY <1>1, <1>2, <1>3, <1>4, <1>5 DEF NodeShaped

LEMMA SignalledKeeps == ASSUME NodeInv, Node!Next PROVE Signalled'
<1> USE DEF Node!caller, Node!group
<1>0. stopped \subseteq Handles /\ n \in Nat /\ n <= MaxBringups /\ MaxBringups \in Nat
  BY NodeAssumption DEF NodeInv, NodeShaped, Signalled
<1>1. ASSUME NEW b \in stopped' PROVE b \in Handles /\ Gone(b)'
  <2>1. b \in stopped \/ (frames # <<>> /\ Node!Top.pc = "close" /\ b = Node!Top.h)
    BY DEF Node!Next, Node!Spawn, Node!Polling, Node!Hold, Node!Trap, Node!Answered, Node!Exited,
       Node!TimedOut, Node!Giving, Node!Fail, Node!Finish, Node!Teardown, Node!Enter, Node!Term, Node!Waited,
       Node!WaitedInVain, Node!Kill, Node!Close, Node!Signal, Node!Server, Node!Fork, Node!Serve, Node!Go,
       Node!EngineGoes, Node!At
  <2>2. b \in Handles /\ Gone(b)
    BY <2>1, TopKnown DEF NodeInv, Signalled
  <2> QED
    BY <2>2, GoneStays
<1>2. ASSUME NEW i \in DOMAIN frames', frames'[i].pc \in {"wait", "kill", "close"}
      PROVE  frames'[i].h \in told' \/ leader'[frames'[i].h] = "reaped"
  <2> PICK f : f = frames'[i]
    OBVIOUS
  <2> PICK h : h = f.h
    OBVIOUS
  <2>1. Moved(f) /\ f.pc \in {"wait", "kill", "close"}
    BY <1>2, FramesMove
  <2>2. h \in Handles /\ Gone(h)'
    <3>1. CASE \E j \in DOMAIN frames : f = frames[j]
      <4>1. PICK j \in DOMAIN frames : f = frames[j]
        BY <3>1
      <4>2. frames[j] \in Frame /\ frames[j].h <= n /\ frames[j].h # 0
        BY <2>1, <4>1, ElementOfSeq, LenProperties DEF NodeInv, NodeShaped
      <4>3. h \in Handles /\ Gone(h)
        BY <1>0, <2>1, <4>1, <4>2 DEF NodeInv, Signalled, Frame, Handles
      <4> QED
        BY <4>3, GoneStays
    <3>2. CASE frames # <<>> /\ Node!Top.pc = "term" /\ h = Node!Top.h /\ Node!Term
      <4>1. h \in Handles
        BY <3>2, TopKnown
      <4>2. CASE leader[h] = "none"
        BY <3>2, <4>1, <4>2, TopKnown DEF NodeInv, Grouped
      <4>3. CASE leader[h] = "reaped"
        <5>1. Gone(h)
          BY <4>3 DEF Gone
        <5> QED
          BY <4>1, <5>1, GoneStays
      <4>4. CASE Node!Reachable(h)
        BY <3>2, <4>1, <4>4 DEF Node!Term, Gone
      <4> QED
        BY <4>1, <4>2, <4>3, <4>4 DEF Node!Reachable
    <3>3. CASE frames # <<>> /\ Node!Top.pc \in {"wait", "kill"} /\ h = Node!Top.h
      <4>1. h \in Handles /\ Gone(h)
        BY <3>3, TopKnown
      <4> QED
        BY <4>1, GoneStays
    <3> QED
      BY <2>1, <3>1, <3>2, <3>3 DEF Moved
  <2> QED
    BY <2>2 DEF Gone
<1>3. (\A b \in stopped : b \in Handles /\ Gone(b))'
  BY <1>1 DEF Handles
<1>4. (\A i \in DOMAIN frames : frames[i].pc \in {"wait", "kill", "close"} => Gone(frames[i].h))'
  BY <1>2 DEF Gone
<1> QED
  BY <1>3, <1>4 DEF Signalled

LEMMA HeldKeeps == ASSUME NodeInv, Node!Next PROVE Held'
<1> USE DEF Node!caller, Node!group, Early
<1>0. n \in Nat /\ active \in Nat /\ frames \in Seq(Frame)
  BY NodeAssumption DEF NodeInv, NodeShaped
<1>1. CASE Node!Spawn
  <2>1. /\ at \in {"out", "raised", "over"} /\ at' = "opened" /\ n' = n + 1 /\ active' = active
        /\ frames = <<>> /\ frames' = <<>>
    BY <1>1 DEF Node!Spawn, Node!Runs
  <2>2. active = 0
    BY <2>1 DEF NodeInv, Held
  <2> QED
    BY <1>0, <2>1, <2>2 DEF Held
<1>2. CASE Node!Hold
  <2>1. at = "opened" /\ at' = "held" /\ n' = n /\ active' = n /\ frames' = <<>>
    BY <1>2 DEF Node!Hold, Node!Runs
  <2>2. n # 0
    BY <2>1 DEF NodeInv, Held
  <2> QED
    BY <2>1, <2>2 DEF Held
<1>3. CASE Node!Trap \/ Node!Answered \/ Node!Exited \/ Node!TimedOut
  <2>1. /\ at \in {"held", "poll"} /\ at' \in {"poll", "ready", "failed"} /\ frames' = <<>>
        /\ UNCHANGED <<n, active, stopped>>
    BY <1>3 DEF Node!Trap, Node!Answered, Node!Exited, Node!TimedOut, Node!Runs
  <2> QED
    BY <2>1 DEF NodeInv, Held
<1>4. ASSUME at \notin Early \cup {"killed"}, at' \notin Early \cup {"killed"}, n' = n, stopped \subseteq stopped',
             \/ active' = active
             \/ active' = 0 /\ frames # <<>> /\ active = Node!Top.h /\ Node!Top.h \in stopped',
             at' \in {"raised", "over"} /\ frames' = <<>> => active' = 0
      PROVE  Held'
  <2>1. active \in {0, n} /\ n # 0 /\ (active = 0 => n \in stopped)
    BY <1>4 DEF NodeInv, Held
  <2>2. active' \in {0, n'} /\ (active' = 0 => n' \in stopped')
    BY <1>4, <2>1
  <2>3. ASSUME NEW i \in DOMAIN frames' PROVE frames'[i].h \in {0, n'}
    <3>1. Moved(frames'[i])
      BY FramesMove
    <3>2. ASSUME NEW j \in DOMAIN frames, frames'[i] = frames[j] PROVE frames'[i].h \in {0, n}
      BY <1>4, <3>2 DEF NodeInv, Held
    <3>3. frames # <<>> => Node!Top.h \in {0, n}
      BY <1>4, TopKnown
    <3> QED
      BY <1>4, <2>1, <3>1, <3>2, <3>3 DEF Moved
  <2> QED
    BY <1>4, <2>1, <2>2, <2>3 DEF Held
<1>5. ASSUME at \in Early, UNCHANGED <<at, n, active>> PROVE Held'
  <2>1. active = 0 /\ (at = "opened" => n # 0)
    BY <1>5 DEF NodeInv, Held
  <2>2. ASSUME NEW i \in DOMAIN frames' PROVE frames'[i].pc = "enter" /\ frames'[i].h = 0
    <3>1. Moved(frames'[i])
      BY FramesMove
    <3>2. ASSUME NEW j \in DOMAIN frames, frames'[i] = frames[j]
          PROVE  frames'[i].pc = "enter" /\ frames'[i].h = 0
      BY <1>5, <3>2 DEF NodeInv, Held
    <3>3. frames # <<>> => Node!Top.pc = "enter" /\ Node!Top.h = 0
      BY <1>5, TopKnown
    <3> QED
      BY <1>5, <2>1, <3>1, <3>2, <3>3 DEF Moved
  <2> QED
    BY <1>5, <2>1, <2>2 DEF Held
<1>6. CASE at' = "killed"
  BY <1>6 DEF Held
<1>7. CASE Node!Giving
  <2>1. /\ at \in {"failed", "ready"} /\ at' \in {"raised", "over"} /\ UNCHANGED <<n, active, stopped>>
        /\ \E h \in {0, n} : Node!Call(h)
    BY <1>7 DEF Node!Giving, Node!Fail, Node!Finish
  <2>2. frames' # <<>>
    BY <1>0, <2>1, CallFrames DEF Node!Call
  <2> QED
    BY <1>4, <2>1, <2>2
<1>8. CASE Node!Signal /\ at' # "killed"
  <2>1. UNCHANGED <<at, n, active, stopped>> /\ Node!Call(0)
    BY <1>8 DEF Node!Signal
  <2>2. frames' # <<>>
    BY <1>0, <2>1, CallFrames DEF Node!Call
  <2> QED
    BY <1>4, <1>5, <1>8, <2>1, <2>2
<1>9. CASE Node!Close /\ at' # "killed"
  <2>1. /\ UNCHANGED <<at, n>> /\ frames # <<>> /\ Node!Top.pc = "close"
        /\ active' = (IF active = Node!Top.h THEN 0 ELSE active) /\ stopped' = stopped \cup {Node!Top.h}
    BY <1>9 DEF Node!Close, Node!At
  <2>2. at \notin Early /\ at # "killed"
    BY <1>9, <2>1, TopKnown
  <2>3. Node!Top.h = n /\ active \in {0, n}
    <3>1. Node!Top.h # 0
      BY <2>1, TopKnown DEF Handles
    <3> QED
      BY <2>1, <2>2, <3>1, TopKnown DEF NodeInv, Held
  <2> QED
    BY <1>4, <2>1, <2>2, <2>3
<1>10. CASE (Node!Enter \/ Node!Term \/ Node!Waited \/ Node!WaitedInVain \/ Node!Kill) /\ at' # "killed"
  <2>1. UNCHANGED <<at, n, active, stopped>> /\ frames # <<>>
    BY <1>10 DEF Node!Enter, Node!Term, Node!Waited, Node!WaitedInVain, Node!Kill, Node!At
  <2>2. CASE at \in Early
    BY <1>5, <2>1, <2>2
  <2>3. CASE at \notin Early
    <3>1. frames' # <<>> \/ active = 0
      <4>1. CASE Node!Enter
        <5>1. (Node!Return /\ active = 0) \/ \E f : frames' = [frames EXCEPT ![Len(frames)] = f]
          BY <4>1 DEF Node!Enter
        <5> QED
          BY <1>0, <2>1, <5>1, TopFrame
      <4>2. CASE Node!Term \/ Node!Waited \/ Node!WaitedInVain \/ Node!Kill
        BY <1>0, <2>1, <4>2, TopFrame DEF Node!Term, Node!Waited, Node!WaitedInVain, Node!Kill, Node!Goto
      <4> QED
        BY <1>10, <4>1, <4>2
    <3> QED
      BY <1>4, <1>10, <2>1, <2>3, <3>1
  <2> QED
    BY <2>2, <2>3
<1>11. CASE (\E b \in Node!Handles : Node!Server(b)) /\ at' # "killed"
  <2>1. UNCHANGED <<at, n, active, stopped, frames>>
    BY <1>11 DEF Node!Server, Node!Fork, Node!Serve, Node!Go, Node!EngineGoes
  <2>2. at \in {"raised", "over"} /\ frames' = <<>> => active' = 0
    BY <2>1 DEF NodeInv, Held
  <2> QED
    BY <1>4, <1>5, <1>11, <2>1, <2>2
<1> QED
  BY <1>1, <1>2, <1>3, <1>6, <1>7, <1>8, <1>9, <1>10, <1>11 DEF Node!Next, Node!Polling, Node!Teardown

LEMMA NodeInitial == ASSUME MCInit PROVE NodeInv
<1>1. /\ at = "out" /\ n = 0 /\ active = 0 /\ frames = <<>> /\ stopped = {}
      /\ leader = [b \in Handles |-> "none"] /\ engine = [b \in Handles |-> FALSE]
  BY DEF MCInit, Node!Init, Node!Handles, Handles
<1>2. MaxBringups \in Nat /\ frames \in Seq(Frame) /\ DOMAIN frames = {}
  BY <1>1, NodeAssumption, EmptySeq
<1>3. NodeShaped
  BY <1>1, <1>2 DEF NodeShaped
<1>4. Grouped
  BY <1>1, <1>2 DEF Grouped, Handles
<1>5. Signalled /\ Held
  BY <1>1, <1>2 DEF Signalled, Held, Early
<1> QED
  BY <1>3, <1>4, <1>5 DEF NodeInv

LEMMA NodeInductive ==
    ASSUME NodeInv, [RegistryRuns \/ FleetRuns \/ NodeRuns]_moves PROVE NodeInv'
<1>1. CASE Node!Next
  BY <1>1, ShapedKeeps, GroupedKeeps, SignalledKeeps, HeldKeeps DEF NodeInv
<1>2. CASE UNCHANGED nodeVars
  <2>1. NodeShaped' /\ Grouped'
    BY <1>2 DEF NodeInv, NodeShaped, Grouped, nodeVars
  <2>2. Signalled' /\ Held'
    BY <1>2 DEF NodeInv, Signalled, Gone, Held, Early, nodeVars
  <2> QED
    BY <2>1, <2>2 DEF NodeInv
<1> QED
  BY <1>1, <1>2 DEF moves, RegistryRuns, FleetRuns, NodeRuns

\* Whoever interrupts whom, SIGUSR1 in bringup or in a teardown: what still runs
\* of a server that was torn down was told to go, unless an API server may exit
\* by itself, and a bringup that raised or is over leaves no server behind.
THEOREM TeardownReaches == MCSpec => []TornDown
<1>1. MCInit => NodeInv
  BY NodeInitial
<1>2. NodeInv /\ [RegistryRuns \/ FleetRuns \/ NodeRuns]_moves => NodeInv'
  BY NodeInductive
<1>3. NodeInv => TornDown
  <2> SUFFICES ASSUME NodeInv PROVE TornDown
    OBVIOUS
  <2>1. ~weather.mortal => Node!TreeSignalled
    BY DEF NodeInv, Grouped, Signalled, Gone, Node!TreeSignalled
  <2>2. at \in {"raised", "over"} /\ frames = <<>> => n \in stopped /\ active = 0
    BY DEF NodeInv, Held, Early
  <2> QED
    BY <2>1, <2>2 DEF TornDown, Node!TornDown
<1> QED
  BY <1>1, <1>2, <1>3, PTL DEF MCSpec, moves

-----------------------------------------------------------------------------
(* Whose turn it is.                                                          *)

Before(s, a, b) == \E i, j \in DOMAIN s : i < j /\ s[i] = a /\ s[j] = b

LEMMA RemoveBefore ==
    ASSUME NEW A, NEW s \in Seq(A), Once(s), NEW k \in DOMAIN s, NEW a, NEW b, Before(s, a, b),
           a # s[k], b # s[k]
    PROVE  Before(Fleet!RemoveAt(s, k), a, b)
<1> DEFINE t == Fleet!RemoveAt(s, k)
<1>1. /\ t \in Seq(A) /\ Len(t) = Len(s) - 1 /\ Len(t) \in Nat /\ DOMAIN t = 1 .. Len(t)
      /\ \A j \in 1 .. Len(t) : t[j] = IF j < k THEN s[j] ELSE s[j + 1]
      /\ DOMAIN s = 1 .. Len(s) /\ k \in 1 .. Len(s) /\ Len(s) \in Nat
  BY RemoveOne
<1> HIDE DEF t
<1>2. PICK i \in DOMAIN s : \E j \in DOMAIN s : i < j /\ s[i] = a /\ s[j] = b
  BY DEF Before
<1> PICK j \in DOMAIN s : i < j /\ s[i] = a /\ s[j] = b
  BY <1>2
<1> DEFINE Slot(x) == IF x < k THEN x ELSE x - 1
<1>3. ASSUME NEW x \in DOMAIN s, x # k PROVE Slot(x) \in DOMAIN t /\ t[Slot(x)] = s[x]
  <2>1. CASE x < k
    BY <1>1, <2>1
  <2>2. CASE x > k
    BY <1>1, <2>2
  <2> QED
    BY <1>1, <1>3, <2>1, <2>2
<1>4. i # k /\ j # k /\ Slot(i) < Slot(j)
  BY <1>1
<1>5. Slot(i) \in DOMAIN t /\ Slot(j) \in DOMAIN t /\ t[Slot(i)] = a /\ t[Slot(j)] = b
  BY <1>3, <1>4
<1> HIDE DEF Slot
<1> QED
  BY <1>4, <1>5 DEF Before, t

LEMMA TailBefore ==
    ASSUME NEW A, NEW s \in Seq(A), s # <<>>, NEW a, NEW b, Before(s, a, b), a # s[1], b # s[1]
    PROVE  Before(Tail(s), a, b)
<1>1. /\ Len(s) \in Nat \ {0} /\ DOMAIN s = 1 .. Len(s)
      /\ DOMAIN Tail(s) = 1 .. Len(s) - 1 /\ \A i \in 1 .. Len(s) - 1 : Tail(s)[i] = s[i + 1]
  OBVIOUS
<1>2. PICK i \in DOMAIN s : \E j \in DOMAIN s : i < j /\ s[i] = a /\ s[j] = b
  BY DEF Before
<1> PICK j \in DOMAIN s : i < j /\ s[i] = a /\ s[j] = b
  BY <1>2
<1>3. /\ i - 1 \in DOMAIN Tail(s) /\ Tail(s)[i - 1] = a
      /\ j - 1 \in DOMAIN Tail(s) /\ Tail(s)[j - 1] = b /\ i - 1 < j - 1
  BY <1>1
<1> QED
  BY <1>3 DEF Before

LEMMA AppendBefore ==
    ASSUME NEW A, NEW s \in Seq(A), NEW x \in A
    PROVE  /\ \A a, b : Before(s, a, b) => Before(Append(s, x), a, b)
           /\ \A a \in Members(s) : Before(Append(s, x), a, x)
<1>1. /\ Len(s) \in Nat /\ DOMAIN s = 1 .. Len(s) /\ DOMAIN Append(s, x) = 1 .. Len(s) + 1
      /\ Append(s, x)[Len(s) + 1] = x /\ \A i \in 1 .. Len(s) : Append(s, x)[i] = s[i]
  OBVIOUS
<1>2. ASSUME NEW a, NEW b, Before(s, a, b) PROVE Before(Append(s, x), a, b)
  BY <1>1, <1>2 DEF Before
<1>3. ASSUME NEW a \in Members(s) PROVE Before(Append(s, x), a, x)
  BY <1>1 DEF Before, Members
<1> QED
  BY <1>2, <1>3

\* In a sequence without repetition nothing comes before what it follows.
LEMMA BeforeFirst ==
    ASSUME NEW A, NEW s \in Seq(A), Once(s), NEW t \in DOMAIN s, NEW i \in DOMAIN s, t <= i
    PROVE  ~Before(s, s[i], s[t])
<1>1. DOMAIN s = 1 .. Len(s) /\ Len(s) \in Nat
  BY LenProperties
<1> QED
  BY <1>1 DEF Before, Once

\* Who was served since a request last was, stands behind it.
Ordered ==
    /\ passed \in [Requests -> SUBSET Requests]
    /\ \A r \in Requests : /\ stage[r] # "taken" => passed[r] = {}
                           /\ \A s \in passed[r] : stage[s] = "taken"
    /\ \A r, s \in Live : s \in passed[r] => Before(live, r, s)

TurnInv == QueueShaped /\ Waiting /\ nxt \in [Requests -> Nat] /\ Ordered

\* A step that leaves the requests alone.
LEMMA TurnStands ==
    ASSUME TurnInv, UNCHANGED <<scen, stage, reply, live, passed>>, nxt' \in [Requests -> Nat],
           place' # "scan" => scan' = {},
           \A r \in scan' : r \in scan \/ (r \in Requests /\ stage[r] = "queued"),
           place' \in Owning => place \in Owning /\ head' = head
    PROVE  TurnInv'
<1>1. QueueShaped'
  BY DEF TurnInv, QueueShaped
<1>2. \A r \in scan' : stage[r] # "unsent" /\ reply[r] = "none" /\ (stage[r] = "taken" => r \in scen.refused)
  BY DEF TurnInv, Waiting
<1>3. Waiting'
  BY <1>2 DEF TurnInv, Waiting, Live, Excl, Owning
<1>4. Ordered'
  BY DEF TurnInv, Ordered, Live
<1> QED
  BY <1>1, <1>3, <1>4 DEF TurnInv

LEMMA TurnArrives ==
    ASSUME TurnInv, NEW r \in Requests, Fleet!Ask(r) \/ Fleet!Refuse(r) \/ Fleet!Accept(r) PROVE TurnInv'
<1> USE DEF Fleet!client, Fleet!loop, Fleet!work, Fleet!pool, Fleet!procs
<1>1. /\ stage \in [Requests -> {"unsent", "queued", "taken"}]
      /\ reply \in [Requests -> {"none", "error", "answered"}] /\ scan \subseteq Requests
      /\ live \in Seq(Requests) /\ Once(live)
  BY DEF TurnInv, QueueShaped
<1>2. CASE Fleet!Ask(r)
  <2>1. /\ stage[r] = "unsent" /\ stage' = [stage EXCEPT ![r] = "queued"]
        /\ UNCHANGED <<scen, reply, place, scan, live, head, nxt, passed>>
    BY <1>2 DEF Fleet!Ask
  <2>2. QueueShaped'
    BY <2>1 DEF TurnInv, QueueShaped
  <2>3. Waiting'
    BY <1>1, <2>1 DEF TurnInv, Waiting, Live, Excl, Owning
  <2>4. Ordered'
    BY <1>1, <2>1 DEF TurnInv, Ordered, Live
  <2> QED
    BY <2>1, <2>2, <2>3, <2>4 DEF TurnInv
<1>3. CASE Fleet!Refuse(r)
  <2>1. /\ place = "scan" /\ r \in scan /\ r \in scen.refused
        /\ UNCHANGED <<scen, place, live, head, nxt, passed>>
        /\ \/ stage' = [stage EXCEPT ![r] = "taken"] /\ UNCHANGED <<reply, scan>>
           \/ /\ stage[r] = "taken" /\ stage' = stage
              /\ reply' = [reply EXCEPT ![r] = "error"] /\ scan' = scan \ {r}
    BY <1>3 DEF Fleet!Refuse
  <2>2. QueueShaped'
    BY <2>1 DEF TurnInv, QueueShaped
  <2>3. r \notin Live /\ Live \subseteq Requests /\ Live' = Live
    BY <1>1, <2>1 DEF TurnInv, Waiting, Live, Members
  <2>4. /\ \A q \in Requests : q # r => stage'[q] = stage[q] /\ reply'[q] = reply[q]
        /\ stage'[r] = "taken" /\ scan' \subseteq scan /\ (r \in scan' => reply'[r] = reply[r])
    BY <1>1, <2>1
  <2>5. \A q \in scan' : /\ stage'[q] # "unsent" /\ reply'[q] = "none"
                         /\ stage'[q] = "taken" => q \in scen'.refused
    BY <1>1, <2>1, <2>4 DEF TurnInv, Waiting
  <2>6. Waiting'
    BY <2>1, <2>3, <2>4, <2>5 DEF TurnInv, Waiting, Owning
  <2>7. Ordered'
    BY <2>1, <2>3, <2>4 DEF TurnInv, Ordered
  <2> QED
    BY <2>1, <2>2, <2>6, <2>7 DEF TurnInv
<1>4. CASE Fleet!Accept(r)
  <2>1. /\ place = "scan" /\ r \in scan /\ r \notin scen.refused
        /\ stage' = [stage EXCEPT ![r] = "taken"] /\ live' = Append(live, r)
        /\ scan' \subseteq scan \ {r} /\ UNCHANGED <<scen, reply, place, head, nxt, passed>>
    BY <1>4 DEF Fleet!Accept
  <2>2. r \notin Live /\ reply[r] = "none" /\ stage[r] # "taken"
    BY <2>1 DEF TurnInv, Waiting
  <2>3. live' \in Seq(Requests) /\ Once(live') /\ Live' = Live \cup {r}
    BY <1>1, <2>1, <2>2, AppendOnce DEF Live
  <2>4. QueueShaped'
    BY <2>1, <2>3 DEF TurnInv, QueueShaped
  <2>5. Waiting'
    BY <1>1, <2>1, <2>2, <2>3 DEF TurnInv, Waiting, Excl, Owning
  <2>6. \A p, s \in Live' : s \in passed[p] => Before(live', p, s)
    <3>1. passed[r] = {} /\ \A p \in Requests : r \notin passed[p]
      BY <2>2 DEF TurnInv, Ordered
    <3>2. Live \subseteq Requests
      BY <1>1 DEF Live, Members
    <3> QED
      BY <1>1, <2>1, <2>3, <3>1, <3>2, AppendBefore DEF TurnInv, Ordered
  <2>7. Ordered'
    BY <1>1, <2>1, <2>2, <2>6 DEF TurnInv, Ordered
  <2> QED
    BY <2>1, <2>4, <2>5, <2>7 DEF TurnInv
<1> QED
  BY <1>2, <1>3, <1>4

\* A request leaves the order with its reply.
LEMMA TurnAnswered ==
    ASSUME TurnInv, NEW r \in Live, NEW a \in {"error", "answered"}, reply' = [reply EXCEPT ![r] = a],
           place \in {"settle", "fail"}, live' \in Seq(Requests), Once(live'), Live' = Live \ {r},
           \A p, s \in Live' : Before(live, p, s) => Before(live', p, s),
           UNCHANGED <<scen, stage, place, scan, nxt, passed>>
    PROVE  TurnInv'
<1>1. /\ Live \subseteq Requests /\ scan = {} /\ stage[r] = "taken"
      /\ reply \in [Requests -> {"none", "error", "answered"}]
  BY DEF TurnInv, QueueShaped, Live, Members, Waiting
<1>2. /\ reply' \in [Requests -> {"none", "error", "answered"}]
      /\ \A q \in Requests \ {r} : reply'[q] = reply[q]
  BY <1>1
<1>3. QueueShaped'
  BY <1>2 DEF TurnInv, QueueShaped
<1>4. Waiting'
  BY <1>1, <1>2 DEF TurnInv, Waiting, Owning
<1>5. Ordered'
  BY DEF TurnInv, Ordered
<1> QED
  BY <1>3, <1>4, <1>5 DEF TurnInv

LEMMA TurnFails == ASSUME TurnInv, Fleet!FailLive PROVE TurnInv'
<1>1. /\ place = "fail" /\ live # <<>> /\ reply' = [reply EXCEPT ![live[1]] = "error"] /\ live' = Tail(live)
      /\ UNCHANGED <<scen, stage, place, scan, nxt, passed>>
  BY DEF Fleet!FailLive, Fleet!client, Fleet!work
<1>2. live \in Seq(Requests) /\ Once(live)
  BY DEF TurnInv, QueueShaped
<1>3. live[1] \in Live
  BY <1>1, <1>2, EmptySeq, LenProperties DEF Live, Members
<1>4. live' \in Seq(Requests) /\ Once(live') /\ Live' = Live \ {live[1]}
  BY <1>1, <1>2, TailOnce DEF Live
<1>5. \A p, s \in Live' : Before(live, p, s) => Before(live', p, s)
  BY <1>1, <1>2, <1>4, TailBefore
<1> QED
  BY <1>1, <1>3, <1>4, <1>5, TurnAnswered

LEMMA TurnSettles == ASSUME TurnInv, NEW k \in DOMAIN live, Fleet!Settle(k) PROVE TurnInv'
<1> DEFINE r == live[k]
           a == Fleet!Outcome(r)
<1>1. /\ place = "settle" /\ reply' = [reply EXCEPT ![r] = a] /\ live' = Fleet!RemoveAt(live, k)
      /\ UNCHANGED <<scen, stage, place, scan, nxt, passed>>
  BY DEF Fleet!Settle, Fleet!client, Fleet!work
<1>2. live \in Seq(Requests) /\ Once(live) /\ r \in Live
  BY DEF TurnInv, QueueShaped, Live, Members
<1>3. a \in {"error", "answered"}
  BY DEF Fleet!Outcome
<1>4. live' \in Seq(Requests) /\ Once(live') /\ Live' = Live \ {r}
  BY <1>1, <1>2, RemoveOnce DEF Live
<1>5. \A p, s \in Live' : Before(live, p, s) => Before(live', p, s)
  BY <1>1, <1>2, <1>4, RemoveBefore
<1> HIDE DEF r, a
<1> QED
  BY <1>1, <1>2, <1>3, <1>4, <1>5, TurnAnswered

\* The first request that wants a replica gets it and moves behind the others.
LEMMA DispatchTurn ==
    ASSUME TurnInv, Fleet!Dispatch
    PROVE  \E t \in DOMAIN live : \E r \in Requests :
              /\ t \in Fleet!Turns /\ \A j \in Fleet!Turns : t <= j
              /\ r = live[t] /\ live' = Append(Fleet!RemoveAt(live, t), r)
              /\ nxt' = [nxt EXCEPT ![r] = nxt[r] + 1]
              /\ passed' = [s \in Requests |-> IF s = r THEN {}
                                               ELSE IF s \in Live THEN passed[s] \cup {r}
                                               ELSE passed[s]]
              /\ place = "dispatch"
              /\ UNCHANGED <<scen, stage, reply, place, scan, head>>
<1> DEFINE t == Fleet!FirstOf(Fleet!Turns)
           r == live[t]
<1>1. live \in Seq(Requests) /\ DOMAIN live \subseteq Nat
  BY LenProperties DEF TurnInv, QueueShaped
<1>2. Fleet!Turns # {} /\ Fleet!Turns \subseteq DOMAIN live
  BY DEF Fleet!Dispatch, Fleet!Turns
<1>3. t \in Fleet!Turns /\ \A j \in Fleet!Turns : t <= j
  BY <1>1, <1>2, FirstPosition
<1>4. t \in DOMAIN live /\ r \in Requests
  <2> HIDE DEF t
  <2> QED
    BY <1>1, <1>2, <1>3
<1>5. /\ live' = Append(Fleet!RemoveAt(live, t), r) /\ nxt' = [nxt EXCEPT ![r] = nxt[r] + 1]
      /\ passed' = [s \in Requests |-> IF s = r THEN {}
                                       ELSE IF s \in Live THEN passed[s] \cup {r}
                                       ELSE passed[s]]
      /\ place = "dispatch" /\ UNCHANGED <<scen, stage, reply, place, scan, head>>
  BY DEF Fleet!Dispatch, Fleet!client, Fleet!queue, Fleet!LiveSet, Live, Members
<1> HIDE DEF t
<1> QED
  BY <1>3, <1>4, <1>5

LEMMA TurnServes == ASSUME TurnInv, Fleet!Dispatch PROVE TurnInv'
<1>1. PICK t \in DOMAIN live : \E r \in Requests :
              /\ t \in Fleet!Turns /\ \A j \in Fleet!Turns : t <= j
              /\ r = live[t] /\ live' = Append(Fleet!RemoveAt(live, t), r)
              /\ nxt' = [nxt EXCEPT ![r] = nxt[r] + 1]
              /\ passed' = [s \in Requests |-> IF s = r THEN {}
                                               ELSE IF s \in Live THEN passed[s] \cup {r}
                                               ELSE passed[s]]
              /\ place = "dispatch"
              /\ UNCHANGED <<scen, stage, reply, place, scan, head>>
  BY DispatchTurn
<1> PICK r \in Requests :
              /\ r = live[t] /\ live' = Append(Fleet!RemoveAt(live, t), r)
              /\ nxt' = [nxt EXCEPT ![r] = nxt[r] + 1]
              /\ passed' = [s \in Requests |-> IF s = r THEN {}
                                               ELSE IF s \in Live THEN passed[s] \cup {r}
                                               ELSE passed[s]]
              /\ place = "dispatch"
              /\ UNCHANGED <<scen, stage, reply, place, scan, head>>
  BY <1>1
<1> DEFINE moved == Fleet!RemoveAt(live, t)
<1>2. live \in Seq(Requests) /\ Once(live) /\ r \in Live /\ Live \subseteq Requests
  BY DEF TurnInv, QueueShaped, Live, Members
<1>3. moved \in Seq(Requests) /\ Once(moved) /\ Members(moved) = Live \ {r}
  BY <1>2, RemoveOnce DEF Live
<1>4. \A p, s \in Live \ {r} : Before(live, p, s) => Before(moved, p, s)
  BY <1>2, RemoveBefore
<1> HIDE DEF moved
<1>5. live' \in Seq(Requests) /\ Once(live') /\ Live' = Live
  <2>1. live' = Append(moved, r) /\ r \notin Members(moved)
    BY <1>3 DEF moved
  <2>2. live' \in Seq(Requests) /\ Once(live') /\ Members(live') = Members(moved) \cup {r}
    BY <1>3, <2>1, AppendOnce
  <2> QED
    BY <1>2, <1>3, <2>2 DEF Live
<1>6. ASSUME NEW p \in Live, NEW s \in Live, s \in passed'[p] PROVE Before(live', p, s)
  <2>1. live' = Append(moved, r)
    BY DEF moved
  <2>2. p # r /\ (s = r \/ s \in passed[p])
    BY <1>2, <1>6
  <2>3. CASE s = r
    BY <1>3, <2>1, <2>2, <2>3, AppendBefore
  <2>4. CASE s # r /\ s \in passed[p]
    <3>1. Before(moved, p, s)
      BY <1>4, <2>2, <2>4 DEF TurnInv, Ordered
    <3> QED
      BY <1>3, <2>1, <3>1, AppendBefore
  <2> QED
    BY <2>2, <2>3, <2>4
<1>7. QueueShaped'
  BY <1>5 DEF TurnInv, QueueShaped
<1>8. Waiting'
  BY <1>5 DEF TurnInv, Waiting, Excl, Owning
<1>9. Ordered'
  <2>1. /\ passed' \in [Requests -> SUBSET Requests]
        /\ \A q \in Requests : passed'[q] \subseteq passed[q] \cup {r}
        /\ \A q \in Requests \ Live : passed'[q] = passed[q]
    BY <1>2 DEF TurnInv, Ordered
  <2>2. \A q \in Live : stage[q] = "taken"
    BY DEF TurnInv, Waiting
  <2>3. \A q \in Requests : /\ stage'[q] # "taken" => passed'[q] = {}
                            /\ \A s \in passed'[q] : stage'[s] = "taken"
    BY <1>2, <2>1, <2>2 DEF TurnInv, Ordered
  <2> QED
    BY <1>5, <1>6, <2>1, <2>3 DEF Ordered
<1>10. nxt' \in [Requests -> Nat]
  BY DEF TurnInv
<1> QED
  BY <1>7, <1>8, <1>9, <1>10 DEF TurnInv

\* A batch begins, and ends with its reply.
LEMMA TurnBegins == ASSUME TurnInv, Fleet!Admitted, place' = "batch" PROVE TurnInv'
<1>1. /\ Len(live) = 1 /\ Excl(live[1]) /\ head' = live[1] /\ live' = <<>> /\ scan' = {}
      /\ UNCHANGED <<scen, stage, reply, nxt, passed>>
  BY DEF Fleet!Admitted, Fleet!client, Fleet!queue, Fleet!work, Fleet!Excl, Excl
<1>2. live[1] \in Live /\ live[1] \in Requests
  <2>1. live \in Seq(Requests) /\ DOMAIN live = 1 .. 1
    BY <1>1, LenProperties DEF TurnInv, QueueShaped
  <2> QED
    BY <2>1, ElementOfSeq DEF Live, Members
<1>3. <<>> \in Seq(Requests) /\ Once(<<>>) /\ Members(<<>>) = {}
  BY EmptySeq DEF Once, Members
<1>4. QueueShaped'
  BY <1>1, <1>3 DEF TurnInv, QueueShaped
<1>5. Waiting'
  BY <1>1, <1>2, <1>3 DEF TurnInv, Waiting, Live, Excl, Owning
<1>6. Ordered'
  BY <1>1, <1>3 DEF TurnInv, Ordered, Live
<1> QED
  BY <1>1, <1>4, <1>5, <1>6 DEF TurnInv

LEMMA TurnEnds ==
    ASSUME TurnInv, place \in Owning, place' = "admit", NEW a \in {"error", "answered"},
           reply' = [reply EXCEPT ![head] = a], UNCHANGED <<scen, stage, scan, live, nxt, passed>>
    PROVE  TurnInv'
<1>1. /\ head \in Requests /\ live = <<>> /\ stage[head] = "taken" /\ scan = {}
      /\ reply \in [Requests -> {"none", "error", "answered"}]
  BY DEF TurnInv, QueueShaped, Waiting, Owning
<1>2. /\ reply' \in [Requests -> {"none", "error", "answered"}]
      /\ \A q \in Requests \ {head} : reply'[q] = reply[q]
  BY <1>1
<1>3. Live = {} /\ Live' = {}
  BY <1>1 DEF Live, Members
<1>4. QueueShaped'
  BY <1>1, <1>2 DEF TurnInv, QueueShaped
<1>5. Waiting'
  <2>1. \A q \in Requests : stage[q] # "taken" => reply'[q] = "none"
    BY <1>1, <1>2 DEF TurnInv, Waiting
  <2> QED
    BY <1>1, <1>3, <2>1 DEF Waiting, Owning
<1>6. Ordered'
  BY <1>3 DEF TurnInv, Ordered
<1> QED
  BY <1>4, <1>5, <1>6 DEF TurnInv

LEMMA TurnInductive ==
    ASSUME TurnInv, [RegistryRuns \/ FleetRuns \/ NodeRuns]_moves PROVE TurnInv'
<1> USE DEF Fleet!client, Fleet!queue, Fleet!work, Fleet!pool, Fleet!procs, Fleet!loop
<1>1. CASE UNCHANGED fleetVars
  <2>1. UNCHANGED <<scen, stage, reply, place, scan, live, head, nxt, passed>>
    BY <1>1 DEF fleetVars
  <2>2. place' # "scan" => scan' = {}
    BY <2>1 DEF TurnInv, QueueShaped
  <2>3. nxt' \in [Requests -> Nat]
    BY <2>1 DEF TurnInv
  <2> QED
    BY <2>1, <2>2, <2>3, TurnStands
<1>2. ASSUME UNCHANGED <<scen, stage, reply, live, scan, passed>>, nxt' \in [Requests -> Nat], place # "scan",
             place' # "scan", place' \in Owning => place \in Owning /\ head' = head
      PROVE  TurnInv'
  BY <1>2, TurnStands DEF TurnInv, QueueShaped
<1>3. nxt \in [Requests -> Nat]
  BY DEF TurnInv
<1>4. CASE Fleet!List
  <2>1. place' = "scan" /\ UNCHANGED <<scen, stage, reply, live, nxt, passed>>
    BY <1>4 DEF Fleet!List
  <2>2. \A r \in scan' : r \in scan \/ (r \in Requests /\ stage[r] = "queued")
    BY <1>4 DEF Fleet!List
  <2> QED
    BY <1>3, <2>1, <2>2, TurnStands DEF Owning
<1>5. CASE Fleet!Admitted
  <2>1. CASE place' = "batch"
    BY <1>5, <2>1, TurnBegins
  <2>2. CASE place' # "batch"
    <3>1. scan' = {} /\ place' \in {"admit", "dispatch"} /\ UNCHANGED <<scen, stage, reply, live, nxt, passed>>
      BY <1>5, <2>2 DEF Fleet!Admitted
    <3> QED
      BY <1>3, <3>1, TurnStands DEF Owning
  <2> QED
    BY <2>1, <2>2
<1>6. CASE Fleet!IdleExit
  <2>1. scan' = {} /\ place' = "down" /\ UNCHANGED <<scen, stage, reply, live, nxt, passed>>
    BY <1>6 DEF Fleet!IdleExit
  <2> QED
    BY <1>3, <2>1, TurnStands DEF Owning
<1>7. CASE \/ Fleet!DispatchRaises \/ Fleet!Dispatched \/ Fleet!FailDone \/ Fleet!Harvested \/ Fleet!Settled
           \/ Fleet!BatchLoop \/ Fleet!BatchSent \/ Fleet!BatchTaken
  <2>1. /\ UNCHANGED <<scen, stage, reply, live, scan, passed, nxt>> /\ place # "scan" /\ place' # "scan"
        /\ place' \in Owning => place \in Owning /\ head' = head
    BY <1>7 DEF Fleet!DispatchRaises, Fleet!Dispatched, Fleet!FailDone, Fleet!Harvested, Fleet!Settled,
       Fleet!BatchLoop, Fleet!BatchSent, Fleet!BatchTaken, Owning
  <2> QED
    BY <1>2, <1>3, <2>1
<1>8. CASE \E w \in Replicas : Fleet!Collect(w) \/ Fleet!CollectStray(w) \/ Fleet!BatchCollect(w) \/ Fleet!Bury(w)
  <2>1. /\ UNCHANGED <<scen, stage, reply, live, scan, passed, nxt>> /\ place # "scan" /\ place' # "scan"
        /\ place' \in Owning => place \in Owning /\ head' = head
    BY <1>8 DEF Fleet!Collect, Fleet!CollectStray, Fleet!BatchCollect, Fleet!Bury, Owning
  <2> QED
    BY <1>2, <1>3, <2>1
<1>9. CASE \E w \in Replicas : Fleet!Finish(w) \/ Fleet!Die(w)
  <2>1. UNCHANGED <<scen, stage, reply, place, scan, live, head, nxt, passed>>
    BY <1>9 DEF Fleet!Finish, Fleet!Die
  <2>2. place' # "scan" => scan' = {}
    BY <2>1 DEF TurnInv, QueueShaped
  <2> QED
    BY <1>3, <2>1, <2>2, TurnStands
<1>10. CASE Fleet!BatchSend
  <2>1. /\ UNCHANGED <<scen, stage, reply, live, scan, passed, head>> /\ place = "send" /\ place' = "send"
        /\ nxt' = [nxt EXCEPT ![head] = nxt[head] + 1]
    BY <1>10 DEF Fleet!BatchSend
  <2>2. nxt' \in [Requests -> Nat]
    <3>1. head \in Requests
      BY <2>1 DEF TurnInv, Waiting, Owning
    <3> QED
      BY <1>3, <2>1, <3>1
  <2> QED
    BY <1>2, <2>1, <2>2 DEF Owning
<1>11. CASE Fleet!Dispatch
  BY <1>11, TurnServes
<1>12. CASE \E r \in Requests : Fleet!Ask(r) \/ Fleet!Refuse(r) \/ Fleet!Accept(r)
  BY <1>12, TurnArrives
<1>13. CASE Fleet!FailLive \/ \E k \in DOMAIN live : Fleet!Settle(k)
  BY <1>13, TurnFails, TurnSettles
<1>14. CASE Fleet!BatchRefuses \/ Fleet!BatchSendRaises
            \/ \E w \in Replicas : Fleet!BatchCollectRaises(w) \/ Fleet!BatchBury(w)
  <2>1. /\ place \in Owning /\ place' = "admit" /\ reply' = [reply EXCEPT ![head] = "error"]
        /\ UNCHANGED <<scen, stage, scan, live, nxt, passed>>
    BY <1>14 DEF Fleet!BatchRefuses, Fleet!BatchSendRaises, Fleet!BatchCollectRaises, Fleet!BatchBury,
       Fleet!BatchFails, Owning
  <2> QED
    BY <2>1, TurnEnds
<1>15. CASE Fleet!BatchDone
  <2>1. place = "batch" /\ UNCHANGED <<scen, stage, scan, live, nxt, passed>>
    BY <1>15 DEF Fleet!BatchDone
  <2>2. \/ place' = "down" /\ reply' = reply
        \/ place' = "admit" /\ reply' = [reply EXCEPT ![head] = "answered"]
    BY <1>15 DEF Fleet!BatchDone
  <2>3. CASE place' = "down" /\ reply' = reply
    BY <1>2, <1>3, <2>1, <2>3 DEF Owning
  <2>4. CASE place' = "admit" /\ reply' = [reply EXCEPT ![head] = "answered"]
    BY <2>1, <2>4, TurnEnds DEF Owning
  <2> QED
    BY <2>2, <2>3, <2>4
<1> QED
  BY <1>1, <1>4, <1>5, <1>6, <1>7, <1>8, <1>9, <1>10, <1>11, <1>12, <1>13, <1>14, <1>15
  DEF moves, RegistryRuns, FleetRuns, NodeRuns, Fleet!Next, Fleet!Serve, Fleet!Replicas, Replicas

LEMMA TurnInitial == ASSUME MCInit PROVE TurnInv
<1>1. /\ scen \in Scenarios /\ place = "admit" /\ scan = {} /\ live = <<>>
      /\ stage = [r \in Requests |-> "unsent"] /\ reply = [r \in Requests |-> "none"]
      /\ nxt = [r \in Requests |-> 0] /\ passed = [r \in Requests |-> {}]
  BY DEF MCInit, Fleet!Init
<1>2. live \in Seq(Requests) /\ Once(live) /\ Live = {}
  BY <1>1, EmptySeq DEF Once, Live, Members
<1>3. QueueShaped
  BY <1>1, <1>2 DEF QueueShaped
<1>4. Waiting
  BY <1>1, <1>2 DEF Waiting, Owning
<1>5. Ordered /\ nxt \in [Requests -> Nat]
  BY <1>1, <1>2 DEF Ordered
<1> QED
  BY <1>3, <1>4, <1>5 DEF TurnInv

\* A request that wants a replica is not passed over twice by the same other.
LEMMA TurnTaken ==
    ASSUME TurnInv, [RegistryRuns \/ FleetRuns \/ NodeRuns]_moves,
           NEW r \in Requests, NEW s \in Requests, r \in Fleet!LiveSet, Fleet!Wants(r), s # r, nxt'[s] = nxt[s] + 1
    PROVE  s \notin passed[r]
<1>1. nxt \in [Requests -> Nat] /\ r \in Live /\ live \in Seq(Requests) /\ Once(live)
  BY DEF TurnInv, QueueShaped, Fleet!LiveSet, Live, Members
<1>2. nxt' # nxt
  BY <1>1
<1>3. Fleet!Dispatch \/ Fleet!BatchSend
  BY <1>2 DEF moves, RegistryRuns, FleetRuns, NodeRuns, fleetVars, Fleet!Next, Fleet!Serve, Fleet!client,
     Fleet!queue, Fleet!work, Fleet!pool, Fleet!procs, Fleet!loop, Fleet!Ask, Fleet!List, Fleet!Refuse,
     Fleet!Accept, Fleet!Admitted, Fleet!IdleExit, Fleet!DispatchRaises, Fleet!Dispatched, Fleet!Collect,
     Fleet!CollectStray, Fleet!Bury, Fleet!FailLive, Fleet!FailDone, Fleet!Harvested, Fleet!Settle,
     Fleet!Settled, Fleet!BatchLoop, Fleet!BatchRefuses, Fleet!BatchSendRaises, Fleet!BatchSent,
     Fleet!BatchCollect, Fleet!BatchCollectRaises, Fleet!BatchBury, Fleet!BatchTaken, Fleet!BatchDone,
     Fleet!Finish, Fleet!Die
<1>4. ~Fleet!BatchSend
  BY <1>1 DEF Fleet!BatchSend, TurnInv, Waiting, Owning, Live, Members
<1>5. PICK t \in DOMAIN live :
              /\ t \in Fleet!Turns /\ \A j \in Fleet!Turns : t <= j
              /\ nxt' = [nxt EXCEPT ![live[t]] = nxt[live[t]] + 1]
  BY <1>3, <1>4, DispatchTurn
<1>6. s = live[t]
  BY <1>1, <1>5
<1>7. PICK i \in DOMAIN live : live[i] = r
  BY <1>1 DEF Live, Members
<1>8. t <= i
  BY <1>5, <1>7 DEF Fleet!Turns
<1>9. ~Before(live, r, s)
  BY <1>1, <1>6, <1>7, <1>8, BeforeFirst
<1>10. s \in Live
  BY <1>6 DEF Live, Members
<1> QED
  BY <1>1, <1>9, <1>10 DEF TurnInv, Ordered

\* Fair queueing at job granularity: while a request waits for a replica no
\* other request is handed a second job, however long its batch is and whatever
\* is refused, fails or owns the fleet meanwhile.
THEOREM TurnsAreFair == MCSpec => Fleet!FairTurn
<1>1. MCInit => TurnInv
  BY TurnInitial
<1>2. TurnInv /\ [RegistryRuns \/ FleetRuns \/ NodeRuns]_moves => TurnInv'
  BY TurnInductive
<1>3. TurnInv /\ [RegistryRuns \/ FleetRuns \/ NodeRuns]_moves =>
          [\A r, s \in Requests :
              (r \in Fleet!LiveSet /\ Fleet!Wants(r) /\ s # r /\ nxt'[s] = nxt[s] + 1)
                  => s \notin passed[r]]_Fleet!vars
  BY TurnTaken
<1> QED
  BY <1>1, <1>2, <1>3, PTL DEF MCSpec, moves, Fleet!FairTurn
=============================================================================
