------------------------- MODULE BackgroundJobsProofs -------------------------
(***************************************************************************)
(* Proofs about the work behind an answered request, for any number of      *)
(* uploads, reviews, worker threads and restarts, any films and any         *)
(* threshold and window of the deduplication.                               *)
(***************************************************************************)
EXTENDS BackgroundJobs, TLAPS

TaskState   == {"none", "queued", "running", "success", "error"}
ThreadState == {"none", "waiting"} \cup Extracting \cup Over
ReportType  ==
    [status : {"missing", "queued", "torn", "success", "dependency_missing"},
     frames : Seq(AllFrames)]

TypeInv ==
    /\ posted \subseteq Jobs
    /\ task \in [Jobs -> TaskState]
    /\ options \in [Videos -> BOOLEAN]
    /\ report \in [Jobs -> ReportType]
    /\ frames \in [Videos -> Seq(AllFrames)]
    /\ thread \in [Videos -> ThreadState]
    /\ pending \in [Videos -> Seq(AllFrames)]
    /\ film \in [Videos -> Seq(AllFrames)]

\* How far an extraction is: a video is posted once, has a thread exactly while
\* its task runs, and its report is rewritten at the end of the thread only.
StageOf(v) ==
    /\ v \notin posted => task[v] = "none" /\ report[v].status = "missing"
    /\ task[v] = "queued" => report[v].status = "queued"
    /\ task[v] = "running" <=> thread[v] # "none"
    /\ task[v] = "success" => report[v].status \in {"success", "dependency_missing"}
    /\ thread[v] \in {"waiting", "checking", "probing", "extracting", "copying", "tools_missing"} =>
          report[v].status = "queued"
    /\ thread[v] \in {"writing", "raised"} => report[v].status \in {"queued", "torn"}
    /\ thread[v] = "returned" => report[v].status = "success"

StageInv ==
    /\ \A v \in Videos : StageOf(v)
    /\ \A j \in Reviews : /\ j \notin posted => task[j] = "none"
                          /\ task[j] = "success" => report[j].status = "success"

\* What the deduplication has kept so far: frames in the order of those it has
\* looked at, no two that resemble each other within the window, and a frame for
\* every one it has dropped.
IsRestOf(all, rest) ==
    /\ Len(rest) <= Len(all)
    /\ \A j \in DOMAIN rest : rest[j] = all[Len(all) - Len(rest) + j]
Places(at, all, kept, seen) ==
    /\ at \in [DOMAIN kept -> 1 .. seen]
    /\ \A i \in DOMAIN kept : kept[i] = all[at[i]]
    /\ \A i, k \in DOMAIN kept : k < i => at[k] < at[i]
IsOrdered(all, rest, kept) ==
    /\ IsRestOf(all, rest)
    /\ \E at : Places(at, all, kept, Len(all) - Len(rest))
IsThinned(kept) ==
    \A i, k \in DOMAIN kept : k < i =>
        /\ kept[i] # kept[k]
        /\ i - k <= DEDUP_WINDOW => ~Resembles(kept[i], kept[k])
StandFor(kept, f) == \E g \in ToSet(kept) : Resembles(f, g)

ThinningOf(v) ==
    /\ thread[v] \in {"probing", "extracting"} => frames[v] = <<>>
    /\ thread[v] = "writing" => pending[v] = <<>>
    /\ thread[v] \in {"copying", "writing"} =>
          /\ IsThinned(frames[v])
          /\ IsOrdered(film[v], pending[v], frames[v])
          /\ \A f \in ToSet(film[v]) : f \in ToSet(pending[v]) \/ StandFor(frames[v], f)
    /\ report[v].status = "success" =>
          /\ report[v].frames = frames[v]
          /\ IsThinned(frames[v])
          /\ InOrderOf(film[v], frames[v])
          /\ \A f \in ToSet(film[v]) : StandFor(frames[v], f)
    /\ report[v].status # "success" => report[v].frames = <<>>

ThinningInv == \A v \in Videos : ThinningOf(v)

JobsInv == TypeInv /\ StageInv /\ ThinningInv

-----------------------------------------------------------------------------
(* The deduplication.                                                       *)

\* Frames whose last neighbours a frame is compared with are frames kept.
LEMMA RecentlyKeptIs ==
    ASSUME NEW S, NEW kept \in Seq(S)
    PROVE  /\ ToSet(RecentlyKept(kept)) \subseteq ToSet(kept)
           /\ \A k \in DOMAIN kept :
                Len(kept) - k < DEDUP_WINDOW => kept[k] \in ToSet(RecentlyKept(kept))
<1> DEFINE n == Len(kept)
           first == IF n > DEDUP_WINDOW THEN n - DEDUP_WINDOW + 1 ELSE 1
           recent == RecentlyKept(kept)
<1>1. n \in Nat /\ DEDUP_WINDOW \in Nat \ {0} /\ DOMAIN kept = 1 .. n
  BY JobsAssumption
<1>2. first \in Nat /\ 1 <= first /\ first <= n + 1
  BY <1>1
<1>3. recent = SubSeq(kept, first, n)
  BY DEF RecentlyKept
<1> HIDE DEF n, first, recent
<1>4. /\ DOMAIN recent = 1 .. (n - first + 1)
      /\ \A i \in 1 .. (n - first + 1) : recent[i] = kept[first + i - 1]
  BY <1>1, <1>2, <1>3
<1>5. \A i \in 1 .. (n - first + 1) : first + i - 1 \in DOMAIN kept
  BY <1>1, <1>2
<1>6. ToSet(recent) \subseteq ToSet(kept)
  BY <1>4, <1>5 DEF ToSet
<1>7. ASSUME NEW k \in DOMAIN kept, n - k < DEDUP_WINDOW
      PROVE  kept[k] \in ToSet(recent)
  <2>1. first <= k
    BY <1>1, <1>7 DEF first
  <2> DEFINE i == k - first + 1
  <2>2. i \in 1 .. (n - first + 1) /\ first + i - 1 = k
    BY <1>1, <1>2, <2>1
  <2> HIDE DEF i
  <2> QED  BY <1>4, <2>2 DEF ToSet
<1> QED  BY <1>6, <1>7 DEF n, recent

\* A frame dropped is stood for by a frame kept.
LEMMA DroppedIsStoodFor ==
    ASSUME NEW S, NEW kept \in Seq(S), NEW f,
           f \in ToSet(kept) \/ IsDhashDuplicate(f, kept)
    PROVE  StandFor(kept, f)
BY RecentlyKeptIs DEF StandFor, Resembles, IsDhashDuplicate

\* A frame that resembles none of the last ones is kept, and the kept frames
\* stay as thinned as they were.
LEMMA AppendIsThinned ==
    ASSUME NEW S, NEW kept \in Seq(S), NEW f \in S, IsThinned(kept),
           f \notin ToSet(kept), ~IsDhashDuplicate(f, kept)
    PROVE  IsThinned(Append(kept, f)) /\ StandFor(Append(kept, f), f)
<1> DEFINE n == Len(kept)
           more == Append(kept, f)
<1>1. /\ n \in Nat /\ DOMAIN kept = 1 .. n /\ DOMAIN more = 1 .. n + 1
      /\ more[n + 1] = f /\ \A k \in 1 .. n : more[k] = kept[k]
  OBVIOUS
<1> HIDE DEF n, more
<1>2. \A k \in 1 .. n : kept[k] # f
  BY <1>1 DEF ToSet
<1>3. ASSUME NEW k \in 1 .. n, n + 1 - k <= DEDUP_WINDOW
      PROVE  ~Resembles(f, kept[k])
  <2>1. n - k < DEDUP_WINDOW
    BY <1>1, <1>3, JobsAssumption
  <2>2. kept[k] \in ToSet(RecentlyKept(kept))
    BY <1>1, <2>1, RecentlyKeptIs DEF n
  <2> QED  BY <1>2, <2>2 DEF IsDhashDuplicate, Resembles
<1>4. IsThinned(more)
  <2>1. ASSUME NEW i \in DOMAIN more, NEW k \in DOMAIN more, k < i
        PROVE  /\ more[i] # more[k]
               /\ i - k <= DEDUP_WINDOW => ~Resembles(more[i], more[k])
    <3>1. k \in 1 .. n
      BY <1>1, <2>1
    <3>2. CASE i = n + 1
      BY <1>1, <1>2, <1>3, <3>1, <3>2
    <3>3. CASE i # n + 1
      <4>1. i \in 1 .. n
        BY <1>1, <3>3
      <4> QED  BY <1>1, <2>1, <3>1, <4>1 DEF IsThinned
    <3> QED  BY <3>2, <3>3
  <2> QED  BY <2>1 DEF IsThinned
<1>5. StandFor(more, f)
  <2>1. f \in ToSet(more)
    BY <1>1 DEF ToSet
  <2> QED  BY <2>1 DEF StandFor, Resembles
<1> QED  BY <1>4, <1>5 DEF more

\* What is stood for stays so when more frames are kept.
LEMMA AppendStandsFor ==
    ASSUME NEW S, NEW kept \in Seq(S), NEW f \in S, NEW g, StandFor(kept, g)
    PROVE  StandFor(Append(kept, f), g)
<1>1. ToSet(kept) \subseteq ToSet(Append(kept, f))
  BY DEF ToSet
<1> QED  BY <1>1 DEF StandFor

\* The first of a list of frames, and the others.
LEMMA HeadAndTail ==
    ASSUME NEW S, NEW s \in Seq(S), s # <<>>
    PROVE  /\ Head(s) \in S /\ Tail(s) \in Seq(S)
           /\ ToSet(s) = {Head(s)} \cup ToSet(Tail(s))
<1> DEFINE t == Tail(s)
           n == Len(s)
<1>1. n \in Nat \ {0} /\ DOMAIN s = 1 .. n
  OBVIOUS
<1>2. t \in Seq(S) /\ DOMAIN t = 1 .. n - 1 /\ \A i \in 1 .. n - 1 : t[i] = s[i + 1]
  BY <1>1
<1>3. Head(s) = s[1] /\ Head(s) \in S
  BY <1>1
<1> HIDE DEF t, n
<1>4. \A i \in 1 .. n : i = 1 \/ (i - 1 \in 1 .. n - 1 /\ s[i] = t[i - 1])
  BY <1>1, <1>2
<1>5. \A i \in 1 .. n - 1 : i + 1 \in 1 .. n
  BY <1>1
<1>6. ToSet(s) \subseteq {Head(s)} \cup ToSet(t)
  <2>1. ASSUME NEW i \in 1 .. n
        PROVE  s[i] \in {Head(s)} \cup ToSet(t)
    <3>1. CASE i = 1
      BY <1>3, <3>1
    <3>2. CASE i # 1
      <4>1. i - 1 \in DOMAIN t /\ s[i] = t[i - 1]
        BY <1>2, <1>4, <3>2
      <4> QED  BY <4>1 DEF ToSet
    <3> QED  BY <3>1, <3>2
  <2> QED  BY <1>1, <2>1 DEF ToSet
<1>7. {Head(s)} \cup ToSet(t) \subseteq ToSet(s)
  BY <1>1, <1>2, <1>3, <1>5 DEF ToSet
<1> QED  BY <1>2, <1>3, <1>6, <1>7 DEF t

\* Before the first frame is looked at nothing is kept, and after the last one
\* the frames kept are in the film's order.
LEMMA OrderBegins ==
    ASSUME NEW S, NEW all \in Seq(S)
    PROVE  IsOrdered(all, all, <<>>)
<1>1. IsRestOf(all, all)
  BY DEF IsRestOf
<1> DEFINE at == [i \in {} |-> 0]
<1>2. Places(at, all, <<>>, Len(all) - Len(all))
  BY DEF Places
<1> QED  BY <1>1, <1>2 DEF IsOrdered

LEMMA OrderEnds ==
    ASSUME NEW S, NEW all \in Seq(S), NEW kept \in Seq(S), IsOrdered(all, <<>>, kept)
    PROVE  InOrderOf(all, kept)
<1>1. Len(all) - Len(<<>>) = Len(all) /\ DOMAIN all = 1 .. Len(all)
  OBVIOUS
<1> QED  BY <1>1 DEF IsOrdered, Places, InOrderOf

\* The next frame, dropped or kept, leaves those kept in order.
LEMMA OrderGoesOn ==
    ASSUME NEW S, NEW all \in Seq(S), NEW rest \in Seq(S), NEW kept \in Seq(S),
           rest # <<>>, IsOrdered(all, rest, kept)
    PROVE  /\ IsOrdered(all, Tail(rest), kept)
           /\ IsOrdered(all, Tail(rest), Append(kept, Head(rest)))
<1> DEFINE n    == Len(all)
           m    == Len(rest)
           c    == Len(kept)
           tail == Tail(rest)
           more == Append(kept, Head(rest))
<1>1. /\ n \in Nat /\ m \in Nat \ {0} /\ c \in Nat /\ Len(tail) = m - 1
      /\ DOMAIN rest = 1 .. m /\ DOMAIN tail = 1 .. m - 1 /\ DOMAIN kept = 1 .. c
      /\ \A j \in 1 .. m - 1 : tail[j] = rest[j + 1]
      /\ Head(rest) = rest[1]
      /\ DOMAIN more = 1 .. c + 1 /\ more[c + 1] = Head(rest)
      /\ \A i \in 1 .. c : more[i] = kept[i]
  OBVIOUS
<1>2. m <= n /\ \A j \in 1 .. m : rest[j] = all[n - m + j]
  BY <1>1 DEF IsOrdered, IsRestOf
<1>3. PICK at : Places(at, all, kept, n - m)
  BY DEF IsOrdered
<1> HIDE DEF n, m, c, tail, more
<1>4. IsRestOf(all, tail)
  <2>1. m - 1 <= n
    BY <1>1, <1>2
  <2>2. ASSUME NEW j \in 1 .. m - 1 PROVE tail[j] = all[n - (m - 1) + j]
    <3>1. j + 1 \in 1 .. m /\ n - m + (j + 1) = n - (m - 1) + j
      BY <1>1
    <3> QED  BY <1>1, <1>2, <3>1
  <2> QED  BY <1>1, <2>1, <2>2 DEF IsRestOf, n
<1>5. /\ at \in [1 .. c -> 1 .. n - m]
      /\ \A i \in 1 .. c : kept[i] = all[at[i]]
      /\ \A i, k \in 1 .. c : k < i => at[k] < at[i]
  BY <1>1, <1>3 DEF Places
<1>6. /\ 1 .. n - m \subseteq 1 .. n - (m - 1)
      /\ n - m + 1 \in 1 .. n - (m - 1)
      /\ \A p \in 1 .. n - m : p < n - m + 1
  BY <1>1, <1>2
<1>7. Places(at, all, kept, n - (m - 1))
  BY <1>1, <1>5, <1>6 DEF Places
<1> DEFINE on == [i \in 1 .. c + 1 |-> IF i = c + 1 THEN n - m + 1 ELSE at[i]]
<1>8. Places(on, all, more, n - (m - 1))
  <2>1. \A i \in 1 .. c + 1 : i = c + 1 \/ (i \in 1 .. c /\ i # c + 1)
    BY <1>1
  <2>2. on \in [1 .. c + 1 -> 1 .. n - (m - 1)]
    BY <1>5, <1>6, <2>1
  <2>3. rest[1] = all[n - m + 1]
    BY <1>1, <1>2
  <2>4. ASSUME NEW i \in 1 .. c + 1 PROVE more[i] = all[on[i]]
    BY <1>1, <1>5, <2>1, <2>3
  <2>5. ASSUME NEW i \in 1 .. c + 1, NEW k \in 1 .. c + 1, k < i PROVE on[k] < on[i]
    <3>1. k \in 1 .. c /\ k # c + 1
      BY <1>1, <2>5
    <3>2. at[k] \in 1 .. n - m /\ on[k] = at[k]
      BY <1>5, <3>1
    <3>3. CASE i = c + 1
      BY <1>6, <3>2, <3>3
    <3>4. CASE i # c + 1
      BY <1>5, <2>1, <2>5, <3>1, <3>2, <3>4
    <3> QED  BY <3>3, <3>4
  <2> QED  BY <1>1, <2>2, <2>4, <2>5 DEF Places
<1> QED  BY <1>1, <1>4, <1>7, <1>8 DEF IsOrdered, n, tail, more

-----------------------------------------------------------------------------
(* The invariant.                                                           *)

LEMMA EmptyIsThinned == IsThinned(<<>>) /\ ToSet(<<>>) = {}
BY DEF IsThinned, ToSet

LEMMA InitInv == Init => JobsInv
<1> SUFFICES ASSUME Init PROVE JobsInv
  OBVIOUS
<1>1. TypeInv
  BY DEF Init, TypeInv, TaskState, ThreadState, ReportType, NoReport, Jobs
<1>2. StageInv
  BY DEF Init, StageInv, StageOf, Jobs, NoReport, Extracting, Over
<1>3. ThinningInv
  BY DEF Init, ThinningInv, ThinningOf, Jobs, NoReport
<1> QED  BY <1>1, <1>2, <1>3 DEF JobsInv

\* A step about one upload leaves the others as they were.
LEMMA OneVideo ==
    ASSUME JobsInv, TypeInv', NEW v \in Videos, StageOf(v)', ThinningOf(v)',
           \A j \in Jobs \ {v} : /\ task'[j] = task[j]
                                 /\ report'[j] = report[j]
                                 /\ j \in posted' <=> j \in posted,
           \A u \in Videos \ {v} : /\ frames'[u] = frames[u]
                                   /\ thread'[u] = thread[u]
                                   /\ pending'[u] = pending[u]
                                   /\ film'[u] = film[u]
    PROVE  JobsInv'
<1>1. \A j \in Reviews : j \in Jobs \ {v}
  BY JobsAssumption DEF Jobs
<1>2. \A u \in Videos \ {v} : u \in Jobs \ {v}
  BY DEF Jobs
<1>3. ASSUME NEW u \in Videos PROVE StageOf(u)' /\ ThinningOf(u)'
  <2>1. CASE u = v
    BY <2>1
  <2>2. CASE u # v
    <3>1. StageOf(u) /\ ThinningOf(u)
      BY DEF JobsInv, StageInv, ThinningInv
    <3>2. StageOf(u)'
      BY <1>2, <2>2, <3>1 DEF StageOf
    <3>3. ThinningOf(u)'
      BY <1>2, <2>2, <3>1 DEF ThinningOf
    <3> QED  BY <3>2, <3>3
  <2> QED  BY <2>1, <2>2
<1>4. StageInv'
  BY <1>1, <1>3 DEF JobsInv, StageInv
<1> QED  BY <1>3, <1>4 DEF JobsInv, ThinningInv

\* The reports a step writes.
LEMMA ReportIs ==
    /\ \A status \in {"queued", "torn", "success", "dependency_missing"} :
         /\ Report(status) \in ReportType
         /\ Report(status).status = status
         /\ Report(status).frames = <<>>
    /\ NoReport \in ReportType
BY DEF Report, NoReport, ReportType

LEMMA SubmitVideoStep ==
    ASSUME JobsInv, NEW v \in Videos, SubmitVideo(v)
    PROVE  JobsInv'
<1> USE DEF SubmitVideo, SaveVideoUpload, SubmitTask
<1>1. v \in Jobs /\ StageOf(v) /\ ThinningOf(v) /\ TypeInv
  BY DEF JobsInv, StageInv, ThinningInv, Jobs
<1>2. TypeInv'
  BY <1>1, ReportIs DEF TypeInv, TaskState
<1>3. StageOf(v)'
  BY <1>1, ReportIs DEF TypeInv, StageOf
<1>4. ThinningOf(v)'
  BY <1>1, ReportIs DEF TypeInv, StageOf, ThinningOf, Extracting, Over
<1> QED  BY <1>1, <1>2, <1>3, <1>4, OneVideo DEF TypeInv

LEMMA RunVideoStep ==
    ASSUME JobsInv, NEW v \in Videos, RunVideo(v)
    PROVE  JobsInv'
<1> USE DEF RunVideo
<1>1. v \in Jobs /\ StageOf(v) /\ ThinningOf(v) /\ TypeInv
  BY DEF JobsInv, StageInv, ThinningInv, Jobs
<1>2. TypeInv'
  BY <1>1 DEF TypeInv, TaskState, ThreadState
<1>3. StageOf(v)'
  BY <1>1 DEF TypeInv, StageOf
<1>4. ThinningOf(v)'
  BY <1>1 DEF TypeInv, ThinningOf
<1> QED  BY <1>1, <1>2, <1>3, <1>4, OneVideo DEF TypeInv

LEMMA CollectVideoStep ==
    ASSUME JobsInv, NEW v \in Videos, CollectVideo(v)
    PROVE  JobsInv'
<1> USE DEF CollectVideo, Settle
<1>1. v \in Jobs /\ StageOf(v) /\ ThinningOf(v) /\ TypeInv
  BY DEF JobsInv, StageInv, ThinningInv, Jobs
<1>2. TypeInv'
  BY <1>1, ReportIs DEF TypeInv, TaskState, ThreadState
<1>3. StageOf(v)'
  BY <1>1, ReportIs DEF TypeInv, StageOf
<1>4. ThinningOf(v)'
  BY <1>1, ReportIs DEF TypeInv, ThinningOf
<1> QED  BY <1>1, <1>2, <1>3, <1>4, OneVideo DEF TypeInv

\* The steps of a thread that move it and write nothing.
LEMMA QuietThreadStep ==
    ASSUME JobsInv, NEW v \in Videos, Raise(v) \/ TakeWorker(v) \/ Probe(v)
    PROVE  JobsInv'
<1> USE DEF Raise, TakeWorker, Probe, GoTo
<1>1. v \in Jobs /\ StageOf(v) /\ ThinningOf(v) /\ TypeInv
  BY DEF JobsInv, StageInv, ThinningInv, Jobs
<1>2. TypeInv'
  BY <1>1 DEF TypeInv, ThreadState, Extracting, Over
<1>3. StageOf(v)'
  BY <1>1 DEF TypeInv, StageOf, Extracting
<1>4. ThinningOf(v)'
  BY <1>1 DEF TypeInv, ThinningOf
<1> QED  BY <1>1, <1>2, <1>3, <1>4, OneVideo DEF TypeInv

LEMMA CheckStep ==
    ASSUME JobsInv, NEW v \in Videos, Check(v)
    PROVE  JobsInv'
<1> USE DEF Check, GoTo, CleanFrames
<1>1. v \in Jobs /\ StageOf(v) /\ ThinningOf(v) /\ TypeInv
  BY DEF JobsInv, StageInv, ThinningInv, Jobs
<1>2. TypeInv'
  <2>1. frames' \in [Videos -> Seq(AllFrames)]
    <3>1. <<>> \in Seq(AllFrames)
      OBVIOUS
    <3> QED  BY <1>1, <3>1 DEF TypeInv
  <2>2. thread' \in [Videos -> ThreadState]
    BY <1>1 DEF TypeInv, ThreadState, Extracting, Over
  <2> QED  BY <1>1, <2>1, <2>2 DEF TypeInv
<1>3. StageOf(v)'
  BY <1>1 DEF TypeInv, StageOf
<1>4. ThinningOf(v)'
  BY <1>1 DEF TypeInv, StageOf, ThinningOf
<1> QED  BY <1>1, <1>2, <1>3, <1>4, OneVideo DEF TypeInv

LEMMA ExtractStep ==
    ASSUME JobsInv, NEW v \in Videos, Extract(v)
    PROVE  JobsInv'
<1> USE DEF Extract, GoTo
<1>1. v \in Jobs /\ StageOf(v) /\ ThinningOf(v) /\ TypeInv
  BY DEF JobsInv, StageInv, ThinningInv, Jobs
<1>2. PICK f \in Films : /\ pending' = [pending EXCEPT ![v] = f]
                         /\ film' = [film EXCEPT ![v] = f]
  OBVIOUS
<1>3. f \in Seq(AllFrames)
  BY JobsAssumption
<1>4. TypeInv'
  BY <1>1, <1>2, <1>3 DEF TypeInv, ThreadState, Extracting
<1>5. StageOf(v)'
  BY <1>1 DEF TypeInv, StageOf
<1>6. ThinningOf(v)'
  <2>1. IsOrdered(f, f, <<>>)
    BY <1>3, OrderBegins
  <2> QED
    BY <1>1, <1>2, <2>1, EmptyIsThinned DEF TypeInv, StageOf, ThinningOf
<1> QED  BY <1>1, <1>2, <1>4, <1>5, <1>6, OneVideo DEF TypeInv

LEMMA DeduplicateStep ==
    ASSUME JobsInv, NEW v \in Videos, DeduplicateAndCopy(v)
    PROVE  JobsInv'
<1> USE DEF DeduplicateAndCopy
<1> DEFINE f    == Head(pending[v])
           kept == frames[v]
<1>1. v \in Jobs /\ StageOf(v) /\ ThinningOf(v) /\ TypeInv
  BY DEF JobsInv, StageInv, ThinningInv, Jobs
<1>2. /\ f \in AllFrames /\ Tail(pending[v]) \in Seq(AllFrames)
      /\ ToSet(pending[v]) = {f} \cup ToSet(Tail(pending[v]))
  BY <1>1, HeadAndTail DEF TypeInv
<1>3. kept \in Seq(AllFrames) /\ pending'[v] = Tail(pending[v])
  BY <1>1 DEF TypeInv
<1>4. frames'[v] = IF f \in ToSet(kept) \/ IsDhashDuplicate(f, kept)
                   THEN kept ELSE Append(kept, f)
  BY <1>1 DEF TypeInv
<1>5. IsThinned(kept)
  BY <1>1 DEF ThinningOf
<1> HIDE DEF f, kept
<1>6. /\ IsThinned(frames'[v]) /\ StandFor(frames'[v], f)
      /\ \A g : StandFor(kept, g) => StandFor(frames'[v], g)
  <2>1. CASE f \in ToSet(kept) \/ IsDhashDuplicate(f, kept)
    BY <1>3, <1>4, <1>5, <2>1, DroppedIsStoodFor
  <2>2. CASE ~(f \in ToSet(kept) \/ IsDhashDuplicate(f, kept))
    <3>1. IsThinned(Append(kept, f)) /\ StandFor(Append(kept, f), f)
      BY <1>2, <1>3, <1>5, <2>2, AppendIsThinned
    <3>2. \A g : StandFor(kept, g) => StandFor(Append(kept, f), g)
      BY <1>2, <1>3, AppendStandsFor
    <3> QED  BY <1>4, <2>2, <3>1, <3>2
  <2> QED  BY <2>1, <2>2
<1>7. frames'[v] \in Seq(AllFrames)
  <2>1. Append(kept, f) \in Seq(AllFrames)
    BY <1>2, <1>3
  <2> QED  BY <1>3, <1>4, <2>1
<1>8. TypeInv'
  BY <1>1, <1>2, <1>7 DEF TypeInv
<1>9. StageOf(v)'
  BY <1>1 DEF StageOf
<1>10. ThinningOf(v)'
  <2>1. \A g \in ToSet(film[v]) : g \in ToSet(pending'[v]) \/ StandFor(frames'[v], g)
    BY <1>1, <1>2, <1>3, <1>6 DEF ThinningOf, kept
  <2>2. report[v].status # "success"
    BY <1>1 DEF StageOf
  <2>3. IsOrdered(film[v], Tail(pending[v]), frames'[v])
    <3>1. film[v] \in Seq(AllFrames) /\ pending[v] \in Seq(AllFrames) /\ pending[v] # <<>>
      BY <1>1 DEF TypeInv
    <3>2. IsOrdered(film[v], pending[v], kept)
      BY <1>1 DEF ThinningOf, kept
    <3>3. /\ IsOrdered(film[v], Tail(pending[v]), kept)
          /\ IsOrdered(film[v], Tail(pending[v]), Append(kept, f))
      BY <1>3, <3>1, <3>2, OrderGoesOn DEF f
    <3> QED  BY <1>4, <3>3
  <2> QED  BY <1>1, <1>3, <1>6, <2>1, <2>2, <2>3 DEF ThinningOf
<1> QED  BY <1>1, <1>8, <1>9, <1>10, OneVideo DEF TypeInv

LEMMA TruncateReportStep ==
    ASSUME JobsInv, NEW v \in Videos, TruncateReport(v)
    PROVE  JobsInv'
<1> USE DEF TruncateReport, GoTo
<1>1. v \in Jobs /\ StageOf(v) /\ ThinningOf(v) /\ TypeInv
  BY DEF JobsInv, StageInv, ThinningInv, Jobs
<1>2. TypeInv'
  BY <1>1, ReportIs DEF TypeInv, ThreadState, Extracting
<1>3. StageOf(v)'
  BY <1>1, ReportIs DEF TypeInv, StageOf
<1>4. ThinningOf(v)'
  BY <1>1, ReportIs DEF TypeInv, ThinningOf
<1> QED  BY <1>1, <1>2, <1>3, <1>4, OneVideo DEF TypeInv

LEMMA FillReportStep ==
    ASSUME JobsInv, NEW v \in Videos, FillReport(v)
    PROVE  JobsInv'
<1> USE DEF FillReport, GoTo
<1>1. v \in Jobs /\ StageOf(v) /\ ThinningOf(v) /\ TypeInv
  BY DEF JobsInv, StageInv, ThinningInv, Jobs
<1>2. [status |-> "success", frames |-> frames[v]] \in ReportType
  BY <1>1 DEF TypeInv, ReportType
<1>3. TypeInv'
  BY <1>1, <1>2 DEF TypeInv, ThreadState, Over
<1>4. StageOf(v)'
  BY <1>1 DEF TypeInv, StageOf
<1>5. ThinningOf(v)'
  <2>1. pending[v] = <<>> /\ InOrderOf(film[v], frames[v])
    BY <1>1, OrderEnds DEF TypeInv, ThinningOf
  <2> QED
    BY <1>1, <2>1, EmptyIsThinned DEF TypeInv, ThinningOf
<1> QED  BY <1>1, <1>3, <1>4, <1>5, OneVideo DEF TypeInv

LEMMA ReviewStep ==
    ASSUME JobsInv, NEW j \in Reviews, SubmitReview(j) \/ RunReview(j)
    PROVE  JobsInv'
<1> USE DEF SubmitReview, RunReview, SubmitTask
<1>1. j \in Jobs /\ j \notin Videos /\ TypeInv /\ StageInv /\ ThinningInv
  BY JobsAssumption DEF JobsInv, Jobs
<1>2. TypeInv'
  BY <1>1, ReportIs DEF TypeInv, TaskState
<1>3. \A v \in Videos : /\ v \in Jobs /\ task'[v] = task[v] /\ report'[v] = report[v]
                        /\ v \in posted' <=> v \in posted
  BY <1>1 DEF TypeInv, Jobs
<1>4. \A v \in Videos : StageOf(v)'
  BY <1>1, <1>3 DEF StageInv, StageOf
<1>5. ThinningInv'
  BY <1>1, <1>3 DEF ThinningInv, ThinningOf
<1>6. \A i \in Reviews : /\ i \notin posted' => task'[i] = "none"
                         /\ task'[i] = "success" => report'[i].status = "success"
  BY <1>1, ReportIs DEF TypeInv, StageInv, Jobs
<1> QED  BY <1>2, <1>4, <1>5, <1>6 DEF JobsInv, StageInv

\* The process forgets its tasks and threads; an upload it was cut off in may
\* have left its first report, whole or not.
LEMMA RestartStep ==
    ASSUME JobsInv, Restart
    PROVE  JobsInv'
<1> USE DEF Restart
<1>1. TypeInv /\ StageInv /\ ThinningInv
  BY DEF JobsInv
<1>2. TypeInv'
  <2>1. report' \in [Jobs -> ReportType]
    BY <1>1, ReportIs DEF TypeInv
  <2>2. pending' \in [Videos -> Seq(AllFrames)]
    <3>1. <<>> \in Seq(AllFrames)
      OBVIOUS
    <3> QED  BY <3>1
  <2>3. posted' \subseteq Jobs
    BY <1>1 DEF TypeInv, Jobs
  <2>4. task' \in [Jobs -> TaskState] /\ thread' \in [Videos -> ThreadState]
    BY DEF TaskState, ThreadState
  <2> QED  BY <1>1, <2>1, <2>2, <2>3, <2>4 DEF TypeInv
<1>3. ASSUME NEW v \in Videos
      PROVE  /\ report'[v] = report[v] \/ (v \in posted' /\ report'[v].status \in {"torn", "queued"}
                                                         /\ report'[v].frames = <<>>)
             /\ v \in posted => v \in posted'
  BY <1>1, ReportIs DEF TypeInv, Jobs
<1>4. ASSUME NEW v \in Videos PROVE StageOf(v)' /\ ThinningOf(v)'
  <2>1. StageOf(v) /\ ThinningOf(v) /\ v \in Jobs
    BY <1>1 DEF StageInv, ThinningInv, Jobs
  <2>2. task'[v] = "none" /\ thread'[v] = "none"
    BY <2>1
  <2>3. StageOf(v)'
    BY <1>3, <2>1, <2>2 DEF StageOf
  <2>4. ThinningOf(v)'
    BY <1>3, <2>1, <2>2 DEF ThinningOf
  <2> QED  BY <2>3, <2>4
<1>5. \A j \in Reviews : task'[j] = "none"
  BY DEF Jobs
<1> QED  BY <1>2, <1>4, <1>5 DEF JobsInv, StageInv, ThinningInv

LEMMA QuietStep ==
    ASSUME JobsInv, UploadDocument \/ UNCHANGED vars
    PROVE  JobsInv'
<1>1. TypeInv'
  BY DEF JobsInv, TypeInv, UploadDocument, vars
<1>2. StageInv'
  BY DEF JobsInv, StageInv, StageOf, UploadDocument, vars
<1>3. ThinningInv'
  BY DEF JobsInv, ThinningInv, ThinningOf, UploadDocument, vars
<1> QED  BY <1>1, <1>2, <1>3 DEF JobsInv

LEMMA NextInv == JobsInv /\ [Next]_vars => JobsInv'
<1> SUFFICES ASSUME JobsInv, [Next]_vars PROVE JobsInv'
  OBVIOUS
<1>1. ASSUME NEW v \in Videos, SubmitVideo(v) PROVE JobsInv'
  BY <1>1, SubmitVideoStep
<1>2. ASSUME NEW v \in Videos, RunVideo(v) PROVE JobsInv'
  BY <1>2, RunVideoStep
<1>3. ASSUME NEW v \in Videos, CollectVideo(v) PROVE JobsInv'
  BY <1>3, CollectVideoStep
<1>4. ASSUME NEW v \in Videos, Raise(v) PROVE JobsInv'
  BY <1>4, QuietThreadStep
<1>5. ASSUME NEW v \in Videos, Thread(v) PROVE JobsInv'
  BY <1>5, QuietThreadStep, CheckStep, ExtractStep, DeduplicateStep,
     TruncateReportStep, FillReportStep DEF Thread
<1>6. ASSUME NEW j \in Reviews, SubmitReview(j) \/ RunReview(j) PROVE JobsInv'
  BY <1>6, ReviewStep
<1>7. CASE Restart
  BY <1>7, RestartStep
<1>8. CASE UploadDocument \/ UNCHANGED vars
  BY <1>8, QuietStep
<1> QED  BY <1>1, <1>2, <1>3, <1>4, <1>5, <1>6, <1>7, <1>8 DEF Next

LEMMA JobsInvariant == Spec => []JobsInv
BY InitInv, NextInv, PTL DEF Spec

-----------------------------------------------------------------------------
(* What a reader of a task and of a report can count on.                    *)

\* _run_task marks a task as done only behind the report that it wrote, and
\* nothing that runs later takes the report or one of its frames away: a task
\* polled to success has its report, whole, with every frame it names on disk.
THEOREM SuccessIsServedHolds == Spec => []SuccessIsServed
<1>1. JobsInv => SuccessIsServed
  <2> SUFFICES ASSUME JobsInv, NEW j \in Jobs, task[j] = "success"
               PROVE  /\ ReportReply(j) \in
                           (IF j \in Videos THEN {"success", "dependency_missing"} ELSE {"success"})
                      /\ j \in Videos => \A f \in ToSet(report[j].frames) : FileReply(j, f)
    BY DEF SuccessIsServed, TaskReply
  <2>1. CASE j \in Videos
    <3>1. StageOf(j) /\ ThinningOf(j)
      BY <2>1 DEF JobsInv, StageInv, ThinningInv
    <3>2. ReportReply(j) \in {"success", "dependency_missing"}
      BY <3>1 DEF StageOf, ReportReply
    <3>3. ToSet(report[j].frames) \subseteq ToSet(frames[j])
      BY <3>1, EmptyIsThinned DEF ThinningOf
    <3> QED  BY <2>1, <3>2, <3>3 DEF FileReply
  <2>2. CASE j \notin Videos
    BY <2>2 DEF JobsInv, StageInv, Jobs, ReportReply
  <2> QED  BY <2>1, <2>2
<1> QED  BY <1>1, JobsInvariant, PTL

\* _deduplicate_and_copy, taken over a whole extraction: the report of a video
\* holds no frame twice and none that resembles one of the last kept before it,
\* and every frame that was extracted has one in the report to stand for it.
THEOREM KeptFramesStandForAllHolds == Spec => []KeptFramesStandForAll
<1>1. JobsInv => KeptFramesStandForAll
  BY DEF JobsInv, ThinningInv, ThinningOf, IsThinned, StandFor, KeptFramesStandForAll
<1> QED  BY <1>1, JobsInvariant, PTL
===============================================================================
