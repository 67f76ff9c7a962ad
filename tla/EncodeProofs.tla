---------------------------- MODULE EncodeProofs ----------------------------
(***************************************************************************)
(* One job of the worker, for every library, every job row and every       *)
(* quality range: what is delivered passed the checks it was promised, the *)
(* report says what happened, no child outlives its job, and the search    *)
(* for a quality is exact.                                                 *)
(***************************************************************************)
EXTENDS Encode, FiniteSetTheorems, SequenceTheorems, WellFoundedInduction, TLAPS

-----------------------------------------------------------------------------
\* The search, for every range and every sequence of measurements.

\* The midpoint of find_quality_for_target lies above the lower end and not above the upper.
LEMMA MidpointBetween ==
    ASSUME NEW a \in Int, NEW b \in Int, a < b
    PROVE  /\ (a + b + 1) \div 2 \in Int
           /\ a < (a + b + 1) \div 2
           /\ (a + b + 1) \div 2 =< b
  OBVIOUS

\* One measurement of find_quality_for_target's loop: the candidate becomes the lower end, or
\* the quality below it the upper, and what is left stays between one that met the target
\* and one that missed it.
LEMMA SearchStep ==
    ASSUME SearchInv, [SearchNext]_searchVars
    PROVE  SearchInv'
<1> USE RangeAssumption
<1>1. CASE UNCHANGED searchVars
  BY <1>1 DEF SearchInv, searchVars, First, NoQuality
<1>2. CASE SearchNext /\ First
  <2>1. Candidate = lo /\ lo = Lo /\ hi = Hi /\ met = {} /\ missed = {}
    BY <1>2 DEF Candidate, First, SearchInv
  <2>2. CASE Meets
    BY <1>2, <2>1, <2>2 DEF Meets, SearchInv, First, NoQuality
  <2>3. CASE Misses
    BY <1>2, <2>1, <2>3 DEF Misses, SearchInv, First, NoQuality
  <2> QED BY <1>2, <2>2, <2>3 DEF SearchNext
<1>3. CASE SearchNext /\ ~First
  <2>1. lo \in met /\ lo < hi /\ Candidate = Midpoint
    BY <1>3 DEF SearchNext, Meets, Misses, SearchOver, SearchInv, Candidate
  <2>2. Midpoint \in Int /\ lo < Midpoint /\ Midpoint =< hi
    BY <2>1, MidpointBetween DEF Midpoint, SearchInv
  <2>3. CASE Meets
    BY <1>3, <2>1, <2>2, <2>3 DEF Meets, SearchInv, First, NoQuality
  <2>4. CASE Misses
    BY <1>3, <2>1, <2>2, <2>4 DEF Misses, SearchInv, First, NoQuality
  <2> QED BY <1>3, <2>3, <2>4 DEF SearchNext
<1> QED BY <1>1, <1>2, <1>3

\* An invariant search that is over is exact.
LEMMA InvIsExact == SearchInv => SearchExact
  BY RangeAssumption DEF SearchInv, SearchExact, SearchOver, First, NoQuality

\* What is left of the range stays between a quality that met the target and one that
\* missed it, in find_quality_for_target's loop.
THEOREM SearchInductive == SearchSpec => []SearchInv
<1>1. SearchInit => SearchInv
  BY RangeAssumption DEF SearchInit, SearchInv, First, NoQuality
<1>2. SearchInv /\ [SearchNext]_searchVars => SearchInv'
  BY SearchStep
<1> QED BY <1>1, <1>2, PTL DEF SearchSpec

\* find_quality_for_target returns a quality that was seen to meet the target and cannot
\* be raised, or nothing when the best end of the range missed.
THEOREM SearchCorrect == SearchSpec => []SearchExact
<1> QED BY InvIsExact, SearchInductive, PTL

-----------------------------------------------------------------------------
\* What holds at each await.

\* The awaits of _process_job outside run_pipeline.
Around == {"idle", "dedup", "recover", "head", "download", "fetched", "commit"}

\* A child exists exactly while its stage awaits it, and is being terminated for a
\* reason or not at all (managed_subprocess).
FlowInv ==
    /\ pc \in Pipeline \cup Around
    /\ child \in {"none", "running", "silent", "term"}
    /\ why \in {"none", "deadline", "abort"}
    /\ child # "none" <=> pc \in Stage
    /\ child = "term" <=> why # "none"

\* The local file is the original until the swap, unconfirmed up to the end of the
\* pipeline and replaced past it; only a crash leaves an unconfirmed one behind.
FileInv ==
    /\ file \in {"original", "swapped", "replaced"}
    /\ file = "swapped" => pc \in {"confirm", "finish"} \/ (pc = "idle" /\ outcome = "lost")
    /\ file = "replaced" => pc \in {"idle", "commit"}
    /\ pc = "commit" => file = "replaced"
    /\ uploaded => pc = "idle" /\ outcome = "complete"

\* The gate of a quality goal: passed, or off for a reason.
Gated == job.goal => out.picture = "good" \/ excuse # "none"

\* What run_pipeline has established of the output at each await: every check that lies
\* behind it.
CheckedInv ==
    /\ ~vmaf_available => excuse # "none"
    /\ pc \in Pipeline \ {"preflight"} => (job.shrink => media.tall)
    /\ pc \in {"list", "gauge"} => Intact(out)
    /\ pc = "gauge" => out.smaller
    /\ (pc \in {"swap", "confirm", "finish", "commit"} \/ file = "replaced" \/ uploaded) =>
           /\ Intact(out) /\ out.smaller
           /\ job.shrink => media.tall
           /\ Gated

\* The plan, made with the subtitle probe or without it, carries or names every stream of
\* the source.
Planned ==
    \E drop \in {{}, unmuxable_subtitle_indexes(media.streams)} :
        plan = plan_streams(media.streams, drop) /\ PlanCovers(media.streams, drop)

\* The inventory of the output has what the plan promised, in its order.
Listed == _covers_in_order(Keys(media.streams, plan), Keys(media.streams, out.streams))

\* From the encode on there is a plan that covers the source, then an output muxed from
\* that plan, past the inventory one that covers it.
StreamsInv ==
    /\ media.streams \in Sources
    /\ pc \in {"encode", "verify", "list"} => Planned
    /\ pc \in {"verify", "list"} => out.streams \in Muxed(plan)
    /\ (pc \in {"gauge", "swap", "confirm", "finish", "commit"} \/ file = "replaced" \/ uploaded) =>
           Planned /\ Listed /\ out.streams \in Muxed(plan)

\* The report of a job that is over against the file it left.
ReportInv ==
    pc = "idle" =>
        /\ outcome = "complete" => file = "replaced" /\ (job.s3 => uploaded)
        /\ outcome \in {"skipped", "declined"} => file = "original"
        /\ outcome \in {"failed", "aborted"} /\ file # "original" => ended \in {"finish", "commit"}

\* The job, the settings and what is reported have the values the statements give them.
DomainInv ==
    /\ job \in Jobs /\ backend \in {"qsv", "cpu"}
    /\ outcome \in {"none", "complete", "reused", "skipped", "failed", "declined", "aborted",
                   "lost"}
    /\ excuse \in {"none", "missing", "timeout"}
    /\ ended \in Pipeline \cup Around \cup {"none"} /\ ended # "idle"

\* The answers and requests that are yes or no.
FlagInv ==
    /\ media.tall \in BOOLEAN /\ media.deep \in BOOLEAN /\ vmaf_available \in BOOLEAN
    /\ uploaded \in BOOLEAN /\ abort_requested \in BOOLEAN

\* A download that is let in has room.
RoomInv == dirs \in [{"fetch", "job"} -> 0 .. Capacity]

\* The plan is one of plan_streams, once there is one, and ffmpeg has written nothing yet or
\* what the muxer makes of it.
MadeInv ==
    /\ plan = <<>> \/ \E drop \in {{}, unmuxable_subtitle_indexes(media.streams)} :
                          plan = plan_streams(media.streams, drop)
    /\ out.streams = <<>> \/ out.streams \in Muxed(plan)
    /\ out.picture \in Pictures
    /\ pc \in {"dedup", "recover", "head", "download", "fetched", "preflight", "lock", "inventory",
              "libvmaf", "sample", "score", "subs"} => out.streams = <<>>

\* What holds in every state of a job: the inductive invariant.
EncodeInv == FlowInv /\ FileInv /\ CheckedInv /\ StreamsInv /\ ReportInv
             /\ SearchInv /\ QualitySettled /\ DomainInv /\ FlagInv /\ RoomInv /\ MadeInv

-----------------------------------------------------------------------------
\* The stream plan and the inventory, for every list of streams.

\* A finite set of numbers can be listed in order.
LEMMA SortedExists ==
    ASSUME NEW S \in SUBSET Int, IsFiniteSet(S)
    PROVE  \E q \in [1 .. Cardinality(S) -> S] : \A m, n \in DOMAIN q : m < n => q[m] < q[n]
<1> DEFINE N == Cardinality(S)
           Below(x) == {y \in S : y =< x}
           rank == [x \in S |-> Cardinality(Below(x))]
<1>1. N \in Nat
  BY FS_CardinalityType
<1>2. \A x \in S : /\ Below(x) \in SUBSET S /\ IsFiniteSet(Below(x))
                   /\ Cardinality(Below(x)) \in 1 .. N
  <2> SUFFICES ASSUME NEW x \in S
               PROVE  /\ Below(x) \in SUBSET S /\ IsFiniteSet(Below(x))
                      /\ Cardinality(Below(x)) \in 1 .. N
    OBVIOUS
  <2>1. Below(x) \in SUBSET S /\ x \in Below(x)
    OBVIOUS
  <2>2. IsFiniteSet(Below(x)) /\ Cardinality(Below(x)) =< N
    BY <2>1, FS_Subset
  <2>3. Cardinality(Below(x)) \in Nat /\ Cardinality(Below(x)) # 0
    BY <2>1, <2>2, FS_CardinalityType, FS_EmptySet
  <2> HIDE DEF Below, N
  <2> QED BY <1>1, <2>1, <2>2, <2>3
<1>3. \A x, y \in S : x < y => Cardinality(Below(x)) < Cardinality(Below(y))
  <2> SUFFICES ASSUME NEW x \in S, NEW y \in S, x < y
               PROVE  Cardinality(Below(x)) < Cardinality(Below(y))
    OBVIOUS
  <2>1. Below(x) \in SUBSET Below(y) /\ Below(x) # Below(y)
    <3>1. y \in Below(y) /\ y \notin Below(x)
      OBVIOUS
    <3>2. \A z \in Below(x) : z \in Below(y)
      OBVIOUS
    <3> QED BY <3>1, <3>2
  <2>2. IsFiniteSet(Below(y)) /\ Cardinality(Below(x)) \in Int /\ Cardinality(Below(y)) \in Int
    BY <1>2
  <2>3. Cardinality(Below(x)) =< Cardinality(Below(y)) /\ Cardinality(Below(x)) # Cardinality(Below(y))
    BY <2>1, <2>2, FS_Subset
  <2> HIDE DEF Below
  <2> QED BY <2>2, <2>3
<1>4. rank \in Injection(S, 1 .. N)
  <2>1. rank \in [S -> 1 .. N]
    BY <1>2
  <2>2. ASSUME NEW x \in S, NEW y \in S, rank[x] = rank[y] PROVE x = y
    <3>1. Cardinality(Below(x)) = Cardinality(Below(y)) /\ Cardinality(Below(x)) \in Int
      BY <2>2, <1>2
    <3>2. ~(x < y) /\ ~(y < x)
      <4> HIDE DEF Below
      <4> QED BY <1>3, <3>1
    <3> QED BY <3>2
  <2> HIDE DEF rank
  <2> QED BY <2>1, <2>2 DEF Injection, IsInjective
<1>5. rank \in Surjection(S, 1 .. N)
  <2>1. IsFiniteSet(1 .. N) /\ Cardinality(1 .. N) = N
    BY <1>1, FS_Interval
  <2> HIDE DEF rank
  <2> QED BY <1>4, <2>1, FS_Injection
<1>6. \A n \in 1 .. N : \E x \in S : rank[x] = n
  <2> HIDE DEF rank, N
  <2> QED BY <1>5 DEF Surjection
<1> DEFINE q == [n \in 1 .. N |-> CHOOSE x \in S : rank[x] = n]
<1>7. \A n \in 1 .. N : q[n] \in S /\ rank[q[n]] = n
  <2> HIDE DEF rank, N
  <2> QED BY <1>6
<1>8. ASSUME NEW m \in 1 .. N, NEW n \in 1 .. N, m < n PROVE q[m] < q[n]
  <2>1. q[m] \in S /\ q[n] \in S /\ rank[q[m]] = m /\ rank[q[n]] = n
    BY <1>7
  <2>2. rank[q[m]] = Cardinality(Below(q[m])) /\ rank[q[n]] = Cardinality(Below(q[n]))
    <3>1. \A x \in S : rank[x] = Cardinality(Below(x))
      OBVIOUS
    <3> HIDE DEF q, rank, Below
    <3> QED BY <2>1, <3>1
  <2> HIDE DEF q, rank, Below, N
  <2>3. m \in Int /\ n \in Int /\ ~(n < m) /\ m # n
    BY <1>1, <1>8
  <2>4. ~(q[n] < q[m])
    <3>1. SUFFICES ASSUME q[n] < q[m] PROVE FALSE
      OBVIOUS
    <3>2. Cardinality(Below(q[n])) < Cardinality(Below(q[m]))
      BY <1>3, <2>1, <3>1
    <3> QED BY <2>1, <2>2, <2>3, <3>2
  <2>5. q[n] # q[m]
    BY <2>1, <2>3
  <2>6. q[m] \in Int /\ q[n] \in Int
    BY <2>1
  <2> QED BY <2>4, <2>5, <2>6
<1>9. q \in [1 .. N -> S]
  BY <1>7
<1> QED
  <2> HIDE DEF q
  <2>1. DOMAIN q = 1 .. N
    BY <1>9
  <2> QED BY <1>8, <1>9, <2>1

\* InOrder lists the set and nothing else, in order.
LEMMA InOrderSorts ==
    ASSUME NEW S \in SUBSET Int, IsFiniteSet(S)
    PROVE  /\ InOrder(S) \in Seq(S) /\ Len(InOrder(S)) = Cardinality(S)
           /\ Range(InOrder(S)) = S /\ IsInjective(InOrder(S))
           /\ \A m, n \in 1 .. Cardinality(S) : m < n => InOrder(S)[m] < InOrder(S)[n]
<1> DEFINE N == Cardinality(S)
           q == InOrder(S)
<1>1. N \in Nat
  BY FS_CardinalityType
<1>2. q \in [1 .. N -> S] /\ \A m, n \in DOMAIN q : m < n => q[m] < q[n]
  BY SortedExists DEF InOrder
<1> HIDE DEF N, q
<1>3. q \in Seq(S) /\ Len(q) = N
  BY <1>1, <1>2
<1>4. \A m, n \in 1 .. N : m < n => q[m] < q[n]
  BY <1>2
<1>5. q \in Injection(1 .. N, S)
  <2>1. ASSUME NEW m \in 1 .. N, NEW n \in 1 .. N, q[m] = q[n] PROVE m = n
    <3>1. q[m] \in S /\ q[n] \in S /\ m \in Int /\ n \in Int
      BY <1>1, <1>2
    <3>2. \A x \in S : x \in Int
      OBVIOUS
    <3>3. ~(q[m] < q[n]) /\ ~(q[n] < q[m])
      <4>1. q[m] \in Int /\ q[n] \in Int
        BY <3>1, <3>2, Zenon
      <4> QED BY <2>1, <4>1
    <3>4. ~(m < n) /\ ~(n < m)
      BY <1>4, <3>3
    <3> QED BY <3>1, <3>4
  <2> QED BY <1>2, <2>1 DEF Injection, IsInjective
<1>6. q \in Surjection(1 .. N, S)
  BY <1>1, <1>5, FS_Interval, FS_Injection DEF N
<1>7. Range(q) = S
  BY <1>6, <1>2 DEF Surjection, Range
<1>8. IsInjective(q)
  BY <1>5 DEF Injection
<1> QED BY <1>3, <1>4, <1>7, <1>8 DEF q, N

\* A set of numbers that is not empty has a least one.
LEMMA LeastOf ==
    ASSUME NEW S, S \subseteq Nat, S # {}
    PROVE  \E x \in S : \A y \in S : x =< y
<1>1. PICK x \in S : \A y \in S : ~(<<y, x>> \in OpToRel(<, Nat))
  BY WFMin, NatLessThanWellFounded
<1>2. \A a, b \in Nat : a < b => <<a, b>> \in OpToRel(<, Nat)
  BY Zenon DEF OpToRel
<1>3. \A y \in S : ~(y < x)
  BY <1>1, <1>2, Zenon
<1>4. x \in S
  BY <1>1
<1> QED BY <1>3, <1>4

\* The re-encoded stream of primary_video_index is a video stream of the source.
LEMMA PrimaryIsVideo ==
    ASSUME NEW s \in Seq(StreamKind), "video" \in Range(s)
    PROVE  primary_video_index(s) \in Indexes(s) /\ s[primary_video_index(s)] = "video"
<1> DEFINE V == {i \in Indexes(s) : s[i] = "video"}
<1>1. PICK i \in V : TRUE
  BY DEF Range, Indexes
<1>2. PICK v \in V : \A k \in V : v =< k
  <2>1. V \subseteq Nat /\ V # {}
    BY <1>1 DEF Indexes
  <2> HIDE DEF V
  <2> QED BY <2>1, LeastOf
<1>3. \A k \in 1 .. v - 1 : s[k] # "video"
  BY <1>2 DEF Indexes
<1> QED BY <1>2, <1>3 DEF primary_video_index

\* The plan begins with the primary, keeps other streams of the source behind it, and
\* covers the source, with the unnamed subtitles or without them.
LEMMA PlanShape ==
    ASSUME NEW s \in Seq(StreamKind), "video" \in Range(s),
           NEW drop \in {{}, unmuxable_subtitle_indexes(s)}
    PROVE  LET p == plan_streams(s, drop)
           IN  /\ p \in Seq(Indexes(s)) /\ Len(p) \in Nat \ {0}
               /\ p[1] = primary_video_index(s)
               /\ \A n \in 2 .. Len(p) : p[n] # primary_video_index(s)
               /\ IsInjective(p) /\ PlanCovers(s, drop)
<1> DEFINE T == Indexes(s) \ (Omitted(s, drop) \cup {primary_video_index(s)})
           Subs == {i \in Indexes(s) : s[i] \in {"subtitle", "unnamed"}}
           q == InOrder(T)
           p == plan_streams(s, drop)
<1>1. T \in SUBSET Int /\ IsFiniteSet(T) /\ Subs \in SUBSET Int /\ IsFiniteSet(Subs)
  <2>1. IsFiniteSet(Indexes(s))
    BY FS_Interval DEF Indexes
  <2> QED BY <2>1, FS_Subset DEF Indexes
<1>2. q \in Seq(T) /\ Range(q) = T /\ IsInjective(q)
  BY <1>1, InOrderSorts
<1>3. primary_video_index(s) \in Indexes(s) /\ s[primary_video_index(s)] = "video"
  BY PrimaryIsVideo
<1>4. Omitted(s, drop) \in SUBSET Indexes(s) /\ \A i \in Omitted(s, drop) : s[i] # "video"
  <2>1. Subtitles(s) \in Seq(Subs)
    BY <1>1, InOrderSorts DEF Subtitles
  <2>2. \A n \in drop : Subtitles(s)[n] \in Subs
    <3> HIDE DEF Subs
    <3> QED BY <2>1 DEF unmuxable_subtitle_indexes, Indexes
  <2> QED BY <2>2 DEF Omitted
<1>5. p = <<primary_video_index(s)>> \o q
  BY DEF plan_streams
<1> HIDE DEF p, q
<1>6. p \in Seq(Indexes(s)) /\ Len(p) = 1 + Len(q) /\ Len(q) \in Nat
  <2>1. q \in Seq(Indexes(s))
    BY <1>2
  <2> HIDE DEF T
  <2> QED BY <1>3, <1>5, <2>1
<1>7. p[1] = primary_video_index(s) /\ \A n \in 2 .. Len(p) : p[n] = q[n - 1]
  <2> HIDE DEF T
  <2> QED BY <1>2, <1>3, <1>5, <1>6
<1>8. \A n \in 1 .. Len(q) : q[n] \in T
  <2> HIDE DEF T
  <2> QED BY <1>2
<1>9. \A n \in 2 .. Len(p) : p[n] # primary_video_index(s)
  <2>1. \A n \in 2 .. Len(p) : n - 1 \in 1 .. Len(q)
    BY <1>6
  <2> QED BY <1>7, <1>8, <2>1
<1>10. T \subseteq Range(p)
  <2> SUFFICES ASSUME NEW i \in T PROVE i \in Range(p)
    OBVIOUS
  <2>1. PICK n \in 1 .. Len(q) : q[n] = i
    <3> HIDE DEF T
    <3> QED BY <1>2 DEF Range
  <2>2. n + 1 \in 1 .. Len(p) /\ p[n + 1] = i
    <3> HIDE DEF T
    <3> QED BY <1>6, <1>7, <2>1
  <2> HIDE DEF T
  <2> QED BY <1>6, <2>2 DEF Range
<1>11. Range(p) \subseteq Indexes(s) /\ primary_video_index(s) \in Range(p)
  <2> HIDE DEF T
  <2>1. DOMAIN p = 1 .. Len(p) /\ 1 \in 1 .. Len(p)
    BY <1>6
  <2>2. \A n \in 1 .. Len(p) : p[n] \in Indexes(s)
    BY <1>6
  <2> QED BY <1>7, <2>1, <2>2 DEF Range
<1>12. PlanCovers(s, drop)
  BY <1>4, <1>10, <1>11 DEF PlanCovers, p
<1>13. IsInjective(p)
  <2> SUFFICES ASSUME NEW m \in 1 .. Len(p), NEW n \in 1 .. Len(p), p[m] = p[n] PROVE m = n
    BY <1>6 DEF IsInjective
  <2>1. CASE m = 1 \/ n = 1
    BY <1>6, <1>7, <1>9, <2>1
  <2>2. CASE m # 1 /\ n # 1
    <3>1. /\ m - 1 \in 1 .. Len(q) /\ n - 1 \in 1 .. Len(q)
          /\ q[m - 1] = q[n - 1]
      BY <1>6, <1>7, <2>2
    <3>2. DOMAIN q = 1 .. Len(q)
      <4> HIDE DEF T
      <4> QED BY <1>2
    <3>3. m - 1 = n - 1
      BY <1>2, <3>1, <3>2 DEF IsInjective
    <3> QED BY <3>3
  <2> QED BY <2>1, <2>2
<1> QED BY <1>6, <1>7, <1>9, <1>12, <1>13 DEF p

\* Streams found each behind the one before it do not fit into fewer places.
LEMMA NoRoom ==
    ASSUME NEW L \in Nat, NEW T \in SUBSET Int, IsFiniteSet(T), Cardinality(T) < L,
           NEW at \in [1 .. L -> T],
           \A m, n \in 1 .. L : m < n => at[m] < at[n]
    PROVE  FALSE
<1>1. IsFiniteSet(1 .. L) /\ Cardinality(1 .. L) = L
  BY FS_Interval
<1>2. PICK x, y \in 1 .. L : x # y /\ at[x] = at[y]
  BY <1>1, FS_PigeonHole
<1>3. at[x] \in Int /\ at[y] \in Int /\ x \in Int /\ y \in Int
  <2>1. at[x] \in T /\ at[y] \in T /\ x \in Int /\ y \in Int
    OBVIOUS
  <2> QED BY <2>1, Zenon
<1>4. ~(at[x] < at[y]) /\ ~(at[y] < at[x])
  BY <1>2, <1>3
<1>5. x < y \/ y < x
  BY <1>2, <1>3
<1> QED BY <1>4, <1>5

\* The muxer adds no stream of the source to those that were planned.
LEMMA MuxedRange ==
    ASSUME NEW p \in Seq(Int), NEW r \in Muxed(p)
    PROVE  Range(r) \subseteq Range(p) \cup {0}
<1> DEFINE L == Len(p)
           T == Range(p) \cup {0}
<1>1. L \in Nat /\ p \in [1 .. L -> Int]
  OBVIOUS
<1>2. \A k \in 1 .. L : p[k] \in T
  BY <1>1 DEF Range
<1> HIDE DEF T
<1>3. p \in Seq(T)
  BY <1>2
<1>4. ASSUME NEW n \in 2 .. L PROVE RemoveAt(p, n) \in Seq(T)
  <2>1. SubSeq(p, 1, n - 1) \in Seq(T)
    <3>1. \A k \in 1 .. n - 1 : p[k] \in T
      BY <1>1, <1>2
    <3> QED BY <3>1, SubSeqProperties
  <2>2. SubSeq(p, n + 1, L) \in Seq(T)
    <3>1. \A k \in n + 1 .. L : p[k] \in T
      BY <1>1, <1>2
    <3> QED BY <1>1, <3>1, SubSeqProperties
  <2> QED BY <2>1, <2>2, ConcatProperties DEF RemoveAt
<1>5. ASSUME NEW n \in 1 .. L - 1, r = [p EXCEPT ![n] = p[n + 1], ![n + 1] = p[n]]
      PROVE  r \in Seq(T)
  <2>1. p[n] \in T /\ p[n + 1] \in T
    BY <1>1, <1>2
  <2>2. p \in [1 .. L -> T]
    BY <1>1, <1>2
  <2> HIDE DEF L
  <2>3. r \in [1 .. L -> T]
    BY <1>5, <2>1, <2>2, Zenon
  <2> QED BY <1>1, <2>3
<1>6. ASSUME NEW q \in Seq(T) PROVE Append(q, 0) \in Seq(T)
  <2>1. 0 \in T
    BY DEF T
  <2> QED BY <2>1
<1>7. \/ r = p
      \/ \E n \in 2 .. L : r = RemoveAt(p, n)
      \/ \E n \in 1 .. L - 1 : r = [p EXCEPT ![n] = p[n + 1], ![n + 1] = p[n]]
      \/ r = Append(p, 0)
      \/ \E n \in 2 .. L : r = Append(RemoveAt(p, n), 0)
  BY Zenon DEF Muxed
<1>8. r \in Seq(T)
  BY <1>3, <1>4, <1>5, <1>6, <1>7, Zenon
<1>9. Range(r) \subseteq T
  BY <1>8 DEF Range
<1> QED BY <1>9 DEF T

\* Whatever the muxer made of a plan, if its inventory has the promised streams in their
\* order then no planned stream is missing and the re-encoded one is still the first.
LEMMA InventoryFinds ==
    ASSUME NEW s \in Seq(StreamKind), "video" \in Range(s),
           NEW p \in Seq(Indexes(s)), Len(p) \in Nat \ {0},
           p[1] = primary_video_index(s),
           \A n \in 2 .. Len(p) : p[n] # primary_video_index(s),
           NEW r \in Muxed(p),
           _covers_in_order(Keys(s, p), Keys(s, r))
    PROVE  Range(p) \subseteq Range(r) /\ r[1] = primary_video_index(s)
<1> DEFINE L == Len(p)
           key(i) == _inventory_key(s, i)
<1>1. L \in Nat \ {0} /\ \A n \in 1 .. L : p[n] \in Indexes(s) /\ p[n] # 0
  BY DEF Indexes
<1>2. key(p[1]) = "reencoded"
  BY <1>1 DEF _inventory_key
<1>3. \A n \in 1 .. L : key(p[n]) # "chapters" /\ (n # 1 => key(p[n]) # "reencoded")
  <2> SUFFICES ASSUME NEW n \in 1 .. L
               PROVE  key(p[n]) # "chapters" /\ (n # 1 => key(p[n]) # "reencoded")
    OBVIOUS
  <2>1. CASE n = 1
    BY <2>1, <1>2
  <2>2. CASE n # 1
    <3>1. s[p[n]] \in StreamKind
      BY <1>1 DEF Indexes
    <3>2. key(p[n]) = s[p[n]]
      BY <1>1, <2>2 DEF _inventory_key
    <3> QED BY <3>1, <3>2 DEF StreamKind
  <2> QED BY <2>1, <2>2
<1>4. key(0) = "chapters"
  BY <1>1 DEF _inventory_key
<1>5. ASSUME NEW M \in Nat, r \in Seq(Int), Len(r) = M
      PROVE  \E at \in [1 .. L -> 1 .. M] :
                 /\ \A n \in 1 .. L : key(p[n]) = key(r[at[n]])
                 /\ \A m, n \in 1 .. L : m < n => at[m] < at[n]
  <2>1. Indexes(Keys(s, p)) = 1 .. L /\ \A n \in 1 .. L : Keys(s, p)[n] = key(p[n])
    BY <1>1 DEF Indexes, Keys
  <2>2. Indexes(Keys(s, r)) = 1 .. M /\ \A n \in 1 .. M : Keys(s, r)[n] = key(r[n])
    BY <1>5 DEF Indexes, Keys
  <2>3. PICK at \in [1 .. L -> 1 .. M] :
                 /\ \A n \in 1 .. L : Keys(s, p)[n] = Keys(s, r)[at[n]]
                 /\ \A m, n \in 1 .. L : m < n => at[m] < at[n]
    BY <2>1, <2>2 DEF _covers_in_order
  <2>4. \A n \in 1 .. L : key(p[n]) = key(r[at[n]])
    <3> HIDE DEF key, L
    <3> QED BY <2>1, <2>2, <2>3
  <2> QED BY <2>3, <2>4
<1> HIDE DEF key
<1>6. ASSUME NEW n \in 2 .. L
      PROVE  /\ RemoveAt(p, n) \in Seq(Int) /\ Len(RemoveAt(p, n)) = L - 1
  BY <1>1 DEF RemoveAt, Indexes
<1>7. CASE r = p
  BY <1>7, <1>1
<1>8. ASSUME NEW n \in 2 .. L, r = RemoveAt(p, n) PROVE FALSE
  <2>1. PICK at \in [1 .. L -> 1 .. L - 1] : \A i, k \in 1 .. L : i < k => at[i] < at[k]
    <3>1. L - 1 \in Nat /\ r \in Seq(Int) /\ Len(r) = L - 1
      BY <1>1, <1>6, <1>8
    <3> HIDE DEF L
    <3> QED BY <1>5, <3>1
  <2>2. /\ IsFiniteSet(1 .. L - 1) /\ Cardinality(1 .. L - 1) = L - 1
        /\ 1 .. L - 1 \in SUBSET Int /\ L \in Nat /\ L - 1 < L
    <3>1. L - 1 \in Int /\ L - 1 < L /\ L \in Nat /\ ~(1 > L)
      BY <1>1
    <3>2. IsFiniteSet(1 .. L - 1) /\ Cardinality(1 .. L - 1) = L - 1
      <4> HIDE DEF L
      <4> QED BY <3>1, FS_Interval
    <3> QED BY <3>1, <3>2
  <2> HIDE DEF L
  <2> QED BY <2>1, <2>2, NoRoom
<1>9. ASSUME NEW n \in 1 .. L - 1, r = [p EXCEPT ![n] = p[n + 1], ![n + 1] = p[n]]
      PROVE  Range(p) \subseteq Range(r) /\ r[1] = primary_video_index(s)
  <2>1. r \in Seq(Int) /\ Len(r) = L
    BY SMTT(30), <1>1, <1>9 DEF Indexes
  <2>2. r[n] = p[n + 1] /\ r[n + 1] = p[n] /\ \A k \in 1 .. L : k # n /\ k # n + 1 => r[k] = p[k]
    BY <1>1, <1>9
  <2>3. Range(p) \subseteq Range(r)
    <3>1. DOMAIN p = 1 .. L /\ DOMAIN r = 1 .. L /\ n \in 1 .. L /\ n + 1 \in 1 .. L
      BY <1>1, <2>1
    <3> HIDE DEF L
    <3>2. ASSUME NEW k \in 1 .. L PROVE \E j \in 1 .. L : r[j] = p[k]
      BY <2>2, <3>1
    <3>3. Range(p) = {p[k] : k \in 1 .. L} /\ Range(r) = {r[k] : k \in 1 .. L}
      BY <3>1, Zenon DEF Range
    <3> QED BY SMTT(30), <3>2, <3>3
  <2>4. n # 1
    <3> SUFFICES ASSUME n = 1 PROVE FALSE
      OBVIOUS
    <3>1. PICK at \in [1 .. L -> 1 .. L] :
                 /\ \A i \in 1 .. L : key(p[i]) = key(r[at[i]])
                 /\ \A i, k \in 1 .. L : i < k => at[i] < at[k]
      BY <1>1, <1>5, <2>1
    <3>2. 1 \in 1 .. L /\ 2 \in 1 .. L /\ r[1] = p[2]
      BY <1>1, <2>2
    <3>3. at[1] # 1
      BY <1>2, <1>3, <3>1, <3>2
    <3>4. \A i \in 1 .. L : at[i] \in 2 .. L
      <4> SUFFICES ASSUME NEW i \in 1 .. L PROVE at[i] \in 2 .. L
        OBVIOUS
      <4>1. at[1] \in 1 .. L /\ at[i] \in 1 .. L /\ (1 < i => at[1] < at[i])
        BY <3>1, <3>2
      <4>2. 1 < at[1]
        BY <3>3, <4>1
      <4>3. i = 1 \/ 1 < i
        OBVIOUS
      <4> HIDE DEF L
      <4> QED BY <4>1, <4>2, <4>3
    <3>5. /\ IsFiniteSet(2 .. L) /\ Cardinality(2 .. L) = L - 1
          /\ 2 .. L \in SUBSET Int /\ L \in Nat /\ L - 1 < L
      BY <1>1, <3>2, FS_Interval
    <3>6. at \in [1 .. L -> 2 .. L]
      BY <3>1, <3>4
    <3> HIDE DEF L
    <3> QED BY <3>1, <3>5, <3>6, NoRoom
  <2>5. r[1] = p[1]
    BY <1>1, <2>2, <2>4
  <2> QED BY <2>3, <2>5
<1>10. CASE r = Append(p, 0)
  <2>1. DOMAIN p = 1 .. L /\ DOMAIN r = 1 .. L + 1 /\ \A n \in 1 .. L : r[n] = p[n]
    BY <1>1, <1>10
  <2> QED BY <1>1, <2>1 DEF Range
<1>11. ASSUME NEW n \in 2 .. L, r = Append(RemoveAt(p, n), 0) PROVE FALSE
  <2>1. r \in Seq(Int) /\ Len(r) = L /\ r[L] = 0
    <3> DEFINE q == RemoveAt(p, n)
    <3>1. q \in Seq(Int) /\ Len(q) = L - 1 /\ r = Append(q, 0)
      BY <1>6, <1>11
    <3> HIDE DEF q
    <3> QED BY <1>1, <3>1
  <2>2. PICK at \in [1 .. L -> 1 .. L] :
               /\ \A i \in 1 .. L : key(p[i]) = key(r[at[i]])
               /\ \A i, k \in 1 .. L : i < k => at[i] < at[k]
    BY <1>1, <1>5, <2>1
  <2>3. \A i \in 1 .. L : at[i] # L
    BY <1>3, <1>4, <2>1, <2>2
  <2>4. at \in [1 .. L -> 1 .. L - 1]
    <3>1. \A i \in 1 .. L : at[i] \in 1 .. L - 1
      <4> SUFFICES ASSUME NEW i \in 1 .. L PROVE at[i] \in 1 .. L - 1
        OBVIOUS
      <4>1. at[i] \in 1 .. L /\ at[i] # L
        BY <2>2, <2>3
      <4> HIDE DEF L
      <4> QED BY <1>1, <4>1
    <3> QED BY <2>2, <3>1
  <2>5. /\ IsFiniteSet(1 .. L - 1) /\ Cardinality(1 .. L - 1) = L - 1
        /\ 1 .. L - 1 \in SUBSET Int /\ L \in Nat /\ L - 1 < L
    <3>1. L - 1 \in Int /\ L - 1 < L /\ L \in Nat /\ ~(1 > L)
      BY <1>1
    <3>2. IsFiniteSet(1 .. L - 1) /\ Cardinality(1 .. L - 1) = L - 1
      <4> HIDE DEF L
      <4> QED BY SMTT(30), <3>1, FS_Interval
    <3> QED BY <3>1, <3>2
  <2> HIDE DEF L
  <2> QED BY <2>2, <2>4, <2>5, NoRoom
<1>12. \/ r = p
       \/ \E n \in 2 .. L : r = RemoveAt(p, n)
       \/ \E n \in 1 .. L - 1 : r = [p EXCEPT ![n] = p[n + 1], ![n + 1] = p[n]]
       \/ r = Append(p, 0)
       \/ \E n \in 2 .. L : r = Append(RemoveAt(p, n), 0)
  BY Zenon DEF Muxed
<1> QED BY <1>7, <1>8, <1>9, <1>10, <1>11, <1>12, Zenon

-----------------------------------------------------------------------------
\* Every step leaves a child running exactly where one is awaited: Goto spawns it, Leave,
\* AbortAgain and Crash take it along (managed_subprocess).
LEMMA FlowStep ==
    ASSUME FlowInv, [Next]_vars
    PROVE  FlowInv'
<1> USE DEF FlowInv, Pipeline, Around, Stage
<1>1. CASE Claim
  BY <1>1 DEF Claim, block
<1>2. CASE Decline
  BY <1>2 DEF Decline, Leave, work, settings, product, _settle, release
<1>3. CASE _try_dedup
  BY <1>3 DEF _try_dedup, Leave, work, settings, product, _settle, release
<1>4. CASE StartFetch
  BY <1>4 DEF StartFetch, Goto, work, settings, product, disk, report
<1>5. CASE FetchFails
  BY <1>5 DEF FetchFails, release, block, work, settings, product, disk
<1>6. CASE reserve
  BY <1>6 DEF reserve, block, work, settings, product, disk, report
<1>7. CASE Downloaded
  BY <1>7 DEF Downloaded, Goto, work, settings, product, disk, report
<1>8. CASE StartPipeline
  BY <1>8 DEF StartPipeline, Leave, Goto, NeedsProbe, work, settings, product, _settle,
        release, disk, report
<1>9. CASE Lock
  BY <1>9 DEF Lock, Leave, Goto, work, settings, product, _settle, release, disk, report
<1>10. CASE Swap
  BY <1>10 DEF Swap, Leave, report, work, settings, product, _settle, release
<1>11. CASE SwapFails
  BY <1>11 DEF SwapFails, Leave, work, settings, product, _settle, release
<1>12. CASE Finish
  BY <1>12 DEF Finish, release, report, block, work, settings, product
<1>13. CASE Commit
  BY <1>13 DEF Commit, release, block, work, settings, product
<1>14. CASE PreflightOK
  BY <1>14 DEF PreflightOK, Exits, Leave, Goto, product, work, _settle, release, disk,
        report
<1>15. CASE Inventory
  BY <1>15 DEF Inventory, Exits, Goto, settings, product, work, disk, report
<1>16. CASE HasLibvmaf
  BY <1>16 DEF HasLibvmaf, Exits, Goto, settings, product, work, disk, report
<1>17. CASE Sampled
  BY <1>17 DEF Sampled, Exits, Goto, settings, product, work, disk, report
<1>18. CASE Score
  BY <1>18 DEF Score, Exits, Goto, product, work, disk, report
<1>19. CASE SearchUnavailable
  BY <1>19 DEF SearchUnavailable, Exits, Goto, product, work, disk, report
<1>20. CASE PlanStreams
  BY <1>20 DEF PlanStreams, Exits, Plan, work, Goto, Leave, settings, disk, report, _settle,
        release
<1>21. CASE Encoded
  BY <1>21 DEF Encoded, Exits, Goto, settings, work, disk, report
<1>22. CASE Verified
  BY <1>22 DEF Verified, Exits, Intact, Goto, Leave, settings, product, work, disk, report,
        _settle, release
<1>23. CASE Compared
  BY <1>23 DEF Compared, Exits, Goto, Leave, settings, product, work, disk, report, _settle,
        release
<1>24. CASE Gauged
  BY <1>24 DEF Gauged, Exits, Goto, Leave, settings, product, work, disk, report, _settle,
        release
<1>25. CASE GaugeUnavailable
  BY <1>25 DEF GaugeUnavailable, Exits, Goto, product, work, disk, report
<1>26. CASE Confirmed
  BY <1>26 DEF Confirmed, Exits, Goto, settings, product, work, disk, report
<1>27. CASE ChildFails
  BY <1>27 DEF ChildFails, Caught, SearchFails, work, PreflightFails, NoLibvmaf, Plan,
        GaugeFails, StageFails, Goto, settings, product, Leave, disk, report, _settle,
        release
<1>28. CASE Wedge
  BY <1>28 DEF Wedge, work, settings, product, disk, report
<1>29. CASE Deadline
  BY <1>29 DEF Deadline, Terminate, work, settings, product, disk, report
<1>30. CASE Reap
  BY <1>30 DEF Reap, Raise, work, Caught, StageFails, Leave, settings, product,
        PreflightFails, NoLibvmaf, SearchFails, Plan, GaugeFails, _settle, release, Goto,
        disk, report
<1>31. CASE Abort
  BY <1>31 DEF Abort, block, work, settings, product, disk, report, Terminate
<1>32. CASE AbortAgain
  BY <1>32 DEF AbortAgain, Leave, work, settings, product, _settle, release
<1>33. CASE Restart
  BY <1>33 DEF Restart, block, work, settings, product, disk, report
<1>34. CASE Crash
  BY <1>34 DEF Crash, work, settings, product, disk
<1>35. CASE UNCHANGED vars
  BY <1>35 DEF vars, disk, work, report, block, settings, product
<1> QED BY <1>1, <1>2, <1>3, <1>4, <1>5, <1>6, <1>7, <1>8, <1>9, <1>10, <1>11, <1>12, <1>13,
        <1>14, <1>15, <1>16, <1>17, <1>18, <1>19, <1>20, <1>21, <1>22, <1>23, <1>24, <1>25,
        <1>26, <1>27, <1>28, <1>29, <1>30, <1>31, <1>32, <1>33, <1>34, <1>35
     DEF Next, Agent, StageReturns

\* Every step keeps the local file in line with the await: only Swap makes it unconfirmed,
\* only Finish replaced, and Leave rolls an unconfirmed one back (SourceOwnership.__aexit__).
LEMMA FileStep ==
    ASSUME FlowInv, FileInv, [Next]_vars
    PROVE  FileInv'
<1> USE DEF FlowInv, FileInv, Pipeline, Around, Stage
<1>1. CASE Claim
  BY <1>1 DEF Claim, block
<1>2. CASE Decline
  BY <1>2 DEF Decline, Leave, work, settings, product, _settle, release
<1>3. CASE _try_dedup
  BY <1>3 DEF _try_dedup, Leave, work, settings, product, _settle, release
<1>4. CASE StartFetch
  BY <1>4 DEF StartFetch, Goto, work, settings, product, disk, report
<1>5. CASE FetchFails
  BY <1>5 DEF FetchFails, release, block, work, settings, product, disk
<1>6. CASE reserve
  BY <1>6 DEF reserve, block, work, settings, product, disk, report
<1>7. CASE Downloaded
  BY <1>7 DEF Downloaded, Goto, work, settings, product, disk, report
<1>8. CASE StartPipeline
  BY <1>8 DEF StartPipeline, Leave, Goto, NeedsProbe, work, settings, product, _settle,
        release, disk, report
<1>9. CASE Lock
  BY <1>9 DEF Lock, Leave, Goto, work, settings, product, _settle, release, disk, report
<1>10. CASE Swap
  BY <1>10 DEF Swap, Leave, report, work, settings, product, _settle, release
<1>11. CASE SwapFails
  BY <1>11 DEF SwapFails, Leave, work, settings, product, _settle, release
<1>12. CASE Finish
  BY <1>12 DEF Finish, release, report, block, work, settings, product
<1>13. CASE Commit
  BY <1>13 DEF Commit, release, block, work, settings, product
<1>14. CASE PreflightOK
  BY <1>14 DEF PreflightOK, Exits, Leave, Goto, product, work, _settle, release, disk,
        report
<1>15. CASE Inventory
  BY <1>15 DEF Inventory, Exits, Goto, settings, product, work, disk, report
<1>16. CASE HasLibvmaf
  BY <1>16 DEF HasLibvmaf, Exits, Goto, settings, product, work, disk, report
<1>17. CASE Sampled
  BY <1>17 DEF Sampled, Exits, Goto, settings, product, work, disk, report
<1>18. CASE Score
  BY <1>18 DEF Score, Exits, Goto, product, work, disk, report
<1>19. CASE SearchUnavailable
  BY <1>19 DEF SearchUnavailable, Exits, Goto, product, work, disk, report
<1>20. CASE PlanStreams
  BY <1>20 DEF PlanStreams, Exits, Plan, work, Goto, Leave, settings, disk, report, _settle,
        release
<1>21. CASE Encoded
  BY <1>21 DEF Encoded, Exits, Goto, settings, work, disk, report
<1>22. CASE Verified
  BY <1>22 DEF Verified, Exits, Intact, Goto, Leave, settings, product, work, disk, report,
        _settle, release
<1>23. CASE Compared
  BY <1>23 DEF Compared, Exits, Goto, Leave, settings, product, work, disk, report, _settle,
        release
<1>24. CASE Gauged
  BY <1>24 DEF Gauged, Exits, Goto, Leave, settings, product, work, disk, report, _settle,
        release
<1>25. CASE GaugeUnavailable
  BY <1>25 DEF GaugeUnavailable, Exits, Goto, product, work, disk, report
<1>26. CASE Confirmed
  BY <1>26 DEF Confirmed, Exits, Goto, settings, product, work, disk, report
<1>27. CASE ChildFails
  BY <1>27 DEF ChildFails, Caught, SearchFails, work, PreflightFails, NoLibvmaf, Plan,
        GaugeFails, StageFails, Goto, settings, product, Leave, disk, report, _settle,
        release
<1>28. CASE Wedge
  BY <1>28 DEF Wedge, work, settings, product, disk, report
<1>29. CASE Deadline
  BY <1>29 DEF Deadline, Terminate, work, settings, product, disk, report
<1>30. CASE Reap
  BY <1>30 DEF Reap, Raise, work, Caught, StageFails, Leave, settings, product,
        PreflightFails, NoLibvmaf, SearchFails, Plan, GaugeFails, _settle, release, Goto,
        disk, report
<1>31. CASE Abort
  BY <1>31 DEF Abort, block, work, settings, product, disk, report, Terminate
<1>32. CASE AbortAgain
  BY <1>32 DEF AbortAgain, Leave, work, settings, product, _settle, release
<1>33. CASE Restart
  BY <1>33 DEF Restart, block, work, settings, product, disk, report
<1>34. CASE Crash
  BY <1>34 DEF Crash, work, settings, product, disk
<1>35. CASE UNCHANGED vars
  BY <1>35 DEF vars, disk, work, report, block, settings, product
<1> QED BY <1>1, <1>2, <1>3, <1>4, <1>5, <1>6, <1>7, <1>8, <1>9, <1>10, <1>11, <1>12, <1>13,
        <1>14, <1>15, <1>16, <1>17, <1>18, <1>19, <1>20, <1>21, <1>22, <1>23, <1>24, <1>25,
        <1>26, <1>27, <1>28, <1>29, <1>30, <1>31, <1>32, <1>33, <1>34, <1>35
     DEF Next, Agent, StageReturns

\* No step passes a check of run_pipeline whose condition does not hold.
LEMMA CheckedStep ==
    ASSUME FlowInv, FileInv, CheckedInv, [Next]_vars
    PROVE  CheckedInv'
<1> USE DEF FlowInv, FileInv, CheckedInv, Pipeline, Around, Stage, Intact, Gated
<1>1. CASE Claim
  BY <1>1 DEF Claim, block
<1>2. CASE Decline
  BY <1>2 DEF Decline, Leave, work, settings, product, _settle, release
<1>3. CASE _try_dedup
  BY <1>3 DEF _try_dedup, Leave, work, settings, product, _settle, release
<1>4. CASE StartFetch
  BY <1>4 DEF StartFetch, Goto, work, settings, product, disk, report
<1>5. CASE FetchFails
  BY <1>5 DEF FetchFails, release, block, work, settings, product, disk
<1>6. CASE reserve
  BY <1>6 DEF reserve, block, work, settings, product, disk, report
<1>7. CASE Downloaded
  BY <1>7 DEF Downloaded, Goto, work, settings, product, disk, report
<1>8. CASE StartPipeline
  BY <1>8 DEF StartPipeline, Leave, Goto, NeedsProbe, work, settings, product, _settle,
        release, disk, report
<1>9. CASE Lock
  BY <1>9 DEF Lock, Leave, Goto, work, settings, product, _settle, release, disk, report
<1>10. CASE Swap
  BY <1>10 DEF Swap, Leave, report, work, settings, product, _settle, release
<1>11. CASE SwapFails
  BY <1>11 DEF SwapFails, Leave, work, settings, product, _settle, release
<1>12. CASE Finish
  BY <1>12 DEF Finish, release, report, block, work, settings, product
<1>13. CASE Commit
  BY <1>13 DEF Commit, release, block, work, settings, product
<1>14. CASE PreflightOK
  BY <1>14 DEF PreflightOK, Exits, Leave, Goto, product, work, _settle, release, disk,
        report
<1>15. CASE Inventory
  BY <1>15 DEF Inventory, Exits, Goto, settings, product, work, disk, report
<1>16. CASE HasLibvmaf
  BY <1>16 DEF HasLibvmaf, Exits, Goto, settings, product, work, disk, report
<1>17. CASE Sampled
  BY <1>17 DEF Sampled, Exits, Goto, settings, product, work, disk, report
<1>18. CASE Score
  BY <1>18 DEF Score, Exits, Goto, product, work, disk, report
<1>19. CASE SearchUnavailable
  BY <1>19 DEF SearchUnavailable, Exits, Goto, product, work, disk, report
<1>20. CASE PlanStreams
  BY <1>20 DEF PlanStreams, Exits, Plan, work, Goto, Leave, settings, disk, report, _settle,
        release
<1>21. CASE Encoded
  BY <1>21 DEF Encoded, Exits, Goto, settings, work, disk, report
<1>22. CASE Verified
  BY <1>22 DEF Verified, Exits, Goto, Leave, settings, product, work, disk, report, _settle,
        release
<1>23. CASE Compared
  BY <1>23 DEF Compared, Exits, Goto, Leave, settings, product, work, disk, report, _settle,
        release
<1>24. CASE Gauged
  BY <1>24 DEF Gauged, Exits, Goto, Leave, settings, product, work, disk, report, _settle,
        release
<1>25. CASE GaugeUnavailable
  BY <1>25 DEF GaugeUnavailable, Exits, Goto, product, work, disk, report
<1>26. CASE Confirmed
  BY <1>26 DEF Confirmed, Exits, Goto, settings, product, work, disk, report
<1>27. CASE ChildFails
  BY <1>27 DEF ChildFails, Caught, SearchFails, work, PreflightFails, NoLibvmaf, Plan,
        GaugeFails, StageFails, Goto, settings, product, Leave, disk, report, _settle,
        release
<1>28. CASE Wedge
  BY <1>28 DEF Wedge, work, settings, product, disk, report
<1>29. CASE Deadline
  BY <1>29 DEF Deadline, Terminate, work, settings, product, disk, report
<1>30. CASE Reap
  BY <1>30 DEF Reap, Raise, work, Caught, StageFails, Leave, settings, product,
        PreflightFails, NoLibvmaf, SearchFails, Plan, GaugeFails, _settle, release, Goto,
        disk, report
<1>31. CASE Abort
  BY <1>31 DEF Abort, block, work, settings, product, disk, report, Terminate
<1>32. CASE AbortAgain
  BY <1>32 DEF AbortAgain, Leave, work, settings, product, _settle, release
<1>33. CASE Restart
  BY <1>33 DEF Restart, block, work, settings, product, disk, report
<1>34. CASE Crash
  BY <1>34 DEF Crash, work, settings, product, disk
<1>35. CASE UNCHANGED vars
  BY SMTT(30), <1>35 DEF vars, disk, work, report, block, settings, product
<1> QED BY <1>1, <1>2, <1>3, <1>4, <1>5, <1>6, <1>7, <1>8, <1>9, <1>10, <1>11, <1>12, <1>13,
        <1>14, <1>15, <1>16, <1>17, <1>18, <1>19, <1>20, <1>21, <1>22, <1>23, <1>24, <1>25,
        <1>26, <1>27, <1>28, <1>29, <1>30, <1>31, <1>32, <1>33, <1>34, <1>35
     DEF Next, Agent, StageReturns

\* No step reaches the encode without a plan that covers the source, or the swap without an
\* output that covers the plan (_check_plan_covers_source, _verify_stream_inventory).
LEMMA StreamsStep ==
    ASSUME FlowInv, FileInv, StreamsInv, [Next]_vars
    PROVE  StreamsInv'
<1> USE DEF FlowInv, FileInv, StreamsInv, Pipeline, Around, Stage, Planned, Listed
<1>1. CASE Claim
  BY <1>1 DEF Claim, block
<1>2. CASE Decline
  BY <1>2 DEF Decline, Leave, work, settings, product, _settle, release
<1>3. CASE _try_dedup
  BY <1>3 DEF _try_dedup, Leave, work, settings, product, _settle, release
<1>4. CASE StartFetch
  BY <1>4 DEF StartFetch, Goto, work, settings, product, disk, report
<1>5. CASE FetchFails
  BY <1>5 DEF FetchFails, release, block, work, settings, product, disk
<1>6. CASE reserve
  BY <1>6 DEF reserve, block, work, settings, product, disk, report
<1>7. CASE Downloaded
  BY <1>7 DEF Downloaded, Goto, work, settings, product, disk, report
<1>8. CASE StartPipeline
  BY <1>8 DEF StartPipeline, Leave, Goto, NeedsProbe, work, settings, product, _settle,
        release, disk, report
<1>9. CASE Lock
  BY <1>9 DEF Lock, Leave, Goto, work, settings, product, _settle, release, disk, report
<1>10. CASE Swap
  BY <1>10 DEF Swap, Leave, report, work, settings, product, _settle, release
<1>11. CASE SwapFails
  BY <1>11 DEF SwapFails, Leave, work, settings, product, _settle, release
<1>12. CASE Finish
  BY <1>12 DEF Finish, release, report, block, work, settings, product
<1>13. CASE Commit
  BY <1>13 DEF Commit, release, block, work, settings, product
<1>14. CASE PreflightOK
  BY <1>14 DEF PreflightOK, Exits, Leave, Goto, product, work, _settle, release, disk,
        report
<1>15. CASE Inventory
  BY <1>15 DEF Inventory, Exits, Goto, settings, product, work, disk, report
<1>16. CASE HasLibvmaf
  BY <1>16 DEF HasLibvmaf, Exits, Goto, settings, product, work, disk, report
<1>17. CASE Sampled
  BY <1>17 DEF Sampled, Exits, Goto, settings, product, work, disk, report
<1>18. CASE Score
  BY <1>18 DEF Score, Exits, Goto, product, work, disk, report
<1>19. CASE SearchUnavailable
  BY <1>19 DEF SearchUnavailable, Exits, Goto, product, work, disk, report
<1>20. CASE PlanStreams
  BY <1>20 DEF PlanStreams, Exits, Plan, work, Goto, Leave, settings, disk, report, _settle,
        release
<1>21. CASE Encoded
  <2>1. out'.streams \in Muxed(plan)
    BY <1>21 DEF Encoded, Output
  <2> HIDE DEF Planned, Listed
  <2>2. Planned => Planned'
    BY <1>21 DEF Encoded, Exits, Goto, settings, work, Planned
  <2> QED BY <1>21, <2>1, <2>2 DEF Encoded, Exits, Goto, settings, work, disk, report
<1>22. CASE Verified
  BY <1>22 DEF Verified, Exits, Intact, Goto, Leave, settings, product, work, disk, report,
        _settle, release
<1>23. CASE Compared
  BY <1>23 DEF Compared, Exits, Goto, Leave, settings, product, work, disk, report, _settle,
        release
<1>24. CASE Gauged
  BY <1>24 DEF Gauged, Exits, Goto, Leave, settings, product, work, disk, report, _settle,
        release
<1>25. CASE GaugeUnavailable
  BY <1>25 DEF GaugeUnavailable, Exits, Goto, product, work, disk, report
<1>26. CASE Confirmed
  BY <1>26 DEF Confirmed, Exits, Goto, settings, product, work, disk, report
<1>27. CASE ChildFails
  BY <1>27 DEF ChildFails, Caught, SearchFails, work, PreflightFails, NoLibvmaf, Plan,
        GaugeFails, StageFails, Goto, settings, product, Leave, disk, report, _settle,
        release
<1>28. CASE Wedge
  BY <1>28 DEF Wedge, work, settings, product, disk, report
<1>29. CASE Deadline
  BY <1>29 DEF Deadline, Terminate, work, settings, product, disk, report
<1>30. CASE Reap
  BY <1>30 DEF Reap, Raise, work, Caught, StageFails, Leave, settings, product,
        PreflightFails, NoLibvmaf, SearchFails, Plan, GaugeFails, _settle, release, Goto,
        disk, report
<1>31. CASE Abort
  BY <1>31 DEF Abort, block, work, settings, product, disk, report, Terminate
<1>32. CASE AbortAgain
  BY <1>32 DEF AbortAgain, Leave, work, settings, product, _settle, release
<1>33. CASE Restart
  BY <1>33 DEF Restart, block, work, settings, product, disk, report
<1>34. CASE Crash
  BY <1>34 DEF Crash, work, settings, product, disk
<1>35. CASE UNCHANGED vars
  BY <1>35 DEF vars, disk, work, report, block, settings, product
<1> QED BY <1>1, <1>2, <1>3, <1>4, <1>5, <1>6, <1>7, <1>8, <1>9, <1>10, <1>11, <1>12, <1>13,
        <1>14, <1>15, <1>16, <1>17, <1>18, <1>19, <1>20, <1>21, <1>22, <1>23, <1>24, <1>25,
        <1>26, <1>27, <1>28, <1>29, <1>30, <1>31, <1>32, <1>33, <1>34, <1>35
     DEF Next, Agent, StageReturns

\* Whichever step ends a job, its report fits the file it leaves behind (_process_job).
LEMMA ReportStep ==
    ASSUME FlowInv, FileInv, ReportInv, [Next]_vars
    PROVE  ReportInv'
<1> USE DEF FlowInv, FileInv, ReportInv, Pipeline, Around, Stage
<1>1. CASE Claim
  BY <1>1 DEF Claim, block
<1>2. CASE Decline
  BY <1>2 DEF Decline, Leave, work, settings, product, _settle, release
<1>3. CASE _try_dedup
  BY <1>3 DEF _try_dedup, Leave, work, settings, product, _settle, release
<1>4. CASE StartFetch
  BY <1>4 DEF StartFetch, Goto, work, settings, product, disk, report
<1>5. CASE FetchFails
  BY <1>5 DEF FetchFails, release, block, work, settings, product, disk
<1>6. CASE reserve
  BY <1>6 DEF reserve, block, work, settings, product, disk, report
<1>7. CASE Downloaded
  BY <1>7 DEF Downloaded, Goto, work, settings, product, disk, report
<1>8. CASE StartPipeline
  BY <1>8 DEF StartPipeline, Leave, Goto, NeedsProbe, work, settings, product, _settle,
        release, disk, report
<1>9. CASE Lock
  BY <1>9 DEF Lock, Leave, Goto, work, settings, product, _settle, release, disk, report
<1>10. CASE Swap
  BY <1>10 DEF Swap, Leave, report, work, settings, product, _settle, release
<1>11. CASE SwapFails
  BY <1>11 DEF SwapFails, Leave, work, settings, product, _settle, release
<1>12. CASE Finish
  BY <1>12 DEF Finish, release, report, block, work, settings, product
<1>13. CASE Commit
  BY <1>13 DEF Commit, release, block, work, settings, product
<1>14. CASE PreflightOK
  BY <1>14 DEF PreflightOK, Exits, Leave, Goto, product, work, _settle, release, disk,
        report
<1>15. CASE Inventory
  BY <1>15 DEF Inventory, Exits, Goto, settings, product, work, disk, report
<1>16. CASE HasLibvmaf
  BY <1>16 DEF HasLibvmaf, Exits, Goto, settings, product, work, disk, report
<1>17. CASE Sampled
  BY <1>17 DEF Sampled, Exits, Goto, settings, product, work, disk, report
<1>18. CASE Score
  BY <1>18 DEF Score, Exits, Goto, product, work, disk, report
<1>19. CASE SearchUnavailable
  BY <1>19 DEF SearchUnavailable, Exits, Goto, product, work, disk, report
<1>20. CASE PlanStreams
  BY <1>20 DEF PlanStreams, Exits, Plan, work, Goto, Leave, settings, disk, report, _settle,
        release
<1>21. CASE Encoded
  BY <1>21 DEF Encoded, Exits, Goto, settings, work, disk, report
<1>22. CASE Verified
  BY <1>22 DEF Verified, Exits, Intact, Goto, Leave, settings, product, work, disk, report,
        _settle, release
<1>23. CASE Compared
  BY <1>23 DEF Compared, Exits, Goto, Leave, settings, product, work, disk, report, _settle,
        release
<1>24. CASE Gauged
  BY <1>24 DEF Gauged, Exits, Goto, Leave, settings, product, work, disk, report, _settle,
        release
<1>25. CASE GaugeUnavailable
  BY <1>25 DEF GaugeUnavailable, Exits, Goto, product, work, disk, report
<1>26. CASE Confirmed
  BY <1>26 DEF Confirmed, Exits, Goto, settings, product, work, disk, report
<1>27. CASE ChildFails
  BY <1>27 DEF ChildFails, Caught, SearchFails, work, PreflightFails, NoLibvmaf, Plan,
        GaugeFails, StageFails, Goto, settings, product, Leave, disk, report, _settle,
        release
<1>28. CASE Wedge
  BY <1>28 DEF Wedge, work, settings, product, disk, report
<1>29. CASE Deadline
  BY <1>29 DEF Deadline, Terminate, work, settings, product, disk, report
<1>30. CASE Reap
  BY <1>30 DEF Reap, Raise, work, Caught, StageFails, Leave, settings, product,
        PreflightFails, NoLibvmaf, SearchFails, Plan, GaugeFails, _settle, release, Goto,
        disk, report
<1>31. CASE Abort
  BY <1>31 DEF Abort, block, work, settings, product, disk, report, Terminate
<1>32. CASE AbortAgain
  BY <1>32 DEF AbortAgain, Leave, work, settings, product, _settle, release
<1>33. CASE Restart
  BY <1>33 DEF Restart, block, work, settings, product, disk, report
<1>34. CASE Crash
  BY <1>34 DEF Crash, work, settings, product, disk
<1>35. CASE UNCHANGED vars
  BY <1>35 DEF vars, disk, work, report, block, settings, product
<1> QED BY <1>1, <1>2, <1>3, <1>4, <1>5, <1>6, <1>7, <1>8, <1>9, <1>10, <1>11, <1>12, <1>13,
        <1>14, <1>15, <1>16, <1>17, <1>18, <1>19, <1>20, <1>21, <1>22, <1>23, <1>24, <1>25,
        <1>26, <1>27, <1>28, <1>29, <1>30, <1>31, <1>32, <1>33, <1>34, <1>35
     DEF Next, Agent, StageReturns

\* No step gives the job, the settings or the report a value of another kind.
LEMMA DomainStep ==
    ASSUME FlowInv, DomainInv, [Next]_vars
    PROVE  DomainInv'
<1> USE DEF FlowInv, DomainInv, Pipeline, Around, Stage
<1>1. CASE Claim
  <2>1. job' \in Jobs
    BY <1>1, Zenon DEF Claim
  <2>2. backend' \in {"qsv", "cpu"}
    BY <1>1 DEF Claim
  <2> QED BY <1>1, <2>1, <2>2 DEF Claim, block
<1>2. CASE Decline
  BY <1>2 DEF Decline, Leave, work, settings, product, _settle, release
<1>3. CASE _try_dedup
  BY <1>3 DEF _try_dedup, Leave, work, settings, product, _settle, release
<1>4. CASE StartFetch
  BY <1>4 DEF StartFetch, Goto, work, settings, product, disk, report
<1>5. CASE FetchFails
  BY <1>5 DEF FetchFails, release, block, work, settings, product, disk
<1>6. CASE reserve
  BY <1>6 DEF reserve, block, work, settings, product, disk, report
<1>7. CASE Downloaded
  BY <1>7 DEF Downloaded, Goto, work, settings, product, disk, report
<1>8. CASE StartPipeline
  BY <1>8 DEF StartPipeline, Leave, Goto, NeedsProbe, work, settings, product, _settle,
        release, disk, report
<1>9. CASE Lock
  BY <1>9 DEF Lock, Leave, Goto, work, settings, product, _settle, release, disk, report
<1>10. CASE Swap
  BY <1>10 DEF Swap, Leave, report, work, settings, product, _settle, release
<1>11. CASE SwapFails
  BY <1>11 DEF SwapFails, Leave, work, settings, product, _settle, release
<1>12. CASE Finish
  BY <1>12 DEF Finish, release, report, block, work, settings, product
<1>13. CASE Commit
  BY <1>13 DEF Commit, release, block, work, settings, product
<1>14. CASE PreflightOK
  BY <1>14 DEF PreflightOK, Exits, Leave, Goto, product, work, _settle, release, disk,
        report
<1>15. CASE Inventory
  BY <1>15 DEF Inventory, Exits, Goto, settings, product, work, disk, report
<1>16. CASE HasLibvmaf
  BY <1>16 DEF HasLibvmaf, Exits, Goto, settings, product, work, disk, report
<1>17. CASE Sampled
  BY <1>17 DEF Sampled, Exits, Goto, settings, product, work, disk, report
<1>18. CASE Score
  BY <1>18 DEF Score, Exits, Goto, product, work, disk, report
<1>19. CASE SearchUnavailable
  BY <1>19 DEF SearchUnavailable, Exits, Goto, product, work, disk, report
<1>20. CASE PlanStreams
  BY <1>20 DEF PlanStreams, Exits, Plan, work, Goto, Leave, settings, disk, report, _settle,
        release
<1>21. CASE Encoded
  BY <1>21 DEF Encoded, Exits, Goto, settings, work, disk, report
<1>22. CASE Verified
  BY <1>22 DEF Verified, Exits, Intact, Goto, Leave, settings, product, work, disk, report,
        _settle, release
<1>23. CASE Compared
  BY <1>23 DEF Compared, Exits, Goto, Leave, settings, product, work, disk, report, _settle,
        release
<1>24. CASE Gauged
  BY <1>24 DEF Gauged, Exits, Goto, Leave, settings, product, work, disk, report, _settle,
        release
<1>25. CASE GaugeUnavailable
  BY <1>25 DEF GaugeUnavailable, Exits, Goto, product, work, disk, report
<1>26. CASE Confirmed
  BY <1>26 DEF Confirmed, Exits, Goto, settings, product, work, disk, report
<1>27. CASE ChildFails
  BY <1>27 DEF ChildFails, Caught, SearchFails, work, PreflightFails, NoLibvmaf, Plan,
        GaugeFails, StageFails, Goto, settings, product, Leave, disk, report, _settle,
        release
<1>28. CASE Wedge
  BY <1>28 DEF Wedge, work, settings, product, disk, report
<1>29. CASE Deadline
  BY <1>29 DEF Deadline, Terminate, work, settings, product, disk, report
<1>30. CASE Reap
  BY <1>30 DEF Reap, Raise, work, Caught, StageFails, Leave, settings, product,
        PreflightFails, NoLibvmaf, SearchFails, Plan, GaugeFails, _settle, release, Goto,
        disk, report
<1>31. CASE Abort
  BY <1>31 DEF Abort, block, work, settings, product, disk, report, Terminate
<1>32. CASE AbortAgain
  BY <1>32 DEF AbortAgain, Leave, work, settings, product, _settle, release
<1>33. CASE Restart
  BY <1>33 DEF Restart, block, work, settings, product, disk, report
<1>34. CASE Crash
  BY <1>34 DEF Crash, work, settings, product, disk
<1>35. CASE UNCHANGED vars
  BY <1>35 DEF vars, disk, work, report, block, settings, product
<1> QED BY <1>1, <1>2, <1>3, <1>4, <1>5, <1>6, <1>7, <1>8, <1>9, <1>10, <1>11, <1>12, <1>13,
        <1>14, <1>15, <1>16, <1>17, <1>18, <1>19, <1>20, <1>21, <1>22, <1>23, <1>24, <1>25,
        <1>26, <1>27, <1>28, <1>29, <1>30, <1>31, <1>32, <1>33, <1>34, <1>35
     DEF Next, Agent, StageReturns

\* No step makes a flag anything but a flag.
LEMMA FlagStep ==
    ASSUME FlagInv, DomainInv, [Next]_vars
    PROVE  FlagInv'
<1> USE DEF FlagInv
<1>1. CASE Claim
  <2>1. PICK j \in Jobs, s \in Sources, tall \in BOOLEAN, deep \in BOOLEAN :
            media' = [streams |-> s, tall |-> tall, deep |-> deep]
    BY <1>1, Zenon DEF Claim
  <2>2. media'.tall = tall /\ media'.deep = deep
    BY <2>1
  <2>3. vmaf_available' = TRUE /\ uploaded' = FALSE /\ abort_requested' = abort_requested
    BY <1>1 DEF Claim
  <2> QED BY <2>2, <2>3, Zenon
<1>2. CASE Decline
  BY <1>2 DEF Decline, Leave, work, settings, product, _settle, release
<1>3. CASE _try_dedup
  BY <1>3 DEF _try_dedup, Leave, work, settings, product, _settle, release
<1>4. CASE StartFetch
  BY <1>4 DEF StartFetch, Goto, work, settings, product, disk, report
<1>5. CASE FetchFails
  BY <1>5 DEF FetchFails, release, block, work, settings, product, disk
<1>6. CASE reserve
  BY <1>6 DEF reserve, block, work, settings, product, disk, report
<1>7. CASE Downloaded
  BY <1>7 DEF Downloaded, Goto, work, settings, product, disk, report
<1>8. CASE StartPipeline
  BY <1>8, ZenonT(30) DEF StartPipeline, Leave, Goto, NeedsProbe, work, settings, product, _settle,
        release, disk, report
<1>9. CASE Lock
  BY <1>9, ZenonT(30) DEF Lock, Leave, Goto, work, settings, product, _settle, release, disk, report
<1>10. CASE Swap
  <2>1. UNCHANGED <<media, vmaf_available, uploaded>>
    BY <1>10 DEF Swap, Leave, report, work, settings, product
  <2>2. abort_requested' = FALSE \/ abort_requested' = abort_requested
    BY <1>10, Zenon DEF Swap, Leave
  <2> QED BY <2>1, <2>2
<1>11. CASE SwapFails
  BY <1>11 DEF SwapFails, Leave, work, settings, product, _settle, release
<1>12. CASE Finish
  <2>1. UNCHANGED <<media, vmaf_available, uploaded>>
    BY <1>12 DEF Finish, work, settings
  <2>2. abort_requested' = FALSE \/ abort_requested' = abort_requested
    BY <1>12, Zenon DEF Finish
  <2> QED BY <2>1, <2>2
<1>13. CASE Commit
  <2>1. job.s3 \in BOOLEAN
    BY JobsAssumption DEF DomainInv, JobKind
  <2>2. uploaded' \in BOOLEAN
    BY <1>13, <2>1, Zenon DEF Commit
  <2> QED BY <1>13, <2>2 DEF Commit, work, settings
<1>14. CASE PreflightOK
  BY <1>14 DEF PreflightOK, Exits, Leave, Goto, product, work, _settle, release, disk,
        report
<1>15. CASE Inventory
  BY <1>15 DEF Inventory, Exits, Goto, settings, product, work, disk, report
<1>16. CASE HasLibvmaf
  BY <1>16 DEF HasLibvmaf, Exits, Goto, settings, product, work, disk, report
<1>17. CASE Sampled
  BY <1>17 DEF Sampled, Exits, Goto, settings, product, work, disk, report
<1>18. CASE Score
  BY <1>18 DEF Score, Exits, Goto, product, work, disk, report
<1>19. CASE SearchUnavailable
  BY <1>19, ZenonT(30) DEF SearchUnavailable, Exits, Goto, product, work, disk, report
<1>20. CASE PlanStreams
  BY <1>20, ZenonT(30) DEF PlanStreams, Exits, Plan, work, Goto, Leave, settings, disk, report, _settle,
        release
<1>21. CASE Encoded
  BY <1>21 DEF Encoded, Exits, Goto, settings, work, disk, report
<1>22. CASE Verified
  BY <1>22, ZenonT(30) DEF Verified, Exits, Intact, Goto, Leave, settings, product, work, disk, report,
        _settle, release
<1>23. CASE Compared
  BY <1>23, ZenonT(30) DEF Compared, Exits, Goto, Leave, settings, product, work, disk, report, _settle,
        release
<1>24. CASE Gauged
  BY <1>24, ZenonT(30) DEF Gauged, Exits, Goto, Leave, settings, product, work, disk, report, _settle,
        release
<1>25. CASE GaugeUnavailable
  BY <1>25 DEF GaugeUnavailable, Exits, Goto, product, work, disk, report
<1>26. CASE Confirmed
  BY <1>26 DEF Confirmed, Exits, Goto, settings, product, work, disk, report
<1>27. CASE ChildFails
  BY <1>27, ZenonT(30) DEF ChildFails, Caught, SearchFails, work, PreflightFails, NoLibvmaf, Plan,
        GaugeFails, StageFails, Goto, settings, product, Leave, disk, report, _settle,
        release
<1>28. CASE Wedge
  BY <1>28 DEF Wedge, work, settings, product, disk, report
<1>29. CASE Deadline
  BY <1>29 DEF Deadline, Terminate, work, settings, product, disk, report
<1>30. CASE Reap
  BY <1>30, ZenonT(30) DEF Reap, Raise, work, Caught, StageFails, Leave, settings, product,
        PreflightFails, NoLibvmaf, SearchFails, Plan, GaugeFails, _settle, release, Goto,
        disk, report
<1>31. CASE Abort
  BY <1>31 DEF Abort, block, work, settings, product, disk, report, Terminate
<1>32. CASE AbortAgain
  BY <1>32 DEF AbortAgain, Leave, work, settings, product, _settle, release
<1>33. CASE Restart
  BY <1>33 DEF Restart, block, work, settings, product, disk, report
<1>34. CASE Crash
  BY <1>34 DEF Crash, work, settings, product, disk
<1>35. CASE UNCHANGED vars
  BY <1>35 DEF vars, disk, work, report, block, settings, product
<1> QED BY <1>1, <1>2, <1>3, <1>4, <1>5, <1>6, <1>7, <1>8, <1>9, <1>10, <1>11, <1>12, <1>13,
        <1>14, <1>15, <1>16, <1>17, <1>18, <1>19, <1>20, <1>21, <1>22, <1>23, <1>24, <1>25,
        <1>26, <1>27, <1>28, <1>29, <1>30, <1>31, <1>32, <1>33, <1>34, <1>35
     DEF Next, Agent, StageReturns

\* reserve takes a place only while there is one, and everything else gives places back.
LEMMA RoomStep ==
    ASSUME RoomInv, [Next]_vars
    PROVE  RoomInv'
<1> USE CapacityAssumption DEF RoomInv
<1>1. CASE Claim
  BY <1>1 DEF Claim, block
<1>2. CASE Decline
  BY <1>2 DEF Decline, Leave, work, settings, product, _settle, release
<1>3. CASE _try_dedup
  BY <1>3 DEF _try_dedup, Leave, work, settings, product, _settle, release
<1>4. CASE StartFetch
  BY <1>4 DEF StartFetch, Goto, work, settings, product, disk, report
<1>5. CASE FetchFails
  BY <1>5 DEF FetchFails, release, block, work, settings, product, disk
<1>6. CASE reserve
  <2>1. dirs["fetch"] \in Nat /\ dirs["job"] \in Nat /\ dirs["fetch"] + 1 \in 0 .. Capacity
    BY <1>6 DEF reserve
  <2> QED BY <1>6, <2>1 DEF reserve
<1>7. CASE Downloaded
  BY <1>7 DEF Downloaded, Goto, work, settings, product, disk, report
<1>8. CASE StartPipeline
  BY <1>8 DEF StartPipeline, Leave, Goto, NeedsProbe, work, settings, product, _settle,
        release, disk, report
<1>9. CASE Lock
  BY <1>9 DEF Lock, Leave, Goto, work, settings, product, _settle, release, disk, report
<1>10. CASE Swap
  BY <1>10 DEF Swap, Leave, report, work, settings, product, _settle, release
<1>11. CASE SwapFails
  BY <1>11 DEF SwapFails, Leave, work, settings, product, _settle, release
<1>12. CASE Finish
  BY <1>12 DEF Finish, release, report, block, work, settings, product
<1>13. CASE Commit
  BY <1>13 DEF Commit, release, block, work, settings, product
<1>14. CASE PreflightOK
  BY <1>14 DEF PreflightOK, Exits, Leave, Goto, product, work, _settle, release, disk,
        report
<1>15. CASE Inventory
  BY <1>15 DEF Inventory, Exits, Goto, settings, product, work, disk, report
<1>16. CASE HasLibvmaf
  BY <1>16 DEF HasLibvmaf, Exits, Goto, settings, product, work, disk, report
<1>17. CASE Sampled
  BY <1>17 DEF Sampled, Exits, Goto, settings, product, work, disk, report
<1>18. CASE Score
  BY <1>18 DEF Score, Exits, Goto, product, work, disk, report
<1>19. CASE SearchUnavailable
  BY <1>19 DEF SearchUnavailable, Exits, Goto, product, work, disk, report
<1>20. CASE PlanStreams
  BY <1>20 DEF PlanStreams, Exits, Plan, work, Goto, Leave, settings, disk, report, _settle,
        release
<1>21. CASE Encoded
  BY <1>21 DEF Encoded, Exits, Goto, settings, work, disk, report
<1>22. CASE Verified
  BY <1>22 DEF Verified, Exits, Intact, Goto, Leave, settings, product, work, disk, report,
        _settle, release
<1>23. CASE Compared
  BY <1>23 DEF Compared, Exits, Goto, Leave, settings, product, work, disk, report, _settle,
        release
<1>24. CASE Gauged
  BY <1>24 DEF Gauged, Exits, Goto, Leave, settings, product, work, disk, report, _settle,
        release
<1>25. CASE GaugeUnavailable
  BY <1>25 DEF GaugeUnavailable, Exits, Goto, product, work, disk, report
<1>26. CASE Confirmed
  BY <1>26 DEF Confirmed, Exits, Goto, settings, product, work, disk, report
<1>27. CASE ChildFails
  BY <1>27 DEF ChildFails, Caught, SearchFails, work, PreflightFails, NoLibvmaf, Plan,
        GaugeFails, StageFails, Goto, settings, product, Leave, disk, report, _settle,
        release
<1>28. CASE Wedge
  BY <1>28 DEF Wedge, work, settings, product, disk, report
<1>29. CASE Deadline
  BY <1>29 DEF Deadline, Terminate, work, settings, product, disk, report
<1>30. CASE Reap
  BY <1>30 DEF Reap, Raise, work, Caught, StageFails, Leave, settings, product,
        PreflightFails, NoLibvmaf, SearchFails, Plan, GaugeFails, _settle, release, Goto,
        disk, report
<1>31. CASE Abort
  BY <1>31 DEF Abort, block, work, settings, product, disk, report, Terminate
<1>32. CASE AbortAgain
  BY <1>32 DEF AbortAgain, Leave, work, settings, product, _settle, release
<1>33. CASE Restart
  BY <1>33 DEF Restart, NoDirs
<1>34. CASE Crash
  <2>1. PICK young \in 0 .. dirs["fetch"] : dirs' = [dirs EXCEPT !["fetch"] = young]
    BY <1>34 DEF Crash
  <2>2. young \in 0 .. Capacity
    OBVIOUS
  <2> QED BY <2>1, <2>2
<1>35. CASE UNCHANGED vars
  BY <1>35 DEF vars, disk, work, report, block, settings, product
<1> QED BY <1>1, <1>2, <1>3, <1>4, <1>5, <1>6, <1>7, <1>8, <1>9, <1>10, <1>11, <1>12, <1>13,
        <1>14, <1>15, <1>16, <1>17, <1>18, <1>19, <1>20, <1>21, <1>22, <1>23, <1>24, <1>25,
        <1>26, <1>27, <1>28, <1>29, <1>30, <1>31, <1>32, <1>33, <1>34, <1>35
     DEF Next, Agent, StageReturns

\* A plan is made once a job, before its output, and an output is muxed from it.
LEMMA MadeStep ==
    ASSUME FlowInv, MadeInv, [Next]_vars
    PROVE  MadeInv'
<1> USE DEF FlowInv, MadeInv, Pipeline, Around, Stage
<1>1. CASE Claim
  BY <1>1 DEF Claim, block, NoOutput, Pictures
<1>2. CASE Decline
  BY <1>2 DEF Decline, Leave, work, settings, product, _settle, release
<1>3. CASE _try_dedup
  BY <1>3 DEF _try_dedup, Leave, work, settings, product, _settle, release
<1>4. CASE StartFetch
  BY <1>4 DEF StartFetch, Goto, work, settings, product, disk, report
<1>5. CASE FetchFails
  BY <1>5 DEF FetchFails, release, block, work, settings, product, disk
<1>6. CASE reserve
  BY <1>6 DEF reserve, block, work, settings, product, disk, report
<1>7. CASE Downloaded
  BY <1>7 DEF Downloaded, Goto, work, settings, product, disk, report
<1>8. CASE StartPipeline
  BY <1>8 DEF StartPipeline, Leave, Goto, NeedsProbe, work, settings, product, _settle,
        release, disk, report
<1>9. CASE Lock
  BY <1>9 DEF Lock, Leave, Goto, work, settings, product, _settle, release, disk, report
<1>10. CASE Swap
  BY <1>10 DEF Swap, Leave, report, work, settings, product, _settle, release
<1>11. CASE SwapFails
  BY <1>11 DEF SwapFails, Leave, work, settings, product, _settle, release
<1>12. CASE Finish
  BY <1>12 DEF Finish, release, report, block, work, settings, product
<1>13. CASE Commit
  BY <1>13 DEF Commit, release, block, work, settings, product
<1>14. CASE PreflightOK
  BY <1>14 DEF PreflightOK, Exits, Leave, Goto, product, work, _settle, release, disk,
        report
<1>15. CASE Inventory
  BY <1>15 DEF Inventory, Exits, Goto, settings, product, work, disk, report
<1>16. CASE HasLibvmaf
  BY <1>16 DEF HasLibvmaf, Exits, Goto, settings, product, work, disk, report
<1>17. CASE Sampled
  BY <1>17 DEF Sampled, Exits, Goto, settings, product, work, disk, report
<1>18. CASE Score
  BY <1>18 DEF Score, Exits, Goto, product, work, disk, report
<1>19. CASE SearchUnavailable
  BY <1>19 DEF SearchUnavailable, Exits, Goto, product, work, disk, report
<1>20. CASE PlanStreams
  BY <1>20 DEF PlanStreams, Exits, Plan, work, Goto, Leave, settings, disk, report, _settle,
        release
<1>21. CASE Encoded
  <2>1. out'.streams \in Muxed(plan) /\ out'.picture \in Pictures
    BY <1>21 DEF Encoded, Output
  <2> QED BY <1>21, <2>1 DEF Encoded, Exits, Goto, settings, work
<1>22. CASE Verified
  BY <1>22 DEF Verified, Exits, Intact, Goto, Leave, settings, product, work, disk, report,
        _settle, release
<1>23. CASE Compared
  BY <1>23 DEF Compared, Exits, Goto, Leave, settings, product, work, disk, report, _settle,
        release
<1>24. CASE Gauged
  BY <1>24 DEF Gauged, Exits, Goto, Leave, settings, product, work, disk, report, _settle,
        release
<1>25. CASE GaugeUnavailable
  BY <1>25 DEF GaugeUnavailable, Exits, Goto, product, work, disk, report
<1>26. CASE Confirmed
  BY <1>26 DEF Confirmed, Exits, Goto, settings, product, work, disk, report
<1>27. CASE ChildFails
  BY <1>27 DEF ChildFails, Caught, SearchFails, work, PreflightFails, NoLibvmaf, Plan,
        GaugeFails, StageFails, Goto, settings, product, Leave, disk, report, _settle,
        release
<1>28. CASE Wedge
  BY <1>28 DEF Wedge, work, settings, product, disk, report
<1>29. CASE Deadline
  BY <1>29 DEF Deadline, Terminate, work, settings, product, disk, report
<1>30. CASE Reap
  BY <1>30 DEF Reap, Raise, work, Caught, StageFails, Leave, settings, product,
        PreflightFails, NoLibvmaf, SearchFails, Plan, GaugeFails, _settle, release, Goto,
        disk, report
<1>31. CASE Abort
  BY <1>31 DEF Abort, block, work, settings, product, disk, report, Terminate
<1>32. CASE AbortAgain
  BY <1>32 DEF AbortAgain, Leave, work, settings, product, _settle, release
<1>33. CASE Restart
  BY <1>33 DEF Restart, block, work, settings, product, disk, report
<1>34. CASE Crash
  BY <1>34 DEF Crash, work, settings, product, disk
<1>35. CASE UNCHANGED vars
  BY <1>35 DEF vars, disk, work, report, block, settings, product
<1> QED BY <1>1, <1>2, <1>3, <1>4, <1>5, <1>6, <1>7, <1>8, <1>9, <1>10, <1>11, <1>12, <1>13,
        <1>14, <1>15, <1>16, <1>17, <1>18, <1>19, <1>20, <1>21, <1>22, <1>23, <1>24, <1>25,
        <1>26, <1>27, <1>28, <1>29, <1>30, <1>31, <1>32, <1>33, <1>34, <1>35
     DEF Next, Agent, StageReturns

\* A step of a job takes the search one round further, resets it or leaves it alone; an
\* unfinished search has settled no quality (run_pipeline, find_quality_for_target).
LEMMA SearchRound ==
    ASSUME [Next]_vars
    PROVE  \/ SearchReset /\ quality' = NoQuality
           \/ UNCHANGED searchVars /\ quality' = quality
           \/ SearchNext /\ IF SearchOver' THEN quality' = best' ELSE quality' = quality
<1>1. CASE Claim
  BY <1>1 DEF Claim
<1>2. CASE Score
  BY <1>2 DEF Score, SearchNext
<1>3. CASE Agent
  BY <1>3 DEF Agent, Decline, _try_dedup, StartFetch, FetchFails, reserve, Downloaded,
     StartPipeline, Lock, Swap, SwapFails, Finish, Commit, settings
<1>4. CASE StageReturns /\ ~Score
  BY <1>4 DEF StageReturns, PreflightOK, Inventory, HasLibvmaf, Sampled, SearchUnavailable,
     PlanStreams, Plan, Encoded, Verified, Compared, Gauged, GaugeUnavailable, Confirmed,
     settings
<1>5. ASSUME Caught PROVE UNCHANGED <<quality, searchVars>>
  BY <1>5 DEF Caught, PreflightFails, NoLibvmaf, SearchFails, Plan, GaugeFails, StageFails,
     settings
<1>6. CASE ChildFails
  BY <1>5, <1>6 DEF ChildFails, SearchFails, settings
<1>7. CASE Reap
  BY <1>5, <1>7 DEF Reap, Raise, StageFails, settings
<1>8. CASE Wedge \/ Deadline \/ Abort \/ AbortAgain \/ Restart \/ Crash
  BY <1>8 DEF Wedge, Deadline, Abort, AbortAgain, Restart, Crash, Terminate, settings
<1>9. CASE UNCHANGED vars
  BY <1>9 DEF vars
<1> QED
  BY <1>1, <1>2, <1>3, <1>4, <1>6, <1>7, <1>8, <1>9 DEF Next

\* The search stays exact across the jobs of a worker.
LEMMA SearchKept ==
    ASSUME SearchInv, [Next]_vars
    PROVE  SearchInv'
<1>1. CASE SearchReset
  BY <1>1, RangeAssumption DEF SearchReset, SearchInv, First, NoQuality
<1>2. CASE UNCHANGED searchVars \/ SearchNext
  BY <1>2, SearchStep
<1> QED BY <1>1, <1>2, SearchRound

\* A quality, once settled, stays what the finished search said: nothing moves a search
\* that is over but the next claim, which forgets the quality too.
LEMMA QualityStep ==
    ASSUME QualitySettled, [Next]_vars
    PROVE  QualitySettled'
<1>1. CASE SearchReset /\ quality' = NoQuality
  BY <1>1 DEF QualitySettled, NoQuality
<1>2. CASE UNCHANGED searchVars /\ quality' = quality
  BY <1>2 DEF QualitySettled, NoQuality, searchVars, SearchOver, First
<1>3. CASE SearchNext /\ IF SearchOver' THEN quality' = best' ELSE quality' = quality
  <2>1. ~SearchOver
    BY <1>3 DEF SearchNext, Meets, Misses
  <2>2. quality = NoQuality
    BY <2>1 DEF QualitySettled
  <2> QED BY <1>3, <2>2 DEF QualitySettled, NoQuality
<1> QED BY <1>1, <1>2, <1>3, SearchRound

-----------------------------------------------------------------------------
\* The inductive invariant of one worker's jobs, for every library, job row, quality range
\* and scratch disk, whatever children, deadlines, aborts and crashes do.
THEOREM JobInvariant == Spec => []EncodeInv
<1>1. Init => EncodeInv
  <2> SUFFICES ASSUME Init PROVE EncodeInv
    OBVIOUS
  <2>1. FlowInv /\ FileInv
    BY DEF Init, FlowInv, FileInv, Pipeline, Stage, Around
  <2>2. CheckedInv /\ StreamsInv /\ ReportInv
    BY DEF Init, CheckedInv, StreamsInv, ReportInv, Pipeline, Stage
  <2>3. SearchInv /\ QualitySettled
    BY RangeAssumption DEF Init, SearchInit, SearchInv, First, NoQuality, QualitySettled
  <2>4. DomainInv /\ FlagInv
    BY DEF Init, DomainInv, FlagInv
  <2>5. RoomInv /\ MadeInv
    BY CapacityAssumption DEF Init, RoomInv, NoDirs, MadeInv, NoOutput, Pictures
  <2> QED BY <2>1, <2>2, <2>3, <2>4, <2>5 DEF EncodeInv
<1>2. EncodeInv /\ [Next]_vars => EncodeInv'
  BY FlowStep, FileStep, CheckedStep, StreamsStep, ReportStep, SearchKept, QualityStep,
     DomainStep, FlagStep, RoomStep, MadeStep
     DEF EncodeInv
<1> QED BY <1>1, <1>2, PTL DEF Spec

\* The state of a job has the shape the statements give it: the plan lists streams of the
\* source, each once, the output has none that was not planned, the quality is in the
\* search range and the scratch disk never holds more downloads than it has room for.
THEOREM EncodeTypes == Spec => []TypeOK
<1>1. EncodeInv => TypeOK
  <2> SUFFICES ASSUME EncodeInv PROVE TypeOK
    OBVIOUS
  <2> USE DEF EncodeInv
  <2> DEFINE s == media.streams
  <2>1. s \in Sources /\ s \in Seq(StreamKind) /\ "video" \in Range(s)
    BY SourcesAssumption DEF StreamsInv
  <2>2. quality \in {NoQuality} \cup Lo .. Hi
    BY RangeAssumption DEF SearchInv, QualitySettled, NoQuality
  <2>3. plan \in Seq(Indexes(s)) /\ IsInjective(plan)
    <3>1. CASE plan = <<>>
      BY <3>1 DEF IsInjective
    <3>2. CASE plan # <<>>
      <4>1. PICK drop \in {{}, unmuxable_subtitle_indexes(s)} : plan = plan_streams(s, drop)
        BY <3>2 DEF MadeInv
      <4> QED BY <2>1, <4>1, PlanShape
    <3> QED BY <3>1, <3>2
  <2>4. Range(plan) \subseteq Indexes(s)
    BY <2>3 DEF Range
  <2>5. Range(out.streams) \subseteq Range(plan) \cup {0}
    <3>1. CASE out.streams = <<>>
      BY <3>1 DEF Range
    <3>2. CASE out.streams # <<>>
      <4>1. out.streams \in Muxed(plan)
        BY <3>2 DEF MadeInv
      <4>2. plan \in Seq(Int)
        <5> HIDE DEF s
        <5> QED BY <2>3 DEF Indexes
      <4> QED BY <4>1, <4>2, MuxedRange
    <3> QED BY <3>1, <3>2
  <2>6. ended \in Pipeline \cup {"none", "dedup", "recover", "head", "download", "fetched", "commit"}
    BY DEF DomainInv, Around
  <2>7. /\ pc \in Pipeline \cup {"idle", "dedup", "recover", "head", "download", "fetched", "commit"}
        /\ (child # "none") = (pc \in Stage) /\ (child = "term") = (why # "none")
    BY DEF FlowInv, Around
  <2> QED BY <2>1, <2>2, <2>3, <2>4, <2>5, <2>6, <2>7
          DEF TypeOK, FlowInv, FileInv, DomainInv, FlagInv, RoomInv, MadeInv
<1> QED BY <1>1, JobInvariant, PTL

\* What is delivered passed every check of run_pipeline, whichever probe failed, timed out
\* or was aborted: right codec, height and duration, smaller, not scaled up, and scored
\* above the floors unless the worker could not gauge at all.
THEOREM DeliveredIsGood == Spec => []KeptIsGood
<1>1. EncodeInv => KeptIsGood
  BY DEF EncodeInv, CheckedInv, KeptIsGood, Delivered, Gated
<1> QED BY <1>1, JobInvariant, PTL

\* Whatever is delivered was encoded from a plan that carries or names every stream, and its
\* inventory held what that plan promised.  No probe that fails and no abort leads around
\* either check (_check_plan_covers_source, _verify_stream_inventory).
THEOREM InventoryBinds == Spec => [](Delivered => Planned /\ Listed)
<1>1. EncodeInv => (Delivered => Planned /\ Listed)
  BY DEF EncodeInv, StreamsInv, Delivered
<1> QED BY <1>1, JobInvariant, PTL

\* For a library of any files: the output that replaces a file, or is uploaded for it, holds
\* every stream of the source but data streams and subtitles without a codec, and the
\* re-encoded primary is its first (plan_streams, _check_plan_covers_source,
\* _verify_stream_inventory).
THEOREM EveryStreamDelivered == Spec => []NoStreamLost
<1>1. EncodeInv => NoStreamLost
  <2> SUFFICES ASSUME EncodeInv, Delivered
               PROVE  /\ \A i \in Indexes(media.streams) :
                             media.streams[i] \in {"data", "unnamed"} \/ i \in Range(out.streams)
                      /\ out.streams[1] = primary_video_index(media.streams)
    BY DEF NoStreamLost
  <2> DEFINE s == media.streams
  <2>1. Planned /\ Listed /\ out.streams \in Muxed(plan) /\ s \in Sources
    BY DEF EncodeInv, StreamsInv, Delivered
  <2>2. s \in Seq(StreamKind) /\ "video" \in Range(s)
    BY <2>1, SourcesAssumption
  <2>3. PICK drop \in {{}, unmuxable_subtitle_indexes(s)} : plan = plan_streams(s, drop)
    BY <2>1 DEF Planned
  <2> HIDE DEF s
  <2>4. /\ plan \in Seq(Indexes(s)) /\ Len(plan) \in Nat \ {0}
        /\ plan[1] = primary_video_index(s)
        /\ \A n \in 2 .. Len(plan) : plan[n] # primary_video_index(s)
        /\ PlanCovers(s, drop)
    BY <2>2, <2>3, PlanShape
  <2>5. Range(plan) \subseteq Range(out.streams) /\ out.streams[1] = primary_video_index(s)
    BY <2>1, <2>2, <2>4, InventoryFinds DEF Listed, s
  <2>6. \A i \in Omitted(s, drop) : s[i] \in {"data", "unnamed"}
    BY <2>3 DEF Omitted, unmuxable_subtitle_indexes
  <2>7. \A i \in Indexes(s) : i \in Range(plan) \/ i \in Omitted(s, drop)
    BY <2>3, <2>4 DEF PlanCovers
  <2> QED BY <2>5, <2>6, <2>7 DEF s
<1> QED BY <1>1, JobInvariant, PTL

\* The coverage check of run_pipeline never refuses a plan that plan_streams made, with the
\* subtitle probe's answer or without it: it is there for a change of the planner.
THEOREM PlannerCovers ==
    \A s \in Sources : PlanCovers(s, {}) /\ PlanCovers(s, unmuxable_subtitle_indexes(s))
  BY SourcesAssumption, PlanShape

\* What _process_job reports is what happened to the file.
THEOREM ReportsAreHonest == Spec => []OutcomeHonest
<1>1. EncodeInv => OutcomeHonest
  BY DEF EncodeInv, ReportInv, OutcomeHonest, Delivered
<1> QED BY <1>1, JobInvariant, PTL

\* No ffmpeg outlives its job (managed_subprocess, terminate_process_tree).
THEOREM NoChildOutlivesJob == Spec => []NoWriterLeft
<1>1. EncodeInv => NoWriterLeft
  BY DEF EncodeInv, FlowInv, NoWriterLeft, Stage
<1> QED BY <1>1, JobInvariant, PTL

\* The encode runs at the preset or at what a finished search returned.
THEOREM QualityFromFinishedSearch == Spec => []QualitySettled
<1>1. EncodeInv => QualitySettled
  BY DEF EncodeInv
<1> QED BY <1>1, JobInvariant, PTL

\* Inside a job, as by itself, the search returns a quality that was seen to meet the
\* target and cannot be raised (find_quality_for_target).
THEOREM SearchExactInJobs == Spec => []SearchExact
<1>1. EncodeInv => SearchExact
  BY InvIsExact DEF EncodeInv
<1> QED BY <1>1, JobInvariant, PTL
=============================================================================
