------------------------------- MODULE Stats --------------------------------
(***************************************************************************)
(* include/feed/stats.hpp: LatencyHistogram, SampleRecorder and            *)
(* ThroughputTracker, fed with the same samples by the measuring thread    *)
(* while a monitor thread calls percentile().  The histogram's fields are  *)
(* relaxed atomics: every fetch_add and every load is a step of its own,   *)
(* in program order.  That is what x86 does (locked additions, loads not   *)
(* reordered); the language allows a reader to see total_ before counts_,  *)
(* as in the mutant RecordStepsTotalFirst, which is not covered.  The      *)
(* other two classes are used by one thread.                               *)
(*                                                                         *)
(* Data kept: p is a ratio and p * n is exact, where the code rounds a     *)
(* double.                                                                 *)
(***************************************************************************)
EXTENDS Integers, Sequences, FiniteSetsExt

CONSTANTS
    kBuckets,       \* LatencyHistogram::kBuckets (64)
    Samples,        \* latencies that are recorded
    Percentiles,    \* the p asked for, as [num, den]
    MaxSamples,     \* bound on the number of samples
    kWindowSec, kRing,   \* ThroughputTracker: seconds (5) and buckets (50)
    WindowNs,       \* length of a bucket (100 ms)
    MaxNow          \* bound on the time

ASSUME StatsAssumption ==
    /\ kBuckets \in Nat \ {0} /\ Samples \subseteq Nat /\ MaxSamples \in Nat
    /\ \A p \in Percentiles : p.num \in Nat /\ p.den \in Nat \ {0} /\ p.num < p.den
    /\ kWindowSec \in Nat \ {0} /\ kRing \in Nat \ {0} /\ WindowNs \in Nat \ {0}
    /\ MaxNow \in Nat

\* Arithmetic that the provers do not know.
ASSUME PowersOfTwo ==
    \A i, j \in 0 .. kBuckets + 1 : 2 ^ i \in Nat /\ (i < j => 2 ^ i < 2 ^ j)

VARIABLES
    hist,      \* counts_, total_
    samples,   \* SampleRecorder::samples_
    recording, \* the steps of record() still to be done, and its argument
    reading,   \* percentile()'s locals: p, n, i, cum, its result, and whether no
               \* record() has run since it began (not state of the program)
    ring,      \* ThroughputTracker::ring_
    windows,   \* the window of every message recorded (not state of the program)
    newest     \* time of the latest record() call (not state of the program)

statsVars == <<hist, samples, recording, reading, ring, windows, newest>>

-----------------------------------------------------------------------------
(* LatencyHistogram.                                                       *)

\* 63 - clzll(ns), 0 for 0, and the last bucket for everything above.
Bucket(ns) == Max({0} \cup {b \in 0 .. kBuckets - 1 : 2 ^ b <= ns})

\* The order of record()'s two additions (sum_ only serves mean_ns).
\* Mutant: the total is counted first.
RecordStepsTotalFirst == <<"total", "counts">>
RecordSteps == <<"counts", "total">>

Recorded(h, step, ns) ==
    IF step = "counts" THEN [h EXCEPT !.counts[Bucket(ns)] = @ + 1]
                       ELSE [h EXCEPT !.total = @ + 1]

Top == 2 ^ (kBuckets + 1)    \* stands for ~0
\* Mutant: the lower end of the bucket.
UpperBoundLow(i) == IF i = kBuckets - 1 THEN Top ELSE 2 ^ i
UpperBound(i) == IF i = kBuckets - 1 THEN Top ELSE 2 ^ (i + 1)

Target(p, n) == (p.num * n) \div p.den

Idle == [pc |-> "idle", p |-> 0, n |-> 0, i |-> 0, cum |-> 0, result |-> 0, clean |-> TRUE]

-----------------------------------------------------------------------------
(* SampleRecorder: nearest rank on the sorted samples.                     *)

Below(x) == {k \in DOMAIN samples : samples[k] < x}
UpTo(x) == {k \in DOMAIN samples : samples[k] <= x}
\* The k-th of the sorted samples, counting from 1.
Sorted(k) == CHOOSE v \in Samples : Cardinality(Below(v)) < k /\ k <= Cardinality(UpTo(v))
CeilDiv(a, b) == (a + b - 1) \div b
at(p) == LET k == CeilDiv(p.num * Len(samples), p.den)
         IN  Sorted(IF k = 0 THEN 1 ELSE k)

-----------------------------------------------------------------------------
(* ThroughputTracker.                                                      *)

Window(now) == now \div WindowNs

\* Mutant: a bucket is reused without being emptied.
TrackedStale(now) ==
    [ring EXCEPT ![Window(now) % kRing] = [ts |-> Window(now), count |-> @.count + 1]]
Tracked(now) ==
    [ring EXCEPT ![Window(now) % kRing] =
        [ts |-> Window(now), count |-> 1 + IF @.ts = Window(now) THEN @.count ELSE 0]]

msgs_per_sec(now) ==
    MapThenSumSet(LAMBDA i : IF ring[i].ts + kRing > Window(now) THEN ring[i].count ELSE 0,
                  DOMAIN ring) \div kWindowSec

-----------------------------------------------------------------------------
(* The two threads.                                                        *)

InitStats ==
    /\ hist = [counts |-> [b \in 0 .. kBuckets - 1 |-> 0], total |-> 0]
    /\ samples = <<>>
    /\ recording = [todo |-> 0, ns |-> 0]
    /\ reading = Idle
    /\ ring = [i \in 0 .. kRing - 1 |-> [ts |-> 0, count |-> 0]]
    /\ windows = <<>>
    /\ newest = 0

\* The measuring thread begins to record sample ns of a message stamped now:
\* not in the order of the stamps (a message out of the gap buffer has an
\* older one), but never a whole turn of the ring behind.
BeginRecord(ns, now) ==
    /\ recording.todo = 0 /\ Len(samples) < MaxSamples
    /\ Window(now) + kRing > Window(newest)
    /\ recording' = [todo |-> 1, ns |-> ns]
    /\ samples' = Append(samples, ns)
    /\ ring' = Tracked(now)
    /\ windows' = Append(windows, Window(now))
    /\ newest' = Max({newest, now})
    /\ reading' = [reading EXCEPT !.clean = FALSE]
    /\ UNCHANGED hist

RecordStep ==
    /\ recording.todo # 0
    /\ hist' = Recorded(hist, RecordSteps[recording.todo], recording.ns)
    /\ recording' = [recording EXCEPT !.todo = IF @ = Len(RecordSteps) THEN 0 ELSE @ + 1]
    /\ reading' = [reading EXCEPT !.clean = FALSE]
    /\ UNCHANGED <<samples, ring, windows, newest>>

\* percentile(p) loads total_; with nothing recorded it returns 0.
BeginRead(p) ==
    /\ reading.pc = "idle"
    /\ reading' = [Idle EXCEPT !.pc = IF hist.total = 0 THEN "idle" ELSE "buckets",
                               !.p = p, !.n = hist.total, !.clean = recording.todo = 0]
    /\ UNCHANGED <<hist, samples, recording, ring, windows, newest>>

ReadBucket ==
    LET cum == reading.cum + hist.counts[reading.i] IN
    /\ reading.pc = "buckets"
    /\ reading' = IF cum > Target(reading.p, reading.n)
                    THEN [reading EXCEPT !.pc = "done", !.result = UpperBound(reading.i)]
                    ELSE IF reading.i = kBuckets - 1
                    THEN [reading EXCEPT !.pc = "done", !.result = Top]
                    ELSE [reading EXCEPT !.i = @ + 1, !.cum = cum]
    /\ UNCHANGED <<hist, samples, recording, ring, windows, newest>>

EndRead ==
    /\ reading.pc = "done" /\ reading' = Idle
    /\ UNCHANGED <<hist, samples, recording, ring, windows, newest>>

NextStats ==
    \/ \E ns \in Samples, now \in 0 .. MaxNow : BeginRecord(ns, now)
    \/ \E p \in Percentiles : BeginRead(p)
    \/ RecordStep \/ ReadBucket \/ EndRead

SpecStats == InitStats /\ [][NextStats]_statsVars

-----------------------------------------------------------------------------
(* Properties.                                                             *)

\* "percentile() therefore returns the bucket's EXCLUSIVE UPPER BOUND, so
\* p99 < 1024 ns is a true statement about the data" (stats.hpp:9): against
\* the exact nearest-rank percentile of the same samples, if no record() ran
\* meanwhile; the last bucket has no bound.
PercentileIsUpperBound ==
    reading.pc = "done" /\ reading.clean =>
        \/ at(reading.p) < reading.result
        \/ reading.result = Top /\ Bucket(at(reading.p)) = kBuckets - 1

\* "safe to call on the hot path of a live receiver" (stats.hpp:6): while
\* samples are being recorded a result lies between what the samples recorded
\* when percentile() loads total_, the first n, and those recorded when it
\* returns allow.  It is the end of a bucket that holds a sample, so the loop
\* never runs off the last bucket for want of a count; more samples than the
\* target, some of them perhaps later than the n, are below it; and no more
\* than the target of the first n are in the buckets before, so it is not
\* above the result that they alone would give.  (It is no bound for the n: a
\* low sample recorded after the load of total_ counts in the place of one of
\* them.)
InBucket(b) == {k \in DOMAIN samples : Bucket(samples[k]) = b}
ConcurrentReadIsSound ==
    reading.pc = "done" =>
        LET r == reading.result
            t == Target(reading.p, reading.n)
        IN  /\ r = UpperBound(reading.i) /\ InBucket(reading.i) # {}
            /\ r # Top => Cardinality(Below(r)) > t
            /\ Cardinality({k \in 1 .. reading.n : Bucket(samples[k]) < reading.i}) <= t

\* The sliding rate is exact: messages whose window is among the last kRing,
\* whatever the order in which their stamps were recorded.
RateIsExact ==
    \A now \in newest .. MaxNow :
        msgs_per_sec(now) =
            Cardinality({k \in DOMAIN windows : windows[k] + kRing > Window(now)})
                \div kWindowSec

=============================================================================
