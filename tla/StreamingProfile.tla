-------------------------- MODULE StreamingProfile --------------------------
(***************************************************************************)
(* The profile that a streaming extraction builds from its event store     *)
(* (native/aggregators/streaming.py): process, thread and image rows are   *)
(* read in batches into lookup tables, a symbolizer is made from the image *)
(* rows, and the samples, batch by batch again, are counted over time, and *)
(* summed up by process, module and function; the sums are fitted to the   *)
(* capacity of the machine.  Time is in units in which a processor takes   *)
(* one sample: a capacity is a number of samples.                          *)
(***************************************************************************)
EXTENDS Integers, Sequences, FiniteSets, FiniteSetsExt, SequencesExt, TLC

CONSTANTS
  Feeds,       \* what stores hold, class -> sequence of rows:
               \*   process [pid, name], thread [tid, pid],
               \*   image [base, size, module], pdb [base, build],
               \*   sampled [pid, payload, tid, cpu, bucket, stack, weight, profile]
  BatchSizes,
  SymbolCap,   \* _MAX_SYMBOL_ADDRESSES
  Rate,        \* samples of one processor in one bucket
  Machines,    \* [cpus, buckets] as the metadata has them, or None
  LocalBuild,  \* module -> the build of it on the analyst's machine, or None
  FunctionAt,  \* address -> function there, in every build
  None

ASSUME ProfileAssumption ==
  /\ BatchSizes \subseteq Nat \ {0} /\ SymbolCap \in Nat /\ Rate \in Nat \ {0}

VARIABLES
  feed,       \* the rows of the store
  machine,    \* trace.cpu_count and trace.duration_seconds
  batch,      \* batch_size
  pc,         \* the pass
  at,         \* rows of the pass already read
  pidName,    \* pid_to_name
  tidPid,     \* tid_to_pid
  intervals,  \* _ImageIndex: [base, end, module, build] in order of arrival
  identity,   \* image_index.pdb_identity: base -> build
  registered, \* modules of trace.symbolizer: base -> interval, or None
  pairs,      \* _AddressResolver: address -> [module, function, build]
  counts,     \* bucket_counts: <<bucket, cpu>> -> samples
  weights,    \* cpu_sampling: key -> weight
  scaled,     \* profile_weight_time_scaled
  frame       \* the table as it is written: key -> weight

input == <<feed, machine, batch>>
dimensions == <<pidName, tidPid, intervals, identity>>
sums == <<pairs, counts, weights, scaled>>
profileVars == <<input, pc, at, dimensions, registered, sums, frame>>

Sentinel == 99   \* 0xFFFFFFFF

Lookup(f, x, default) == IF x \in DOMAIN f THEN f[x] ELSE default
Plus(f, x, n) == [y \in DOMAIN f \union {x} |-> Lookup(f, y, 0) + (IF y = x THEN n ELSE 0)]
\* Later rows win, or the first one stays.
LastWins(f, x, v)  == [y \in DOMAIN f \union {x} |-> IF y = x THEN v ELSE f[y]]
FirstWins(f, x, v) == IF x \in DOMAIN f THEN f ELSE LastWins(f, x, v)

ProfileInit ==
  /\ feed \in Feeds /\ batch \in BatchSizes /\ machine \in Machines
  /\ pc = "process" /\ at = 0
  /\ pidName = << >> /\ tidPid = << >> /\ intervals = << >> /\ identity = << >>
  /\ registered = None /\ frame = << >>
  /\ pairs = << >> /\ counts = << >> /\ weights = << >> /\ scaled = FALSE

\* The next rows of a class, and the pass after the one that read them all.
Rows(class) == SubSeq(feed[class], at + 1, Min({at + batch, Len(feed[class])}))
Reads(pass, class, next) ==
  /\ pc = pass
  /\ IF at + batch < Len(feed[class])
     THEN at' = at + batch /\ UNCHANGED pc
     ELSE at' = 0 /\ pc' = next

(***************************************************************************)
(* Lookup tables (_load_dimensions)                                        *)
(***************************************************************************)

\* A row without a name leaves the one that is known.
ReadProcesses ==
  /\ Reads("process", "process", "thread")
  /\ pidName' = FoldLeft(LAMBDA f, r : IF r.name = None THEN f ELSE LastWins(f, r.pid, r.name),
                         pidName, Rows("process"))
  /\ UNCHANGED <<input, tidPid, intervals, identity, registered, sums, frame>>

Valid(r) == r.tid > 0 /\ r.pid >= 0

\* A wrong version: the process that used the thread id last.
OwnerLast(f, r) == IF Valid(r) THEN LastWins(f, r.tid, r.pid) ELSE f

Owner(f, r) == IF Valid(r) THEN FirstWins(f, r.tid, r.pid) ELSE f

ReadThreads ==
  /\ Reads("thread", "thread", "image")
  /\ tidPid' = FoldLeft(Owner, tidPid, Rows("thread"))
  /\ UNCHANGED <<input, pidName, intervals, identity, registered, sums, frame>>

\* Image rows go into the index without the identity they may carry; that is
\* kept beside it, by base.
ReadImages ==
  LET sized == SelectSeq(Rows("image"), LAMBDA r : r.base > 0 /\ r.size > 0)
      interval(r) == [base |-> r.base, end |-> r.base + r.size, module |-> r.module, build |-> None]
  IN /\ Reads("image", "image", "pdb")
     /\ intervals' = intervals \o [n \in DOMAIN sized |-> interval(sized[n])]
     /\ identity' = FoldLeft(LAMBDA f, r : IF r.base > 0 /\ r.build # None
                                          THEN FirstWins(f, r.base, r.build) ELSE f,
                             identity, Rows("image"))
     /\ UNCHANGED <<input, pidName, tidPid, registered, sums, frame>>

\* DbgID_RSDS records fill in what image rows left blank.
ReadIdentities ==
  LET known == {intervals[n].base : n \in DOMAIN intervals}
  IN /\ Reads("pdb", "pdb", "symbolizer")
     /\ identity' = FoldLeft(LAMBDA f, r : IF r.base \in known THEN FirstWins(f, r.base, r.build)
                                          ELSE f,
                             identity, Rows("pdb"))
     /\ UNCHANGED <<input, pidName, tidPid, intervals, registered, sums, frame>>

\* _ImageIndex.module_for: back from the last interval that starts at or below
\* the address to the first that holds it.
ModuleFor(a) ==
  LET holding == {n \in DOMAIN intervals : intervals[n].base <= a /\ a < intervals[n].end}
      top == Max({intervals[n].base : n \in holding})
  IN IF holding = {} THEN "unknown"
     ELSE intervals[Max({n \in holding : intervals[n].base = top})].module

\* _build_symbolizer_from_images: the first interval of each base, with the
\* identity the interval has.
BuildSymbolizer ==
  /\ pc = "symbolizer" /\ pc' = "timeline"
  /\ registered' = IF intervals = << >> THEN None
                   ELSE FoldLeft(LAMBDA f, i : FirstWins(f, i.base, i), << >>, intervals)
  /\ UNCHANGED <<input, at, dimensions, sums, frame>>

(***************************************************************************)
(* Names of addresses (_AddressResolver)                                   *)
(***************************************************************************)

Unnamed(module) == [module |-> module, function |-> None, build |-> None]

\* What Symbolizer says: for a module with an identity the PDB of that build
\* (a symbol server has every one), for one without the image on the analyst's
\* machine, for an address in no module nothing.
Label(a) ==
  LET below == {b \in DOMAIN registered : b <= a}
      m == registered[Max(below)]
      build == IF m.build # None THEN m.build ELSE LocalBuild[m.module]
  IN IF below = {} THEN Unnamed("unknown")
     ELSE IF a >= m.end THEN Unnamed("unknown")
     ELSE IF build = None THEN Unnamed(m.module)
     ELSE [module |-> m.module, function |-> FunctionAt[a], build |-> build]

\* Addresses of a batch that are new are named together, or, when that would
\* exceed the cap, by their module only.
Prepared(addresses) ==
  LET missing == addresses \ DOMAIN pairs
      named == registered # None /\ Cardinality(DOMAIN pairs) + Cardinality(missing) <= SymbolCap
      label(a) == IF named THEN Label(a) ELSE Unnamed("unknown")
      pair(a) == IF label(a).module = "unknown" THEN Unnamed(ModuleFor(a)) ELSE label(a)
  IN [a \in DOMAIN pairs \union missing |-> IF a \in DOMAIN pairs THEN pairs[a] ELSE pair(a)]

(***************************************************************************)
(* Samples (_build_cpu_timeline, _build_cpu_sampling)                      *)
(***************************************************************************)

CountSamples ==
  /\ Reads("timeline", "sampled", "sampled")
  /\ counts' = FoldLeft(LAMBDA f, s : Plus(f, <<s.bucket, s.cpu>>, 1), counts, Rows("sampled"))
  /\ UNCHANGED <<input, dimensions, registered, pairs, weights, scaled, frame>>

\* _resolved_sample_pid: where the header's process id says nothing, the thread
\* of the payload tells, or that of the header.
PidOf(s) ==
  IF s.pid > 0 /\ s.pid # Sentinel THEN s.pid
  ELSE IF s.payload \in DOMAIN tidPid THEN tidPid[s.payload]
  ELSE IF s.tid \in DOMAIN tidPid THEN tidPid[s.tid]
  ELSE IF s.pid = Sentinel THEN -1 ELSE 0

WeightOf(s) == IF s.profile > 0 THEN s.profile ELSE IF s.weight > 0 THEN s.weight ELSE 1

KeyOf(s, names) ==
  [name |-> Lookup(pidName, PidOf(s), "Unknown"), pid |-> PidOf(s)]
    @@ (IF s.stack = << >> THEN Unnamed("unknown") ELSE names[Head(s.stack)])

SumSamples ==
  /\ Reads("sampled", "sampled", "capacity")
  /\ pairs' = Prepared({Head(s.stack) : s \in {x \in ToSet(Rows("sampled")) : x.stack # << >>}})
  /\ weights' = FoldLeft(LAMBDA f, s : Plus(f, KeyOf(s, pairs'), WeightOf(s)), weights,
                         Rows("sampled"))
  /\ scaled' = (scaled \/ \E s \in ToSet(Rows("sampled")) : s.weight > 0 /\ s.profile > s.weight)
  /\ UNCHANGED <<input, dimensions, registered, counts, frame>>

(***************************************************************************)
(* Capacity (_normalize_cpu_sampling_capacity)                             *)
(***************************************************************************)

Total(f) == MapThenSumSet(LAMBDA k : f[k], DOMAIN f)

Capacity == IF machine = None THEN 0 ELSE machine.cpus * machine.buckets * Rate

\* _timeline_busy_us: buckets of the processors that the machine is said to
\* have, each at most full.
Busy == MapThenSumSet(LAMBDA c : Min({counts[c], Rate}), {c \in DOMAIN counts : c[2] < machine.cpus})

\* round(n / d), halves to even.
Round(n, d) ==
  LET q == n \div d IN
  CASE 2 * (n % d) < d -> q [] 2 * (n % d) > d -> q + 1 [] OTHER -> q + (q % 2)

Idle == [name |-> "Idle", pid |-> 0, module |-> "<Heuristic Low Power State>",
         function |-> "<C3>", build |-> None]

WithIdle(f, n) == IF n > 0 THEN LastWins(f, Idle, n) ELSE f

\* Rows are scaled to the target, and what rounding loses goes to a heaviest.
Fitted(f, target) ==
  LET rounded == [k \in DOMAIN f |-> Round(f[k] * target, Total(f))]
      heaviest == {k \in DOMAIN f : \A x \in DOMAIN f : f[k] >= f[x]}
  IN {[rounded EXCEPT ![k] = @ + target - Total(rounded)] : k \in heaviest}

\* Rows too heavy for the machine are fitted to its busy time, and the rest of
\* the capacity is idle, as it is for lighter rows whose weights are times.
Normalised(f) ==
  LET target == IF Busy > 0 THEN Min({Busy, Capacity}) ELSE Capacity
  IN IF f = << >> \/ Capacity = 0 THEN {f}
     ELSE IF 2 * Total(f) <= 3 * Capacity
          THEN {IF scaled THEN WithIdle(f, Capacity - Total(f)) ELSE f}
     ELSE {WithIdle(g, Capacity - target) : g \in Fitted(f, target)}

Normalise ==
  /\ pc = "capacity" /\ pc' = "profiled"
  /\ frame' \in Normalised(weights)
  /\ UNCHANGED <<input, at, dimensions, registered, sums>>

ProfileNext ==
  \/ ReadProcesses \/ ReadThreads \/ ReadImages \/ ReadIdentities \/ BuildSymbolizer
  \/ CountSamples \/ SumSamples \/ Normalise

(***************************************************************************)
(* Properties                                                              *)
(***************************************************************************)

\* Reference definitions over the whole feed, without batches and tables: the
\* first, or the last, row of a class in a set of rows.
Hits(class, rows) == {n \in DOMAIN feed[class] : feed[class][n] \in rows}
Chosen(class, hits, Pick(_)) == IF hits = {} THEN None ELSE feed[class][Pick(hits)]

TrueOwner(t) ==
  Chosen("thread", Hits("thread", {r \in ToSet(feed.thread) : r.tid = t /\ Valid(r)}), Min)
TruePid(s) ==
  IF s.pid \notin {0, Sentinel} THEN s.pid
  ELSE IF TrueOwner(s.payload) # None THEN TrueOwner(s.payload).pid
  ELSE IF TrueOwner(s.tid) # None THEN TrueOwner(s.tid).pid
  ELSE IF s.pid = Sentinel THEN -1 ELSE 0
TrueName(p) ==
  LET r == Chosen("process",
                  Hits("process", {x \in ToSet(feed.process) : x.pid = p /\ x.name # None}), Max)
  IN IF r = None THEN "Unknown" ELSE r.name
TrueModules(s) ==
  {r.module : r \in {x \in ToSet(feed.image) :
                       s.stack # << >> /\ x.base <= Head(s.stack) /\ Head(s.stack) < x.base + x.size}}

\* The weight of the samples of a process whose address is in a module.
TrueWeight(p, module) ==
  MapThenSumSet(LAMBDA n : WeightOf(feed.sampled[n]),
                {n \in DOMAIN feed.sampled :
                   /\ TruePid(feed.sampled[n]) = p
                   /\ module \in (IF TrueModules(feed.sampled[n]) = {} THEN {"unknown"}
                                  ELSE TrueModules(feed.sampled[n]))})

\* The profile does not depend on how the rows came in batches: each process
\* and module has the weight of the samples whose thread first belonged to that
\* process and whose address is in that module, none is lost or counted twice,
\* and once the weights are times the table fills the machine's capacity
\* exactly, unless they exceed it by up to half.
ProfileIsExact ==
  /\ pc = "capacity" =>
       /\ \A k \in DOMAIN weights :
            /\ k.name = TrueName(k.pid)
            /\ MapThenSumSet(LAMBDA x : weights[x],
                             {x \in DOMAIN weights : x.pid = k.pid /\ x.module = k.module})
                 = TrueWeight(k.pid, k.module)
       /\ Total(weights) = MapThenSumSet(LAMBDA n : WeightOf(feed.sampled[n]), DOMAIN feed.sampled)
  /\ pc = "profiled" /\ weights # << >> /\ Capacity > 0 =>
       IF 2 * Total(weights) > 3 * Capacity THEN Total(frame) = Capacity
       ELSE Total(frame) = IF scaled THEN Max({Capacity, Total(weights)}) ELSE Total(weights)

\* "the symbolizer loads PDBs by that exact identity": functions of a module
\* whose identity the trace recorded come from that build.
NamesAreTraced ==
  \A k \in DOMAIN weights : \A i \in ToSet(intervals) :
    k.build # None /\ i.module = k.module /\ i.base \in DOMAIN identity
      => k.build = identity[i.base]
=============================================================================
