--------------------------- MODULE SymbolQueries ---------------------------
(***************************************************************************)
(* Tools that need names, at work on one trace: stack queries that build   *)
(* the stack table on demand (tools/stack_analysis.py,                     *)
(* native/aggregators/stack_butterfly.py), sample queries that resolve raw *)
(* samples (tools/cpu_sampling.py), resolve_symbols and check_symbols that *)
(* change the symbol path and drop what was derived from the old one       *)
(* (tools/trace_mgmt.py), and the dumper thread that aggregates a freshly  *)
(* extracted trace.  They share the trace object, its lock, the symbolizer *)
(* and two attributes that a stack query borrows.                          *)
(***************************************************************************)
EXTENDS Symbolizer

CONSTANTS
  Queries,     \* threads of stack queries
  Samples,     \* threads of sample queries
  Resolver,    \* the thread of resolve_symbols and check_symbols
  Dumper,      \* the dumper-extract thread
  Slots,       \* _STACK_QUERY_CONCURRENCY
  MaxQueries,  \* bound: queries begun
  MaxSets      \* bound: calls that set the symbol path

ASSUME QueriesAssumption ==
  /\ Slots \in Nat \ {0} /\ MaxQueries \in Nat /\ MaxSets \in Nat
  /\ Queries \intersect Samples = {} /\ Resolver # Dumper
  /\ {Resolver, Dumper} \intersect (Queries \union Samples) = {}
  /\ None \notin Queries \union {"temporary", "real"}

Threads == Queries \union Samples \union {Resolver, Dumper}

VARIABLES
  pc,          \* where each thread is
  lock,        \* the holder of trace.lock, or None
  permits,     \* free places of _stack_query_gate
  gated,       \* the queries that hold a place
  store,       \* the trace has an event_store with samples
  parquet,     \* sampled_profile.parquet exists
  dumper,      \* trace.dumper_df: None, "real", or a query's "temporary" frame
  defer,       \* trace._defer_symbolization
  saved,       \* thread -> the [dumper, defer] it saved to restore
  built,       \* thread -> names it has resolved so far
  table,       \* raw_csv["stacks"] (and "stacks_callers" beside it)
  memo,        \* _resolved_samples_df
  storeTried,  \* _native_stack_aggregate_attempted
  rawTried,    \* _stacks_raw_attempted
  begun,       \* queries begun
  sets,        \* calls that set the path
  raced        \* the path was set while names were being collected

traceVars == <<lock, permits, gated, store, parquet, dumper, defer, saved, built,
               table, memo, storeTried, rawTried, begun, sets, raced>>
qvars == <<symVars, pc, traceVars>>

\* A table of names: address -> answer.  ModuleOnly is the table that a
\* deferred aggregation leaves: modules by address range and no functions.
ModuleOnly == [a \in Addresses |-> Rva("deferred")]

\* _stacks_are_unresolved: no row has a real module name.
Unresolved(t) == t = None \/ \A a \in Addresses : t[a] = Unknown

NamesNoFunction(t) == \A a \in Addresses : t[a].source \in {"unknown", "mismatched", "deferred"}

Registered == UNION {{m \in [B -> [image : Images, state : {"deferred"}]] :
                        \A b \in B : m[b].image.base = b} : B \in (SUBSET Bases) \ {{}}}

\* A trace from a cache comes with the modules it saw registered and maybe with the
\* deferred table of the worker; one that is being extracted in this process
\* has nothing yet.
QueriesInit ==
  /\ SymbolizerInit
  /\ pc = [t \in Threads |-> IF t = Dumper THEN "extract" ELSE "idle"]
  /\ lock = None /\ permits = Slots /\ gated = {}
  /\ store = FALSE /\ parquet = FALSE /\ dumper = None /\ defer = FALSE
  /\ saved = [t \in Threads |-> None] /\ built = [t \in Threads |-> << >>]
  /\ table = None /\ memo = None /\ storeTried = FALSE /\ rawTried = FALSE
  /\ begun = 0 /\ sets = 0 /\ raced = FALSE

CachedInit ==
  /\ path = DefaultPath /\ modules \in Registered
  /\ bound = [b \in Bases |-> Nothing] /\ cache = << >> /\ started = FALSE
  /\ tried = [b \in Bases |-> None] /\ pathError = FALSE
  /\ pc = [t \in Threads |-> "idle"]
  /\ lock = None /\ permits = Slots /\ gated = {}
  /\ store \in BOOLEAN /\ parquet = TRUE /\ dumper = None /\ defer = FALSE
  /\ saved = [t \in Threads |-> None] /\ built = [t \in Threads |-> << >>]
  /\ table \in {None, ModuleOnly} /\ memo = None /\ storeTried = FALSE /\ rawTried = FALSE
  /\ begun = 0 /\ sets = 0 /\ raced = FALSE

\* trace.symbolizer is there.
HasSymbolizer == pc[Dumper] # "extract"

Goes(t, here, there) == pc[t] = here /\ pc' = [pc EXCEPT ![t] = there]

(***************************************************************************)
(* Collecting names (bulk_resolve_with_source), by any thread              *)
(***************************************************************************)

Collecting == {"store", "raw", "samples", "aggregate"}
Collects(t) == pc[t] \in Collecting
Whole(t) == DOMAIN built[t] = Addresses

\* One address: the cached answer, or Symbolizer.resolve.
ResolveOne(t) ==
  /\ Collects(t)
  /\ \E a \in Addresses \ DOMAIN built[t] :
       /\ \A c \in Addresses \ DOMAIN built[t] : a <= c
       /\ IF a \in DOMAIN cache THEN UNCHANGED symVars ELSE Resolve(a)
       /\ built' = [built EXCEPT ![t] = [x \in DOMAIN @ \union {a} |->
                                          IF x = a THEN cache'[a] ELSE @[x]]]
  /\ UNCHANGED <<pc, lock, permits, gated, store, parquet, dumper, defer, saved,
                 table, memo, storeTried, rawTried, begun, sets, raced>>

(***************************************************************************)
(* A stack query                                                           *)
(***************************************************************************)

\* walk_stack, count_stacks and butterfly_chain take a place at the gate
\* (_stack_query_slot); get_hot_stacks and get_function_callers do not.
QueryBegins(q) ==
  /\ Goes(q, "idle", "look")
  /\ begun < MaxQueries /\ begun' = begun + 1
  /\ \/ permits > 0 /\ permits' = permits - 1 /\ gated' = gated \union {q}
     \/ UNCHANGED <<permits, gated>>
  /\ UNCHANGED <<symVars, lock, store, parquet, dumper, defer, saved, built, table, memo,
                 storeTried, rawTried, sets, raced>>

\* The gate stays full for a tenth of a second: the caller is told to retry.
QueryIsBusy(q) ==
  /\ pc[q] = "idle" /\ permits = 0
  /\ begun < MaxQueries /\ begun' = begun + 1
  /\ UNCHANGED <<symVars, pc, lock, permits, gated, store, parquet, dumper, defer, saved, built,
                 table, memo, storeTried, rawTried, sets, raced>>

\* _get_stacks_df: a table that names at least modules is used as it is.
QueryLooks(q) ==
  /\ Goes(q, "look", IF Unresolved(table) THEN "lock" ELSE "answer")
  /\ UNCHANGED <<symVars, traceVars>>

\* _ensure_lazy_stack_aggregates under trace.lock, first the event store
\* (ensure_stack_aggregates), if it has not been tried; symbolization that is
\* deferred leaves modules only.
QueryTriesStore(q) ==
  /\ pc[q] = "lock" /\ lock = None /\ lock' = q
  /\ IF store /\ table = None /\ ~storeTried
     THEN /\ storeTried' = TRUE
          /\ pc' = [pc EXCEPT ![q] = IF defer THEN "fallback" ELSE "store"]
          /\ table' = IF defer THEN ModuleOnly ELSE table
     ELSE /\ pc' = [pc EXCEPT ![q] = "fallback"]
          /\ UNCHANGED <<storeTried, table>>
  /\ UNCHANGED <<symVars, permits, gated, store, parquet, dumper, defer, saved, built, memo,
                 rawTried, begun, sets, raced>>

QueryStores(q) ==
  /\ Whole(q) /\ Goes(q, "store", "fallback")
  /\ table' = built[q]
  /\ built' = [built EXCEPT ![q] = << >>]
  /\ UNCHANGED <<symVars, lock, permits, gated, store, parquet, dumper, defer, saved, memo,
                 storeTried, rawTried, begun, sets, raced>>

\* Then the raw samples on disk (_build_stacks_from_sampled_parquet): the
\* query puts its own frame into trace.dumper_df, turns deferral off, and
\* remembers what was there.
QueryTriesRaw(q) ==
  /\ pc[q] = "fallback"
  /\ IF Unresolved(table) /\ ~rawTried
     THEN /\ rawTried' = TRUE
          /\ IF HasSymbolizer /\ parquet
             THEN /\ saved' = [saved EXCEPT ![q] = [dumper |-> dumper, defer |-> defer]]
                  /\ dumper' = "temporary" /\ defer' = FALSE
                  /\ pc' = [pc EXCEPT ![q] = "raw"]
                  /\ UNCHANGED lock
             ELSE /\ lock' = None /\ pc' = [pc EXCEPT ![q] = "answer"]
                  /\ UNCHANGED <<saved, dumper, defer>>
     ELSE /\ lock' = None /\ pc' = [pc EXCEPT ![q] = "answer"]
          /\ UNCHANGED <<rawTried, saved, dumper, defer>>
  /\ UNCHANGED <<symVars, permits, gated, store, parquet, built, table, memo, storeTried,
                 begun, sets, raced>>

\* The finally clause, and the table if there is one.
Restore(q) ==
  /\ dumper' = saved[q].dumper /\ defer' = saved[q].defer
  /\ saved' = [saved EXCEPT ![q] = None]

QueryKeepsRaw(q) ==
  /\ Whole(q) /\ Goes(q, "raw", "answer")
  /\ Restore(q)
  /\ table' = built[q] /\ built' = [built EXCEPT ![q] = << >>]
  /\ lock' = None
  /\ UNCHANGED <<symVars, permits, gated, store, parquet, memo, storeTried, rawTried,
                 begun, sets, raced>>

\* A wrong version: no finally clause.
QueryFailsKeeping(q) ==
  /\ \/ Goes(q, "store", "fallback") /\ UNCHANGED <<lock, dumper, defer, saved>>
     \/ Goes(q, "raw", "answer") /\ lock' = None /\ UNCHANGED <<dumper, defer, saved>>
  /\ built' = [built EXCEPT ![q] = << >>]
  /\ UNCHANGED <<symVars, permits, gated, store, parquet, table, memo, storeTried, rawTried,
                 begun, sets, raced>>

\* The aggregation raises: swallowed, with the names lost.
QueryFails(q) ==
  /\ \/ Goes(q, "store", "fallback") /\ UNCHANGED <<lock, dumper, defer, saved>>
     \/ Goes(q, "raw", "answer") /\ lock' = None /\ Restore(q)
  /\ built' = [built EXCEPT ![q] = << >>]
  /\ UNCHANGED <<symVars, permits, gated, store, parquet, table, memo, storeTried, rawTried,
                 begun, sets, raced>>

QueryAnswers(q) ==
  /\ Goes(q, "answer", "idle")
  /\ permits' = permits + (IF q \in gated THEN 1 ELSE 0)
  /\ gated' = gated \ {q}
  /\ UNCHANGED <<symVars, lock, store, parquet, dumper, defer, saved, built, table, memo,
                 storeTried, rawTried, begun, sets, raced>>

(***************************************************************************)
(* A sample query that needs functions (_resolved_samples)                 *)
(***************************************************************************)

\* Without trace.lock: the memo if there is one; else the raw samples, from
\* dumper_df unless it has no instruction pointers (a query's temporary frame
\* has none), or from disk.
SamplesBegin(s) ==
  /\ begun < MaxQueries /\ begun' = begun + 1
  /\ HasSymbolizer /\ memo = None /\ (dumper = "real" \/ parquet)
  /\ Goes(s, "idle", "samples")
  /\ UNCHANGED <<symVars, lock, permits, gated, store, parquet, dumper, defer, saved, built,
                 table, memo, storeTried, rawTried, sets, raced>>

\* A frame without any function name is not kept.
SamplesKeep(s) ==
  /\ Whole(s) /\ Goes(s, "samples", "idle")
  /\ memo' = IF NamesNoFunction(built[s]) THEN memo ELSE built[s]
  /\ built' = [built EXCEPT ![s] = << >>]
  /\ UNCHANGED <<symVars, lock, permits, gated, store, parquet, dumper, defer, saved, table,
                 storeTried, rawTried, begun, sets, raced>>

(***************************************************************************)
(* resolve_symbols, check_symbols, diagnose_symbol_load                    *)
(***************************************************************************)

\* None of the three takes trace.lock.  What set_symbol_path returns decides
\* whether derived tables are dropped.
ResolverSets(p) ==
  /\ HasSymbolizer /\ sets < MaxSets /\ sets' = sets + 1
  /\ raced' = (raced \/ \E t \in Threads : Collects(t))
  /\ \/ SetSymbolPath(p) /\ Goes(Resolver, "idle", IF Invalidates(p) THEN "drop" ELSE "load")
     \/ SetSymbolPathRaises(p) /\ Goes(Resolver, "idle", "load")
  /\ UNCHANGED <<lock, permits, gated, store, parquet, dumper, defer, saved, built, table, memo,
                 storeTried, rawTried, begun>>

\* _invalidate_symbol_resolution_caches: attributes first, tables after.
ResolverDropsMemo ==
  /\ Goes(Resolver, "drop", "pop")
  /\ memo' = None /\ storeTried' = FALSE /\ rawTried' = FALSE
  /\ UNCHANGED <<symVars, lock, permits, gated, store, parquet, dumper, defer, saved, built,
                 table, begun, sets, raced>>

ResolverPopsTables ==
  /\ Goes(Resolver, "pop", "load")
  /\ table' = None
  /\ UNCHANGED <<symVars, lock, permits, gated, store, parquet, dumper, defer, saved, built,
                 memo, storeTried, rawTried, begun, sets, raced>>

\* resolve_symbols loads every module, or those that it was asked for;
\* check_symbols returns without.
ResolverLoads(B) ==
  /\ EnsureLoaded(B) /\ Goes(Resolver, "load", "idle")
  /\ UNCHANGED <<lock, permits, gated, store, parquet, dumper, defer, saved, built, table, memo,
                 storeTried, rawTried, begun, sets, raced>>

(***************************************************************************)
(* The dumper thread of an in-process extraction                           *)
(***************************************************************************)

\* _build_symbolizer_from_images registers the first image row of each base and
\* publishes the symbolizer when it is through; then, under the lock, the
\* frames and their parquet files.
DumperRegisters(i) ==
  /\ pc[Dumper] = "extract" /\ i.base \notin DOMAIN modules
  /\ AddModule(i)
  /\ UNCHANGED <<pc, traceVars>>

DumperBuildsSymbolizer ==
  /\ Goes(Dumper, "extract", "publish")
  /\ UNCHANGED <<symVars, traceVars>>

DumperPublishes ==
  /\ lock = None /\ Goes(Dumper, "publish", "defer")
  /\ dumper' = "real" /\ parquet' = TRUE
  /\ UNCHANGED <<symVars, lock, permits, gated, store, defer, saved, built, table, memo,
                 storeTried, rawTried, begun, sets, raced>>

\* _run_native_aggregators, without the lock: deferral is decided by the size
\* of the trace, and what was set before is restored at the end.
DumperDefers ==
  /\ Goes(Dumper, "defer", "decide")
  /\ defer' \in BOOLEAN
  /\ saved' = [saved EXCEPT ![Dumper] = [dumper |-> None, defer |-> defer]]
  /\ UNCHANGED <<symVars, lock, permits, gated, store, parquet, dumper, built, table, memo,
                 storeTried, rawTried, begun, sets, raced>>

DumperDecides ==
  /\ Goes(Dumper, "decide", IF defer THEN "keep" ELSE "aggregate")
  /\ built' = [built EXCEPT ![Dumper] = IF defer THEN ModuleOnly ELSE << >>]
  /\ UNCHANGED <<symVars, lock, permits, gated, store, parquet, dumper, defer, saved, table,
                 memo, storeTried, rawTried, begun, sets, raced>>

DumperKeeps ==
  /\ Whole(Dumper)
  /\ \/ Goes(Dumper, "aggregate", "restore")
     \/ Goes(Dumper, "keep", "restore")
  /\ table' = built[Dumper]
  /\ built' = [built EXCEPT ![Dumper] = << >>]
  /\ UNCHANGED <<symVars, lock, permits, gated, store, parquet, dumper, defer, saved, memo,
                 storeTried, rawTried, begun, sets, raced>>

DumperRestores ==
  /\ Goes(Dumper, "restore", "idle")
  /\ defer' = saved[Dumper].defer
  /\ saved' = [saved EXCEPT ![Dumper] = None]
  /\ UNCHANGED <<symVars, lock, permits, gated, store, parquet, dumper, built, table, memo,
                 storeTried, rawTried, begun, sets, raced>>

QueriesNext ==
  \/ \E t \in Threads : ResolveOne(t)
  \/ \E q \in Queries :
       \/ QueryBegins(q) \/ QueryIsBusy(q) \/ QueryLooks(q) \/ QueryTriesStore(q)
       \/ QueryStores(q) \/ QueryTriesRaw(q) \/ QueryKeepsRaw(q) \/ QueryFails(q)
       \/ QueryAnswers(q)
  \/ \E s \in Samples : SamplesBegin(s) \/ SamplesKeep(s)
  \/ \E p \in Paths : ResolverSets(p)
  \/ ResolverDropsMemo \/ ResolverPopsTables
  \/ \E B \in SUBSET DOMAIN modules : ResolverLoads(B)
  \/ \E i \in Images : DumperRegisters(i)
  \/ DumperBuildsSymbolizer \/ DumperPublishes \/ DumperDefers \/ DumperDecides
  \/ DumperKeeps \/ DumperRestores

QueriesSpec == (CachedInit \/ QueriesInit) /\ [][QueriesNext]_qvars

(***************************************************************************)
(* Properties                                                              *)
(***************************************************************************)

\* What a stack query borrows is back whenever nobody holds the lock: its
\* frame is out of trace.dumper_df, deferral is as it was (unless the dumper
\* thread set it meanwhile), and the gate has as many free places as no query
\* holds, also after an aggregation that raised.
BorrowedIsReturned ==
  /\ permits + Cardinality(gated) = Slots
  /\ lock = None => /\ dumper # "temporary"
                    /\ dumper = None => ~defer

\* Tables of names follow the symbol path: once a call that set the path has
\* dropped what it must, what is kept is what the symbolizer would answer now,
\* unless names were being collected at the moment the path was set, or the
\* table is a deferred one.
TablesFollowPath ==
  pc[Resolver] \notin {"drop", "pop"} /\ ~raced =>
    \A t \in {table, memo} : t # None /\ t # ModuleOnly => \A a \in Addresses : t[a] = Answer(a)

(***************************************************************************)
(* What the proofs add to the properties                                   *)
(***************************************************************************)

Steps ==
  /\ pc \in [Threads -> {"idle", "look", "lock", "store", "fallback", "raw", "answer",
                        "samples", "drop", "pop", "load", "extract", "publish", "defer",
                        "decide", "aggregate", "keep", "restore"}]
  /\ \A q \in Queries :
       pc[q] \in {"idle", "look", "lock", "store", "fallback", "raw", "answer"}
  /\ \A s \in Samples : pc[s] \in {"idle", "samples"}
  /\ pc[Resolver] \in {"idle", "drop", "pop", "load"}

\* The holder of trace.lock is the query that is between taking it and giving
\* it back; the gate counts the queries that have a place.
Holding ==
  /\ lock \in Queries \union {None}
  /\ \A q \in Queries : pc[q] \in {"store", "fallback", "raw"} <=> lock = q
  /\ gated \subseteq {q \in Queries : pc[q] # "idle"}
  /\ IsFiniteSet(gated) /\ permits \in Nat /\ permits + Cardinality(gated) = Slots

\* The dumper thread has published and has not left its aggregation.
Published == pc[Dumper] \in {"defer", "decide", "aggregate", "keep", "restore"}

\* The temporary frame belongs to the query that aggregates it, which has what
\* was there before; nobody defers on a trace that has no frame.
Lending ==
  /\ dumper \in {None, "temporary", "real"} /\ defer \in BOOLEAN
  /\ dumper = "temporary" <=> \E q \in Queries : pc[q] = "raw"
  /\ \A q \in Queries : pc[q] = "raw" =>
       /\ saved[q] \in [dumper : {None, "real"}, defer : BOOLEAN]
       /\ saved[q].dumper = None => saved[q].defer = FALSE /\ ~Published
  /\ dumper = None => defer = FALSE /\ ~Published
  /\ pc[Dumper] \in {"decide", "aggregate", "keep", "restore"} => saved[Dumper].defer \in BOOLEAN
  /\ DOMAIN saved = Threads

Borrowing == Steps /\ Holding /\ Lending

\* Nothing is resolved or aggregated while the modules are being registered.
Extracting ==
  pc[Dumper] = "extract" =>
    /\ cache = << >> /\ table = None /\ memo = None /\ ~store
    /\ \A t \in Threads : ~Collects(t)

\* What a thread has collected it is about to store; a table or a memo that is
\* not about to be dropped says what the symbolizer says.
Follows(t) == t \in {None, ModuleOnly} \/ (DOMAIN t = Addresses /\ Current(t))

Collected ==
  /\ DOMAIN built = Threads
  /\ \A t \in Threads : ~Collects(t) =>
       \/ built[t] = << >>
       \/ t = Dumper /\ pc[t] = "keep" /\ built[t] = ModuleOnly
  /\ ~raced => /\ \A t \in Threads : Collects(t) => Current(built[t])
               /\ pc[Resolver] # "drop" => Follows(memo)
               /\ pc[Resolver] \notin {"drop", "pop"} => Follows(table)

Naming == Extracting /\ Current(cache) /\ Collected
=============================================================================
