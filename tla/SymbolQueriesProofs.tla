------------------------- MODULE SymbolQueriesProofs -------------------------
(* What stack queries borrow comes back, names are of the build the trace    *)
(* saw, and no answer, failure or table of names outlives its symbol path,   *)
(* for any number of queries, modules, files, paths and addresses.           *)
EXTENDS SymbolQueries, FiniteSetTheorems, TLAPS

(***************************************************************************)
(* The lock, the gate and the borrowed frame                               *)
(***************************************************************************)

LEMMA ThreadsAreApart ==
  /\ \A q \in Queries : q \in Threads /\ q \notin Samples /\ q # Resolver /\ q # Dumper /\ q # None
  /\ \A s \in Samples : s \in Threads /\ s \notin Queries /\ s # Resolver /\ s # Dumper
  /\ Resolver \in Threads /\ Dumper \in Threads /\ Resolver # Dumper
  /\ Resolver \notin Queries /\ Dumper \notin Queries
  /\ Resolver \notin Samples /\ Dumper \notin Samples
BY QueriesAssumption DEF Threads

LEMMA BorrowingInit ==
  ASSUME CachedInit \/ QueriesInit
  PROVE  Borrowing
<1> USE ThreadsAreApart DEF CachedInit, QueriesInit
<1>1. Steps
  BY DEF Steps
<1>2. Holding
  <2>1. IsFiniteSet({}) /\ Cardinality({}) = 0
    BY FS_EmptySet
  <2>2. permits = Slots /\ gated = {}
    OBVIOUS
  <2>3. permits \in Nat /\ permits + Cardinality(gated) = Slots /\ IsFiniteSet(gated)
    BY <2>1, <2>2, QueriesAssumption
  <2> QED BY <2>2, <2>3 DEF Holding
<1>3. Lending
  BY QueriesAssumption DEF Lending, Published
<1> QED BY <1>1, <1>2, <1>3 DEF Borrowing

\* The gate's count, when a query takes a place or gives it back.
LEMMA GateCounts ==
  ASSUME NEW g, IsFiniteSet(g), NEW n \in Nat, n + Cardinality(g) = Slots, NEW q
  PROVE  /\ n > 0 /\ q \notin g =>
              /\ IsFiniteSet(g \union {q}) /\ n - 1 \in Nat
              /\ (n - 1) + Cardinality(g \union {q}) = Slots
         /\ q \in g => /\ IsFiniteSet(g \ {q}) /\ n + 1 \in Nat
                       /\ (n + 1) + Cardinality(g \ {q}) = Slots
<1>1. Cardinality(g) \in Nat
  BY FS_CardinalityType
<1>2. ASSUME n > 0, q \notin g
      PROVE  /\ IsFiniteSet(g \union {q}) /\ n - 1 \in Nat
             /\ (n - 1) + Cardinality(g \union {q}) = Slots
  <2>1. IsFiniteSet(g \union {q}) /\ Cardinality(g \union {q}) = Cardinality(g) + 1
    BY <1>2, FS_AddElement
  <2> QED BY <1>1, <1>2, <2>1, QueriesAssumption
<1>3. ASSUME q \in g
      PROVE  /\ IsFiniteSet(g \ {q}) /\ n + 1 \in Nat
             /\ (n + 1) + Cardinality(g \ {q}) = Slots
  <2>1. IsFiniteSet(g \ {q}) /\ Cardinality(g \ {q}) = Cardinality(g) - 1
    BY <1>3, FS_RemoveElement
  <2> QED BY <1>1, <1>3, <2>1, QueriesAssumption
<1> QED BY <1>2, <1>3

\* A stack query, up to the look at its table.
LEMMA QueryTakesKeepBorrowing ==
  ASSUME Borrowing, NEW q \in Queries,
         QueryBegins(q) \/ QueryIsBusy(q) \/ QueryLooks(q) \/ QueryAnswers(q)
  PROVE  Borrowing'
<1> USE ThreadsAreApart DEF Borrowing, Goes, traceVars
<1>1. CASE QueryBegins(q)
  <2>1. Steps'
    BY <1>1 DEF QueryBegins, Steps
  <2>2. Holding'
    BY <1>1, GateCounts DEF QueryBegins, Steps, Holding
  <2>3. Lending'
    BY <1>1 DEF QueryBegins, Steps, Lending, Published
  <2> QED BY <2>1, <2>2, <2>3
<1>2. CASE QueryIsBusy(q)
  BY <1>2 DEF QueryIsBusy, Steps, Holding, Lending, Published
<1>3. CASE QueryLooks(q)
  <2>1. Steps'
    BY <1>3 DEF QueryLooks, Steps
  <2>2. Holding'
    BY <1>3 DEF QueryLooks, Steps, Holding
  <2>3. Lending'
    BY <1>3 DEF QueryLooks, Steps, Lending, Published
  <2> QED BY <2>1, <2>2, <2>3
<1>4. CASE QueryAnswers(q)
  <2>1. Steps'
    BY <1>4 DEF QueryAnswers, Steps
  <2>2. Holding'
    BY <1>4, GateCounts DEF QueryAnswers, Steps, Holding
  <2>3. Lending'
    BY <1>4 DEF QueryAnswers, Steps, Lending, Published
  <2> QED BY <2>1, <2>2, <2>3
<1> QED BY <1>1, <1>2, <1>3, <1>4

\* A stack query under the lock.
LEMMA QueryHoldsKeepBorrowing ==
  ASSUME Borrowing, NEW q \in Queries,
         QueryTriesStore(q) \/ QueryStores(q) \/ QueryTriesRaw(q) \/ QueryKeepsRaw(q)
           \/ QueryFails(q)
  PROVE  Borrowing'
<1> USE ThreadsAreApart DEF Borrowing, Goes
<1>1. CASE QueryTriesStore(q)
  <2>1. Steps'
    BY <1>1 DEF QueryTriesStore, Steps
  <2>2. Holding'
    BY <1>1 DEF QueryTriesStore, Steps, Holding
  <2>3. Lending'
    BY <1>1 DEF QueryTriesStore, Steps, Lending, Published
  <2> QED BY <2>1, <2>2, <2>3
<1>2. CASE QueryStores(q)
  <2>1. Steps'
    BY <1>2 DEF QueryStores, Steps
  <2>2. Holding'
    BY <1>2 DEF QueryStores, Steps, Holding
  <2>3. Lending'
    BY <1>2 DEF QueryStores, Steps, Lending, Published
  <2> QED BY <2>1, <2>2, <2>3
<1>3. CASE QueryTriesRaw(q)
  <2>1. Steps'
    BY <1>3 DEF QueryTriesRaw, Steps
  <2>2. Holding'
    BY <1>3 DEF QueryTriesRaw, Steps, Holding
  <2>3. Lending'
    <3>1. \A r \in Queries \ {q} : pc[r] # "raw"
      BY <1>3 DEF QueryTriesRaw, Steps, Holding
    <3>2. pc[q] = "fallback" /\ dumper \in {None, "real"}
      BY <1>3, <3>1 DEF QueryTriesRaw, Lending
    <3>3. CASE pc' = [pc EXCEPT ![q] = "raw"]
      <4>1. /\ saved' = [saved EXCEPT ![q] = [dumper |-> dumper, defer |-> defer]]
            /\ dumper' = "temporary" /\ defer' = FALSE
        BY <1>3, <3>3 DEF QueryTriesRaw, Steps
      <4>2. saved'[q] = [dumper |-> dumper, defer |-> defer]
        BY <4>1 DEF Lending
      <4> QED BY <3>1, <3>2, <3>3, <4>1, <4>2, QueriesAssumption DEF Steps, Lending, Published
    <3>4. CASE pc' = [pc EXCEPT ![q] = "answer"]
      <4>1. UNCHANGED <<saved, dumper, defer>>
        BY <1>3, <3>4 DEF QueryTriesRaw, Steps
      <4> QED BY <3>1, <3>2, <3>4, <4>1 DEF Steps, Lending, Published
    <3> QED BY <1>3, <3>3, <3>4 DEF QueryTriesRaw
  <2> QED BY <2>1, <2>2, <2>3
<1>4. CASE QueryKeepsRaw(q)
  <2>1. Steps'
    BY <1>4 DEF QueryKeepsRaw, Steps
  <2>2. Holding'
    BY <1>4 DEF QueryKeepsRaw, Steps, Holding
  <2>3. Lending'
    BY <1>4, QueriesAssumption DEF QueryKeepsRaw, Restore, Steps, Holding, Lending, Published
  <2> QED BY <2>1, <2>2, <2>3
<1>5. CASE QueryFails(q)
  <2>1. Steps'
    BY <1>5 DEF QueryFails, Steps
  <2>2. Holding'
    BY <1>5 DEF QueryFails, Steps, Holding
  <2>3. Lending'
    BY <1>5, QueriesAssumption DEF QueryFails, Restore, Steps, Holding, Lending, Published
  <2> QED BY <2>1, <2>2, <2>3
<1> QED BY <1>1, <1>2, <1>3, <1>4, <1>5

\* The dumper thread.
LEMMA DumperKeepsBorrowing ==
  ASSUME Borrowing,
         (\E i \in Images : DumperRegisters(i)) \/ DumperBuildsSymbolizer \/ DumperPublishes
           \/ DumperDefers \/ DumperDecides \/ DumperKeeps \/ DumperRestores
  PROVE  Borrowing'
<1> USE ThreadsAreApart DEF Borrowing, Goes, traceVars
<1>1. CASE \E i \in Images : DumperRegisters(i)
  BY <1>1 DEF DumperRegisters, Steps, Holding, Lending, Published
<1>2. CASE DumperBuildsSymbolizer
  <2>1. Steps' /\ Holding'
    BY <1>2 DEF DumperBuildsSymbolizer, Steps, Holding
  <2>2. Lending'
    BY <1>2 DEF DumperBuildsSymbolizer, Steps, Lending, Published
  <2> QED BY <2>1, <2>2
<1>3. CASE DumperPublishes
  <2>1. Steps' /\ Holding'
    BY <1>3 DEF DumperPublishes, Steps, Holding
  <2>2. Lending'
    BY <1>3, QueriesAssumption DEF DumperPublishes, Steps, Holding, Lending, Published
  <2> QED BY <2>1, <2>2
<1>4. CASE DumperDefers
  <2>1. Steps' /\ Holding'
    BY <1>4 DEF DumperDefers, Steps, Holding
  <2>2. Lending'
    BY <1>4 DEF DumperDefers, Steps, Lending, Published
  <2> QED BY <2>1, <2>2
<1>5. CASE DumperDecides
  <2>1. Steps' /\ Holding'
    BY <1>5 DEF DumperDecides, Steps, Holding
  <2>2. Lending'
    BY <1>5 DEF DumperDecides, Steps, Lending, Published
  <2> QED BY <2>1, <2>2
<1>6. CASE DumperKeeps
  <2>1. Steps' /\ Holding'
    BY <1>6 DEF DumperKeeps, Steps, Holding
  <2>2. Lending'
    BY <1>6 DEF DumperKeeps, Steps, Lending, Published
  <2> QED BY <2>1, <2>2
<1>7. CASE DumperRestores
  <2>1. Steps' /\ Holding'
    BY <1>7 DEF DumperRestores, Steps, Holding
  <2>2. Lending'
    BY <1>7 DEF DumperRestores, Steps, Lending, Published
  <2> QED BY <2>1, <2>2
<1> QED BY <1>1, <1>2, <1>3, <1>4, <1>5, <1>6, <1>7

\* Sample queries, the symbol tools, and the collection of names.
LEMMA OthersKeepBorrowing ==
  ASSUME Borrowing,
         \/ \E t \in Threads : ResolveOne(t)
         \/ \E s \in Samples : SamplesBegin(s) \/ SamplesKeep(s)
         \/ \E p \in Paths : ResolverSets(p)
         \/ ResolverDropsMemo \/ ResolverPopsTables
         \/ \E B \in SUBSET DOMAIN modules : ResolverLoads(B)
         \/ UNCHANGED qvars
  PROVE  Borrowing'
<1> USE ThreadsAreApart DEF Borrowing, Goes, traceVars
<1>1. CASE \E t \in Threads : ResolveOne(t)
  BY <1>1 DEF ResolveOne, Steps, Holding, Lending, Published
<1>2. ASSUME NEW s \in Samples, SamplesBegin(s) PROVE Borrowing'
  BY <1>2 DEF SamplesBegin, Steps, Holding, Lending, Published
<1>3. ASSUME NEW s \in Samples, SamplesKeep(s) PROVE Borrowing'
  BY <1>3 DEF SamplesKeep, Steps, Holding, Lending, Published
<1>4. CASE \E p \in Paths : ResolverSets(p)
  BY <1>4 DEF ResolverSets, Steps, Holding, Lending, Published
<1>5. CASE ResolverDropsMemo
  BY <1>5 DEF ResolverDropsMemo, Steps, Holding, Lending, Published
<1>6. CASE ResolverPopsTables
  BY <1>6 DEF ResolverPopsTables, Steps, Holding, Lending, Published
<1>7. CASE \E B \in SUBSET DOMAIN modules : ResolverLoads(B)
  BY <1>7 DEF ResolverLoads, Steps, Holding, Lending, Published
<1>8. CASE UNCHANGED qvars
  BY <1>8 DEF qvars, Steps, Holding, Lending, Published
<1> QED BY <1>1, <1>2, <1>3, <1>4, <1>5, <1>6, <1>7, <1>8

\* What is borrowed and by whom, whatever the threads do in whatever order.
THEOREM InductiveBorrowing == QueriesSpec => []Borrowing
<1>1. ASSUME Borrowing, [QueriesNext]_qvars PROVE Borrowing'
  BY <1>1, QueryTakesKeepBorrowing, QueryHoldsKeepBorrowing, DumperKeepsBorrowing,
     OthersKeepBorrowing DEF QueriesNext
<1> QED BY BorrowingInit, <1>1, PTL DEF QueriesSpec

\* A stack query's frame, the deferral flag and its place at the gate are given
\* back by every way out of it, for any number of queries and places.
THEOREM BorrowedComesBack == QueriesSpec => []BorrowedIsReturned
<1>1. Borrowing => BorrowedIsReturned
  BY ThreadsAreApart DEF Borrowing, Steps, Holding, Lending, BorrowedIsReturned
<1> QED BY InductiveBorrowing, <1>1, PTL

(***************************************************************************)
(* The symbolizer                                                          *)
(***************************************************************************)

\* Every step of the tools is a step of the symbolizer or leaves it alone.
LEMMA QueriesUseSymbolizer ==
  ASSUME [QueriesNext]_qvars
  PROVE  [SymbolizerNext]_symVars
<1>1. CASE \E t \in Threads : ResolveOne(t)
  <2> PICK t \in Threads : ResolveOne(t)
    BY <1>1
  <2> PICK a \in Addresses \ DOMAIN built[t] : UNCHANGED symVars \/ Resolve(a)
    BY DEF ResolveOne
  <2> QED BY DEF SymbolizerNext
<1>2. ASSUME NEW q \in Queries,
             QueryBegins(q) \/ QueryIsBusy(q) \/ QueryLooks(q) \/ QueryTriesStore(q)
               \/ QueryStores(q) \/ QueryTriesRaw(q) \/ QueryKeepsRaw(q) \/ QueryFails(q)
               \/ QueryAnswers(q)
      PROVE  UNCHANGED symVars
  BY <1>2 DEF QueryBegins, QueryIsBusy, QueryLooks, QueryTriesStore, QueryStores, QueryTriesRaw,
              QueryKeepsRaw, QueryFails, QueryAnswers
<1>3. ASSUME NEW s \in Samples, SamplesBegin(s) \/ SamplesKeep(s)
      PROVE  UNCHANGED symVars
  BY <1>3 DEF SamplesBegin, SamplesKeep
<1>4. ASSUME NEW p \in Paths, ResolverSets(p) PROVE SymbolizerNext
  BY <1>4 DEF ResolverSets, SymbolizerNext
<1>5. ASSUME NEW B \in SUBSET DOMAIN modules, ResolverLoads(B) PROVE SymbolizerNext
  BY <1>5 DEF ResolverLoads, SymbolizerNext
<1>6. ASSUME NEW i \in Images, DumperRegisters(i) PROVE SymbolizerNext
  BY <1>6 DEF DumperRegisters, SymbolizerNext
<1>7. CASE \/ ResolverDropsMemo \/ ResolverPopsTables \/ DumperBuildsSymbolizer
           \/ DumperPublishes \/ DumperDefers \/ DumperDecides \/ DumperKeeps \/ DumperRestores
           \/ UNCHANGED qvars
  BY <1>7 DEF ResolverDropsMemo, ResolverPopsTables, DumperBuildsSymbolizer, DumperPublishes,
              DumperDefers, DumperDecides, DumperKeeps, DumperRestores, qvars
<1> QED BY <1>1, <1>2, <1>3, <1>4, <1>5, <1>6, <1>7 DEF QueriesNext

LEMMA SymbolizerStarts ==
  ASSUME SymbolizerInit \/ CachedInit
  PROVE  SymbolizerInv
<1>0. ASSUME NEW f, f = << >> PROVE DOMAIN f = {}
  BY <1>0
<1>1. CASE SymbolizerInit
  <2>1. DOMAIN modules = {} /\ DOMAIN cache = {}
    BY <1>0, <1>1 DEF SymbolizerInit
  <2> QED BY <1>1, <2>1, SymbolizerAssumption
             DEF SymbolizerInit, SymbolizerInv, SymbolizerTypeOK, FailuresAreCurrent, LoadedExact
<1>2. CASE CachedInit
  <2>1. PICK B \in (SUBSET Bases) \ {{}} :
          /\ modules \in [B -> [image : Images, state : {"deferred"}]]
          /\ \A b \in B : modules[b].image.base = b
    BY <1>2 DEF CachedInit, Registered
  <2>2. SymbolizerTypeOK
    <3>1. DOMAIN modules = B /\ DOMAIN cache = {}
      BY <1>0, <1>2, <2>1 DEF CachedInit
    <3>2. ASSUME NEW b \in DOMAIN modules
          PROVE  modules[b] \in [image : Images, state : States]
      <4>1. modules[b] \in [image : Images, state : {"deferred"}]
        BY <2>1, <3>1
      <4> QED BY <4>1 DEF States
    <3> QED BY <1>2, <2>1, <3>1, <3>2, SymbolizerAssumption DEF CachedInit, SymbolizerTypeOK
  <2>3. FailuresAreCurrent /\ LoadedExact
    BY <1>2, <2>1 DEF CachedInit, FailuresAreCurrent, Failed, LoadedExact, ExactFor
  <2> QED BY <2>2, <2>3 DEF SymbolizerInv
<1> QED BY <1>1, <1>2

\* What a file that was found gives is of the identity that was asked for.
LEMMA FoundIsExact ==
  ASSUME FoldersAreTrue, NEW p \in Paths, NEW i, NEW f
  PROVE  /\ f \in FoundBySearch(p, i) =>
              \A o \in LoadFile(f, "search") : ExactFor(i, o.bound)
         /\ f \in FoundByListing(p, i) =>
              \A o \in LoadFile(f, "listing") : ExactFor(i, o.bound)
<1>1. ASSUME f \in FoundBySearch(p, i), NEW o \in LoadFile(f, "search")
      PROVE  ExactFor(i, o.bound)
  <2>1. SearchAccepts(i, f)
    BY <1>1 DEF FoundBySearch
  <2>2. o.bound = Nothing \/ o.bound = Pdb(f, "search")
    BY <1>1 DEF LoadFile
  <2> QED BY <2>1, <2>2 DEF SearchAccepts, Exact, Readable, ExactFor, Pdb
<1>2. ASSUME f \in FoundByListing(p, i), NEW o \in LoadFile(f, "listing")
      PROVE  ExactFor(i, o.bound)
  <2>1. PICK c \in Listed(p, i) : f = FileAt(p, c) /\ ListingAccepts(i, f)
    BY <1>2 DEF FoundByListing
  <2>2. PICK k \in DOMAIN p : \E n \in DOMAIN Store[p[k]] : c = <<k, n>>
    BY <2>1 DEF Listed, Candidates
  <2>3. PICK n \in DOMAIN Store[p[k]] : c = <<k, n>>
    BY <2>2
  <2>4. f = Store[p[k]][n] /\ p[k] \in DOMAIN Store
    BY <2>1, <2>3, SymbolizerAssumption DEF FileAt
  <2>5. f.format = "msfz" /\ f.folder # None => f.folder = [guid |-> f.guid, age |-> f.age]
    BY <2>4 DEF FoldersAreTrue
  <2>6. f.guid = i.guid /\ f.age = i.age
    <3>1. CASE Exact(i, f)
      BY <3>1 DEF Exact
    <3>2. CASE ~Exact(i, f)
      <4>1. [guid |-> f.guid, age |-> f.age] = [guid |-> i.guid, age |-> i.age]
        BY <2>1, <2>5, <3>2 DEF ListingAccepts
      <4>2. /\ [guid |-> f.guid, age |-> f.age].guid = [guid |-> i.guid, age |-> i.age].guid
            /\ [guid |-> f.guid, age |-> f.age].age = [guid |-> i.guid, age |-> i.age].age
        BY <4>1
      <4> QED BY <4>2
    <3> QED BY <3>1, <3>2
  <2>7. o.bound = Nothing \/ o.bound = Pdb(f, "listing")
    BY <1>2 DEF LoadFile
  <2> QED BY <2>6, <2>7 DEF ExactFor, Pdb
<1> QED BY <1>1, <1>2

\* What an attempt may come to: a state other than deferred and, of a module
\* with an identity, nothing or its own PDB.
LEMMA AttemptOutcomes ==
  ASSUME NEW p \in Paths, NEW i, NEW o, o \in Attempts(p, i)
  PROVE  /\ o.state \in States /\ o.state # "deferred"
         /\ FoldersAreTrue => ExactFor(i, o.bound)
<1>1. CASE i.guid # None /\ i.pdb = None
  BY <1>1 DEF Attempts, ExactFor, States
<1>2. CASE i.guid # None /\ i.pdb # None
  <2>1. \/ \E f \in FoundBySearch(p, i) : o \in LoadFile(f, "search")
        \/ \E f \in FoundByListing(p, i) : o \in LoadFile(f, "listing")
        \/ o = NotFound(p, i)
    BY <1>2 DEF Attempts
  <2>2. o.state \in States /\ o.state # "deferred"
    BY <2>1 DEF LoadFile, NotFound, States
  <2>3. ASSUME FoldersAreTrue PROVE ExactFor(i, o.bound)
    <3>1. CASE o = NotFound(p, i)
      BY <3>1 DEF NotFound, ExactFor
    <3> QED BY <2>1, <2>3, <3>1, FoundIsExact
  <2> QED BY <2>2, <2>3
<1>3. CASE i.guid = None
  BY <1>3 DEF Attempts, ExactFor, States
<1> QED BY <1>1, <1>2, <1>3

\* What an attempt of the modules in B changes, and what it leaves alone.
LEMMA LoadSteps ==
  ASSUME SymbolizerTypeOK, NEW B \in SUBSET DOMAIN modules, NEW outcome, Load(B, outcome)
  PROVE  /\ DOMAIN modules' = DOMAIN modules
         /\ \A b \in DOMAIN modules :
              IF b \in B /\ ~Attempted(b)
              THEN /\ outcome[b] \in Attempts(path, modules[b].image)
                   /\ modules'[b] \in [image : Images, state : States]
                   /\ modules'[b].image = modules[b].image
                   /\ modules'[b].state # "deferred"
                   /\ tried'[b] = path
                   /\ FoldersAreTrue => ExactFor(modules[b].image, outcome[b].bound)
              ELSE /\ modules'[b] = modules[b] /\ tried'[b] = tried[b]
                   /\ b \in B => outcome[b].bound = bound[b]
<1>1. DOMAIN modules' = DOMAIN modules
  BY DEF Load
<1>2. ASSUME NEW b \in DOMAIN modules, b \in B, ~Attempted(b)
      PROVE  /\ outcome[b] \in Attempts(path, modules[b].image)
             /\ modules'[b] \in [image : Images, state : States]
             /\ modules'[b].image = modules[b].image
             /\ modules'[b].state # "deferred"
             /\ tried'[b] = path
             /\ FoldersAreTrue => ExactFor(modules[b].image, outcome[b].bound)
  <2>1. outcome[b] \in Attempts(path, modules[b].image)
    BY <1>2 DEF Load
  <2>2. /\ outcome[b].state \in States /\ outcome[b].state # "deferred"
        /\ FoldersAreTrue => ExactFor(modules[b].image, outcome[b].bound)
    BY <2>1, AttemptOutcomes DEF SymbolizerTypeOK
  <2>3. modules'[b] = [modules[b] EXCEPT !.state = outcome[b].state]
    BY <1>2 DEF Load
  <2>4. tried'[b] = path
    BY <1>2 DEF Load, SymbolizerTypeOK
  <2> QED BY <2>1, <2>2, <2>3, <2>4 DEF SymbolizerTypeOK
<1>3. ASSUME NEW b \in DOMAIN modules, ~(b \in B /\ ~Attempted(b))
      PROVE  /\ modules'[b] = modules[b] /\ tried'[b] = tried[b]
             /\ b \in B => outcome[b].bound = bound[b]
  <2>1. b \in B => outcome[b] = [state |-> modules[b].state, bound |-> bound[b]]
    BY <1>3 DEF Load
  <2>2. modules'[b] = modules[b]
    <3>1. CASE b \in B
      <4>1. modules'[b] = [modules[b] EXCEPT !.state = modules[b].state]
        BY <2>1, <3>1 DEF Load
      <4> QED BY <4>1 DEF SymbolizerTypeOK
    <3>2. CASE b \notin B
      BY <3>2 DEF Load
    <3> QED BY <3>1, <3>2
  <2>3. tried'[b] = tried[b]
    BY <1>3 DEF Load, SymbolizerTypeOK
  <2> QED BY <2>1, <2>2, <2>3
<1> QED BY <1>1, <1>2, <1>3

\* A module whose names have been read keeps its state and what DbgHelp holds
\* of it; the others, what LoadSteps says.
Steady ==
  /\ DOMAIN modules' = DOMAIN modules
  /\ \A b \in DOMAIN modules : Attempted(b) /\ bound[b].type # "deferred" =>
       modules'[b] = modules[b] /\ bound'[b] = bound[b]

\* So the module of an address and its answer stay.
LEMMA SettledStays ==
  ASSUME SymbolizerTypeOK, Steady, NEW a, Settled(a)
  PROVE  Settled(a)' /\ Answer(a)' = Answer(a)
<1>1. Containing(a)' = Containing(a)
  BY DEF Containing, Steady
<1>2. ModuleAt(a)' = ModuleAt(a)
  BY <1>1 DEF ModuleAt
<1>3. ModuleAt(a) # None => ModuleAt(a) \in DOMAIN modules
  BY DEF ModuleAt, Containing
<1>4. ASSUME ModuleAt(a) # None
      PROVE  /\ modules'[ModuleAt(a)] = modules[ModuleAt(a)]
             /\ bound'[ModuleAt(a)] = bound[ModuleAt(a)]
  BY <1>3, <1>4 DEF Settled, Steady
<1> QED BY <1>2, <1>4 DEF Settled, Attempted, Answer

\* resolve of an address whose module is registered.
LEMMA ResolveSteps ==
  ASSUME SymbolizerTypeOK, NEW a \in Addresses, Resolve(a), ModuleAt(a) # None
  PROVE  /\ ModuleAt(a) \in DOMAIN modules
         /\ \E o \in Outcomes : \E h \in Probed(o.bound) :
              /\ Load({ModuleAt(a)}, [c \in {ModuleAt(a)} |-> o])
              /\ bound' = [bound EXCEPT ![ModuleAt(a)] = h]
              /\ cache' = [x \in DOMAIN cache \union {a} |->
                             IF x = a THEN Named(modules'[ModuleAt(a)], h) ELSE cache[x]]
              /\ h.type # "deferred"
              /\ o.bound.type # "deferred" => h = o.bound
<1>1. ModuleAt(a) \in DOMAIN modules
  BY DEF ModuleAt, Containing
<1>2. PICK o \in Outcomes : \E h \in Probed(o.bound) :
        /\ Load({ModuleAt(a)}, [c \in {ModuleAt(a)} |-> o])
        /\ bound' = [bound EXCEPT ![ModuleAt(a)] = h]
        /\ cache' = [x \in DOMAIN cache \union {a} |->
                       IF x = a THEN Named(modules'[ModuleAt(a)], h) ELSE cache[x]]
  BY DEF Resolve
<1>3. PICK h \in Probed(o.bound) :
        /\ Load({ModuleAt(a)}, [c \in {ModuleAt(a)} |-> o])
        /\ bound' = [bound EXCEPT ![ModuleAt(a)] = h]
        /\ cache' = [x \in DOMAIN cache \union {a} |->
                       IF x = a THEN Named(modules'[ModuleAt(a)], h) ELSE cache[x]]
  BY <1>2
<1>4. h.type # "deferred" /\ (o.bound.type # "deferred" => h = o.bound)
  BY <1>3 DEF Probed, Exports, Nothing, OwnPdb
<1> QED BY <1>1, <1>3, <1>4


LEMMA ResolveKeeps ==
  ASSUME SymbolizerInv, NEW a \in Addresses, Resolve(a)
  PROVE  SymbolizerInv' /\ Steady
<1> USE DEF SymbolizerInv
<1>1. CASE ModuleAt(a) = None
  <2>1. UNCHANGED <<modules, bound, tried, path, pathError>> /\ started' = TRUE
    BY <1>1 DEF Resolve
  <2>2. DOMAIN cache' \subseteq Addresses
    BY <1>1 DEF Resolve, SymbolizerTypeOK
  <2>3. SymbolizerTypeOK'
    BY <2>1, <2>2 DEF SymbolizerTypeOK
  <2>4. FailuresAreCurrent' /\ (FoldersAreTrue => LoadedExact')
    BY <2>1 DEF FailuresAreCurrent, Failed, LoadedExact, Attempted
  <2> QED BY <2>1, <2>3, <2>4 DEF Steady
<1>2. CASE ModuleAt(a) # None
  <2> DEFINE b == ModuleAt(a)
  <2>1. b \in DOMAIN modules
    BY <1>2, ResolveSteps
  <2>2. PICK o \in Outcomes : \E h \in Probed(o.bound) :
          /\ Load({b}, [c \in {b} |-> o])
          /\ bound' = [bound EXCEPT ![b] = h]
          /\ cache' = [x \in DOMAIN cache \union {a} |->
                         IF x = a THEN Named(modules'[b], h) ELSE cache[x]]
          /\ h.type # "deferred"
          /\ o.bound.type # "deferred" => h = o.bound
    BY <1>2, ResolveSteps
  <2>3. PICK h \in Probed(o.bound) :
          /\ Load({b}, [c \in {b} |-> o])
          /\ bound' = [bound EXCEPT ![b] = h]
          /\ DOMAIN cache' = DOMAIN cache \union {a}
          /\ h.type # "deferred"
          /\ o.bound.type # "deferred" => h = o.bound
    BY <2>2
  <2> HIDE DEF b
  <2>4. /\ DOMAIN modules' = DOMAIN modules
        /\ \A c \in DOMAIN modules :
             IF c = b /\ ~Attempted(c)
             THEN /\ modules'[c] \in [image : Images, state : States]
                  /\ modules'[c].image = modules[c].image
                  /\ modules'[c].state # "deferred"
                  /\ tried'[c] = path
                  /\ FoldersAreTrue => ExactFor(modules[c].image, o.bound)
             ELSE /\ modules'[c] = modules[c] /\ tried'[c] = tried[c]
                  /\ c = b => o.bound = bound[b]
    <3> DEFINE outcome == [c \in {b} |-> o]
    <3>1. outcome[b] = o /\ {b} \in SUBSET DOMAIN modules /\ Load({b}, outcome)
      BY <2>1, <2>3
    <3> HIDE DEF outcome
    <3>2. /\ DOMAIN modules' = DOMAIN modules
          /\ \A c \in DOMAIN modules :
               IF c \in {b} /\ ~Attempted(c)
               THEN /\ modules'[c] \in [image : Images, state : States]
                    /\ modules'[c].image = modules[c].image
                    /\ modules'[c].state # "deferred"
                    /\ tried'[c] = path
                    /\ FoldersAreTrue => ExactFor(modules[c].image, outcome[c].bound)
               ELSE /\ modules'[c] = modules[c] /\ tried'[c] = tried[c]
                    /\ c \in {b} => outcome[c].bound = bound[c]
      BY <3>1, LoadSteps, SMTT(30)
    <3> QED BY <3>1, <3>2
  <2>5. /\ DOMAIN bound' = Bases
        /\ \A c \in Bases : c # b => bound'[c] = bound[c]
        /\ bound'[b] = h /\ b \in Bases
    BY <2>1, <2>3 DEF SymbolizerTypeOK
  <2>6. UNCHANGED <<path, pathError>> /\ started' \in BOOLEAN
    BY <2>3 DEF Resolve, Load, SymbolizerTypeOK
  <2>7. SymbolizerTypeOK'
    <3>1. DOMAIN modules' \subseteq Bases /\ DOMAIN cache' \subseteq Addresses
      BY <2>3, <2>4 DEF SymbolizerTypeOK
    <3>2. ASSUME NEW c \in DOMAIN modules'
          PROVE  modules'[c] \in [image : Images, state : States] /\ modules'[c].image.base = c
      BY <2>4 DEF SymbolizerTypeOK
    <3> QED BY <2>5, <2>6, <3>1, <3>2 DEF SymbolizerTypeOK
  <2>8. FailuresAreCurrent'
    BY <2>1, <2>4, <2>6 DEF FailuresAreCurrent, Failed, Attempted
  <2>9. ASSUME FoldersAreTrue PROVE LoadedExact'
    <3>1. o.bound = Nothing => h = Nothing
      BY <2>3 DEF Nothing
    <3>2. \A i : i.guid # None /\ ExactFor(i, o.bound) => o.bound.type # "deferred"
      BY DEF ExactFor, Nothing
    <3>3. \A i : ExactFor(i, o.bound) => ExactFor(i, h)
      BY <2>3, <3>2 DEF ExactFor
    <3>4. ExactFor(modules'[b].image, h)
      BY <2>1, <2>4, <2>9, <3>3 DEF LoadedExact
    <3>5. ASSUME NEW c \in DOMAIN modules' PROVE ExactFor(modules'[c].image, bound'[c])
      BY <2>4, <2>5, <2>9, <3>4 DEF LoadedExact, SymbolizerTypeOK
    <3>6. ASSUME NEW c \in Bases, c \notin DOMAIN modules' \/ ~Attempted(c)'
          PROVE  bound'[c] = Nothing
      <4>1. c # b
        BY <2>1, <2>4, <3>6 DEF Attempted
      <4> QED BY <2>4, <2>5, <2>9, <3>6, <4>1 DEF LoadedExact, Attempted
    <3> QED BY <3>5, <3>6 DEF LoadedExact
  <2>10. Steady
    <3>1. ASSUME NEW c \in DOMAIN modules, Attempted(c), bound[c].type # "deferred"
          PROVE  modules'[c] = modules[c] /\ bound'[c] = bound[c]
      <4>1. CASE c = b
        BY <2>3, <2>4, <2>5, <3>1, <4>1
      <4>2. CASE c # b
        BY <2>4, <2>5, <3>1, <4>2 DEF SymbolizerTypeOK
      <4> QED BY <4>1, <4>2
    <3> QED BY <2>4, <3>1 DEF Steady
  <2> QED BY <2>7, <2>8, <2>9, <2>10
<1> QED BY <1>1, <1>2

LEMMA EnsureLoadedKeeps ==
  ASSUME SymbolizerInv, NEW B, EnsureLoaded(B)
  PROVE  SymbolizerInv' /\ Steady
<1> USE DEF SymbolizerInv
<1>1. B \in SUBSET DOMAIN modules
  BY DEF EnsureLoaded
<1>2. PICK outcome \in [B -> Outcomes] :
        /\ Load(B, outcome)
        /\ bound' = [b \in Bases |-> IF b \in B THEN outcome[b].bound ELSE bound[b]]
  BY DEF EnsureLoaded
<1>3. /\ DOMAIN modules' = DOMAIN modules
      /\ \A c \in DOMAIN modules :
           IF c \in B /\ ~Attempted(c)
           THEN /\ modules'[c] \in [image : Images, state : States]
                /\ modules'[c].image = modules[c].image
                /\ modules'[c].state # "deferred"
                /\ tried'[c] = path
                /\ FoldersAreTrue => ExactFor(modules[c].image, outcome[c].bound)
           ELSE /\ modules'[c] = modules[c] /\ tried'[c] = tried[c]
                /\ c \in B => outcome[c].bound = bound[c]
  BY <1>1, <1>2, LoadSteps
<1>4. /\ DOMAIN bound' = Bases
      /\ \A c \in Bases : bound'[c] = IF c \in B THEN outcome[c].bound ELSE bound[c]
  BY <1>2
<1>5. UNCHANGED <<path, cache, pathError>> /\ started' \in BOOLEAN
  BY <1>2 DEF EnsureLoaded, Load, SymbolizerTypeOK
<1>6. SymbolizerTypeOK'
  <2>1. ASSUME NEW c \in DOMAIN modules'
        PROVE  modules'[c] \in [image : Images, state : States] /\ modules'[c].image.base = c
    BY <1>3 DEF SymbolizerTypeOK
  <2> QED BY <1>3, <1>4, <1>5, <2>1 DEF SymbolizerTypeOK
<1>7. FailuresAreCurrent'
  BY <1>3, <1>5 DEF FailuresAreCurrent, Failed, Attempted
<1>8. ASSUME FoldersAreTrue PROVE LoadedExact'
  <2>1. ASSUME NEW c \in DOMAIN modules' PROVE ExactFor(modules'[c].image, bound'[c])
    BY <1>3, <1>4, <1>8, <2>1 DEF LoadedExact, SymbolizerTypeOK
  <2>2. ASSUME NEW c \in Bases, c \notin DOMAIN modules' \/ ~Attempted(c)'
        PROVE  bound'[c] = Nothing
    BY <1>1, <1>3, <1>4, <1>8, <2>2 DEF LoadedExact, Attempted
  <2> QED BY <2>1, <2>2 DEF LoadedExact
<1>9. Steady
  BY <1>3, <1>4 DEF Steady, SymbolizerTypeOK
<1> QED BY <1>6, <1>7, <1>8, <1>9


LEMMA AddModuleKeeps ==
  ASSUME SymbolizerInv, NEW i \in Images, AddModule(i)
  PROVE  SymbolizerInv'
<1> USE DEF SymbolizerInv
<1> DEFINE b == i.base
           replaced == b \in DOMAIN modules /\ ~SameModule(modules[b].image, i)
           fresh == [image |-> i, state |-> "deferred"]
<1>1. b \in Bases
  BY SymbolizerAssumption
<1>2. /\ DOMAIN modules' = DOMAIN modules \union {b}
      /\ \A c \in DOMAIN modules' :
           modules'[c] = IF c = b /\ (b \notin DOMAIN modules \/ replaced)
                         THEN fresh ELSE modules[c]
  BY DEF AddModule
<1>3. IF replaced /\ Attempted(b)
      THEN cache' = << >> /\ bound' = [bound EXCEPT ![b] = Nothing]
      ELSE UNCHANGED <<cache, bound>>
  BY DEF AddModule
<1>4. UNCHANGED <<path, started, tried, pathError>>
  BY DEF AddModule
<1>5. fresh \in [image : Images, state : States] /\ fresh.image = i /\ fresh.state = "deferred"
  BY DEF States
<1>6. SymbolizerTypeOK'
  <2>1. ASSUME NEW c \in DOMAIN modules'
        PROVE  modules'[c] \in [image : Images, state : States] /\ modules'[c].image.base = c
    BY <1>2, <1>5 DEF SymbolizerTypeOK
  <2>2. DOMAIN bound' = Bases /\ DOMAIN cache' \subseteq Addresses
    <3>1. ASSUME cache' = << >> PROVE DOMAIN cache' = {}
      BY <3>1
    <3> QED BY <1>3, <3>1 DEF SymbolizerTypeOK
  <2> QED BY <1>1, <1>2, <1>4, <2>1, <2>2 DEF SymbolizerTypeOK
<1>7. FailuresAreCurrent'
  BY <1>2, <1>4, <1>5 DEF FailuresAreCurrent, Failed
<1>8. ASSUME FoldersAreTrue PROVE LoadedExact'
  <2>1. \A c \in Bases : c # b => bound'[c] = bound[c]
    BY <1>3 DEF SymbolizerTypeOK
  <2>2. (b \notin DOMAIN modules \/ replaced) => bound'[b] = Nothing
    BY <1>1, <1>3, <1>8 DEF LoadedExact, SymbolizerTypeOK
  <2>3. ~(b \notin DOMAIN modules \/ replaced) =>
           bound'[b] = bound[b] /\ modules'[b] = modules[b]
    BY <1>2, <1>3
  <2> HIDE DEF b, replaced, fresh
  <2>4. ASSUME NEW c \in DOMAIN modules' PROVE ExactFor(modules'[c].image, bound'[c])
    <3>1. CASE c = b /\ (b \notin DOMAIN modules \/ replaced)
      BY <2>2, <3>1 DEF ExactFor
    <3>2. CASE ~(c = b /\ (b \notin DOMAIN modules \/ replaced))
      BY <1>2, <1>8, <2>1, <2>3, <2>4, <3>2 DEF LoadedExact, SymbolizerTypeOK
    <3> QED BY <3>1, <3>2
  <2>5. ASSUME NEW c \in Bases, c \notin DOMAIN modules' \/ ~Attempted(c)'
        PROVE  bound'[c] = Nothing
    <3>1. CASE c = b /\ (b \notin DOMAIN modules \/ replaced)
      BY <2>2, <3>1
    <3>2. CASE ~(c = b /\ (b \notin DOMAIN modules \/ replaced))
      <4>1. bound'[c] = bound[c]
        BY <2>1, <2>3, <2>5, <3>2
      <4>2. c \notin DOMAIN modules \/ ~Attempted(c)
        BY <1>2, <2>5, <3>2 DEF Attempted
      <4> QED BY <1>8, <4>1, <4>2 DEF LoadedExact
    <3> QED BY <3>1, <3>2
  <2> QED BY <2>4, <2>5 DEF LoadedExact
<1> QED BY <1>6, <1>7, <1>8

\* set_symbol_path, whether it has anything to invalidate or not.
LEMMA SetSymbolPathKeeps ==
  ASSUME SymbolizerInv, NEW p \in Paths, SetSymbolPath(p)
  PROVE  SymbolizerInv' /\ (~Invalidates(p) => Steady)
<1> USE DEF SymbolizerInv
<1>1. /\ DOMAIN modules' = DOMAIN modules
      /\ \A b \in DOMAIN modules :
           /\ modules'[b].image = modules[b].image
           /\ modules'[b] \in [image : Images, state : States]
           /\ modules'[b].state = IF modules[b].state = "pdb" THEN "pdb" ELSE "deferred"
           /\ ~Failed(b) => modules'[b] = modules[b]
  <2>1. DOMAIN modules' = DOMAIN modules
    BY DEF SetSymbolPath
  <2>2. ASSUME NEW b \in DOMAIN modules
        PROVE  /\ modules'[b].image = modules[b].image
               /\ modules'[b] \in [image : Images, state : States]
               /\ modules'[b].state = IF modules[b].state = "pdb" THEN "pdb" ELSE "deferred"
               /\ ~Failed(b) => modules'[b] = modules[b]
    <3>1. modules'[b] = Retried(modules[b]) /\ modules[b] \in [image : Images, state : States]
      BY DEF SetSymbolPath, SymbolizerTypeOK
    <3> QED BY <3>1 DEF Retried, States, Failed
  <2> QED BY <2>1, <2>2
<1>2. /\ DOMAIN bound' = Bases
      /\ \A b \in Bases :
           bound'[b] = IF b \in DOMAIN modules /\ Failed(b) THEN Nothing ELSE bound[b]
  BY DEF SetSymbolPath
<1>3. path' = p /\ cache' = << >> /\ pathError' = FALSE /\ UNCHANGED <<started, tried>>
  BY DEF SetSymbolPath
<1>4. SymbolizerTypeOK'
  <2>1. DOMAIN cache' = {}
    BY <1>3
  <2> QED BY <1>1, <1>2, <1>3, <2>1 DEF SymbolizerTypeOK
<1>5. FailuresAreCurrent'
  BY <1>1 DEF FailuresAreCurrent, Failed
<1>6. ASSUME FoldersAreTrue PROVE LoadedExact'
  <2>1. ASSUME NEW b \in DOMAIN modules' PROVE ExactFor(modules'[b].image, bound'[b])
    BY <1>1, <1>2, <1>6, <2>1 DEF LoadedExact, SymbolizerTypeOK, ExactFor
  <2>2. ASSUME NEW b \in Bases, b \notin DOMAIN modules' \/ ~Attempted(b)'
        PROVE  bound'[b] = Nothing
    BY <1>1, <1>2, <1>6, <2>2 DEF LoadedExact, Attempted, Failed
  <2> QED BY <2>1, <2>2 DEF LoadedExact
<1>7. ~Invalidates(p) => Steady
  BY <1>1, <1>2 DEF Invalidates, Steady, SymbolizerTypeOK
<1> QED BY <1>4, <1>5, <1>6, <1>7

LEMMA SetSymbolPathRaisesKeeps ==
  ASSUME SymbolizerInv, NEW p \in Paths, SetSymbolPathRaises(p)
  PROVE  SymbolizerInv' /\ Steady
BY DEF SetSymbolPathRaises, SymbolizerInv, SymbolizerTypeOK, FailuresAreCurrent, Failed,
       LoadedExact, Attempted, Steady

\* The symbolizer's invariant, for any use that is made of it.
LEMMA SymbolizerKeeps ==
  ASSUME SymbolizerInv, [SymbolizerNext]_symVars
  PROVE  SymbolizerInv'
<1>1. CASE SymbolizerNext
  BY <1>1, ResolveKeeps, EnsureLoadedKeeps, AddModuleKeeps, SetSymbolPathKeeps,
     SetSymbolPathRaisesKeeps DEF SymbolizerNext
<1>2. CASE UNCHANGED symVars
  BY <1>2 DEF symVars, SymbolizerInv, SymbolizerTypeOK, FailuresAreCurrent, Failed,
              LoadedExact, Attempted
<1> QED BY <1>1, <1>2

\* What the symbolizer keeps is of the paths and modules it has now, in every
\* order of its own operations and in that of the tools.
THEOREM InductiveSymbolizer ==
  (SymbolizerSpec => []SymbolizerInv) /\ (QueriesSpec => []SymbolizerInv)
<1>1. QueriesInit => SymbolizerInit
  BY DEF QueriesInit
<1>2. SymbolizerInit \/ CachedInit => SymbolizerInv
  BY SymbolizerStarts
<1>3. SymbolizerInv /\ [SymbolizerNext]_symVars => SymbolizerInv'
  BY SymbolizerKeeps
<1>4. [QueriesNext]_qvars => [SymbolizerNext]_symVars
  BY QueriesUseSymbolizer
<1>5. SymbolizerSpec => []SymbolizerInv
  BY <1>2, <1>3, PTL DEF SymbolizerSpec
<1>6. QueriesSpec => []SymbolizerInv
  BY <1>1, <1>2, <1>3, <1>4, PTL DEF QueriesSpec
<1> QED BY <1>5, <1>6


(***************************************************************************)
(* Names that are kept: the cache, what a thread has collected, the tables *)
(***************************************************************************)

\* Whatever is current stays so.
Carries == \A a : Settled(a) => Settled(a)' /\ Answer(a)' = Answer(a)

LEMMA SteadyCarries ==
  /\ SymbolizerTypeOK /\ Steady => Carries
  /\ UNCHANGED symVars => Carries
<1>1. SymbolizerTypeOK /\ Steady => Carries
  BY SettledStays DEF Carries
<1>2. ASSUME UNCHANGED symVars, NEW a
      PROVE  Settled(a)' = Settled(a) /\ Answer(a)' = Answer(a)
  BY <1>2 DEF symVars, Settled, Answer, ModuleAt, Containing, Attempted
<1> QED BY <1>1, <1>2 DEF Carries

LEMMA ResolveCurrent ==
  ASSUME SymbolizerInv, Current(cache), NEW a \in Addresses, Resolve(a)
  PROVE  Current(cache)' /\ a \in DOMAIN cache'
<1>1. Steady /\ SymbolizerTypeOK /\ Carries
  BY ResolveKeeps, SteadyCarries DEF SymbolizerInv
<1>2. ModuleAt(a)' = ModuleAt(a)
  BY <1>1 DEF ModuleAt, Containing, Steady
<1>3. /\ DOMAIN cache' = DOMAIN cache \union {a}
      /\ \A x \in DOMAIN cache' : x # a => cache'[x] = cache[x]
      /\ cache'[a] = Answer(a)' /\ Settled(a)'
  <2>1. CASE ModuleAt(a) = None
    BY <1>2, <2>1 DEF Resolve, Answer, Settled
  <2>2. CASE ModuleAt(a) # None
    <3> DEFINE b == ModuleAt(a)
    <3>1. b \in DOMAIN modules
      BY <2>2, ResolveSteps DEF SymbolizerInv
    <3>2. PICK o \in Outcomes : \E h \in Probed(o.bound) :
            /\ Load({b}, [c \in {b} |-> o])
            /\ bound' = [bound EXCEPT ![b] = h]
            /\ cache' = [x \in DOMAIN cache \union {a} |->
                           IF x = a THEN Named(modules'[b], h) ELSE cache[x]]
            /\ h.type # "deferred"
            /\ o.bound.type # "deferred" => h = o.bound
      BY <2>2, ResolveSteps DEF SymbolizerInv
    <3>3. PICK h \in Probed(o.bound) :
            /\ Load({b}, [c \in {b} |-> o])
            /\ bound' = [bound EXCEPT ![b] = h]
            /\ cache' = [x \in DOMAIN cache \union {a} |->
                           IF x = a THEN Named(modules'[b], h) ELSE cache[x]]
            /\ h.type # "deferred"
      BY <3>2
    <3> HIDE DEF b
    <3>4. modules'[b].state # "deferred"
      <4>1. {b} \in SUBSET DOMAIN modules
        BY <3>1
      <4>2. \A c \in DOMAIN modules :
              IF c \in {b} /\ ~Attempted(c)
              THEN modules'[c].state # "deferred" ELSE modules'[c] = modules[c]
        <5> DEFINE outcome == [c \in {b} |-> o]
        <5>1. Load({b}, outcome)
          BY <3>3
        <5> HIDE DEF outcome
        <5> QED BY <4>1, <5>1, LoadSteps DEF SymbolizerInv
      <4> QED BY <3>1, <4>2 DEF Attempted
    <3>5. bound'[b] = h
      BY <3>1, <3>3 DEF SymbolizerInv, SymbolizerTypeOK
    <3>6. ModuleAt(a)' = b /\ b # None
      BY <1>2, <2>2 DEF b
    <3>7. cache'[a] = Answer(a)'
      BY <3>3, <3>5, <3>6 DEF Answer
    <3>8. Settled(a)'
      BY <3>3, <3>4, <3>5, <3>6 DEF Settled, Attempted
    <3> QED BY <3>3, <3>7, <3>8
  <2> QED BY <2>1, <2>2
<1>4. ASSUME NEW x \in DOMAIN cache' PROVE cache'[x] = Answer(x)' /\ Settled(x)'
  <2>1. CASE x = a
    BY <1>3, <2>1
  <2>2. CASE x # a
    BY <1>1, <1>3, <2>2 DEF Current, Carries
  <2> QED BY <2>1, <2>2
<1> QED BY <1>3, <1>4 DEF Current

LEMMA EmptyIsCurrent ==
  ASSUME NEW t, t = << >>
  PROVE  DOMAIN t = {} /\ Current(t)
<1>1. DOMAIN t = {}
  OBVIOUS
<1> QED BY <1>1 DEF Current

LEMMA NamingInit ==
  ASSUME CachedInit \/ QueriesInit
  PROVE  Naming
<1>1. cache = << >> /\ \A t \in Threads : built[t] = << >> /\ pc[t] \in {"idle", "extract"}
  BY ThreadsAreApart DEF CachedInit, QueriesInit, SymbolizerInit
<1>2. Current(cache)
  BY <1>1, EmptyIsCurrent
<1>3. Extracting
  BY <1>1, ThreadsAreApart
     DEF CachedInit, QueriesInit, SymbolizerInit, Extracting, Collects, Collecting
<1>4. Collected
  <2>1. \A t \in Threads : ~Collects(t)
    BY <1>1 DEF Collects, Collecting
  <2>2. DOMAIN built = Threads /\ table \in {None, ModuleOnly} /\ memo = None
    BY DEF CachedInit, QueriesInit
  <2> QED BY <1>1, <2>1, <2>2 DEF Collected, Follows
<1> QED BY <1>2, <1>3, <1>4 DEF Naming

\* One more name: it comes from the cache, or goes into it.
LEMMA ResolveOneKeepsNaming ==
  ASSUME Borrowing, SymbolizerInv, Naming, NEW t \in Threads, ResolveOne(t)
  PROVE  Naming'
<1>1. PICK a \in Addresses \ DOMAIN built[t] :
        /\ IF a \in DOMAIN cache THEN UNCHANGED symVars ELSE Resolve(a)
        /\ built' = [built EXCEPT ![t] = [x \in DOMAIN @ \union {a} |->
                                           IF x = a THEN cache'[a] ELSE @[x]]]
  BY DEF ResolveOne
<1>2. Carries /\ Current(cache)' /\ a \in DOMAIN cache'
  <2>1. CASE a \in DOMAIN cache
    <3>1. UNCHANGED symVars /\ Carries
      BY <1>1, <2>1, SteadyCarries
    <3>2. cache' = cache
      BY <3>1 DEF symVars
    <3> QED BY <2>1, <3>1, <3>2 DEF Naming, Current, Carries
  <2>2. CASE a \notin DOMAIN cache
    BY <1>1, <2>2, ResolveKeeps, SteadyCarries, ResolveCurrent DEF Naming, SymbolizerInv
  <2> QED BY <2>1, <2>2
<1>3. UNCHANGED <<pc, store, table, memo, raced>> /\ Collects(t)
  BY DEF ResolveOne
<1>4. Extracting'
  BY <1>3, ThreadsAreApart DEF Naming, Extracting
<1>5. /\ DOMAIN built' = Threads
      /\ \A u \in Threads : u # t => built'[u] = built[u]
      /\ built'[t] = [x \in DOMAIN built[t] \union {a} |->
                        IF x = a THEN cache'[a] ELSE built[t][x]]
  BY <1>1 DEF Naming, Collected
<1>6. ASSUME ~raced, NEW u \in Threads, Collects(u), NEW x \in DOMAIN built'[u]
      PROVE  built'[u][x] = Answer(x)' /\ Settled(x)'
  <2>1. CASE u = t /\ x = a
    BY <1>2, <1>5, <2>1 DEF Current
  <2>2. CASE ~(u = t /\ x = a)
    <3>1. x \in DOMAIN built[u] /\ built'[u][x] = built[u][x]
      BY <1>5, <1>6, <2>2
    <3> QED BY <1>2, <1>6, <3>1 DEF Naming, Collected, Current, Carries
  <2> QED BY <2>1, <2>2
<1>7. Follows(memo) => Follows(memo)'
  BY <1>2, <1>3 DEF Follows, Current, Carries, ModuleOnly
<1>8. Follows(table) => Follows(table)'
  BY <1>2, <1>3 DEF Follows, Current, Carries, ModuleOnly
<1>9. \A u \in Threads : Collects(u)' = Collects(u)
  BY <1>3 DEF Collects
<1>10. Collected'
  BY <1>3, <1>5, <1>6, <1>7, <1>8, <1>9 DEF Naming, Collected, Current, ModuleOnly
<1> QED BY <1>2, <1>4, <1>10 DEF Naming


LEMMA AtRest ==
  ASSUME Naming, UNCHANGED symVars
  PROVE  /\ Current(cache)' /\ cache' = cache
         /\ \A a : Settled(a) => Settled(a)' /\ Answer(a)' = Answer(a)
<1>1. cache' = cache /\ Carries
  BY SteadyCarries DEF symVars
<1> QED BY <1>1 DEF Naming, Current, Carries

\* A stack query begins, looks at the table, or answers.
LEMMA QueryTakesKeepNaming ==
  ASSUME Borrowing, Naming, NEW q \in Queries,
         QueryBegins(q) \/ QueryIsBusy(q) \/ QueryLooks(q) \/ QueryAnswers(q)
  PROVE  Naming'
<1>1. UNCHANGED <<symVars, store, table, memo, raced, built>>
  BY DEF QueryBegins, QueryIsBusy, QueryLooks, QueryAnswers, traceVars
<1>2. /\ \A t \in Threads : t # q => pc'[t] = pc[t]
      /\ pc[q] \in {"idle", "look", "answer"} /\ pc'[q] \in {"idle", "look", "lock", "answer"}
  BY ThreadsAreApart
     DEF QueryBegins, QueryIsBusy, QueryLooks, QueryAnswers, Goes, Borrowing, Steps
<1>3. q # Dumper /\ q # Resolver /\ q \in Threads /\ Dumper \in Threads /\ Resolver \in Threads
  BY ThreadsAreApart
<1>4. \A t \in Threads : Collects(t)' <=> Collects(t)
  BY <1>2 DEF Collects, Collecting
<1>5. Extracting'
  BY <1>1, <1>2, <1>3, <1>4, AtRest DEF Naming, Extracting
<1>6. Collected'
  BY <1>1, <1>2, <1>3, <1>4, AtRest DEF Naming, Collected, Follows, Current, ModuleOnly
<1> QED BY <1>1, <1>5, <1>6, AtRest DEF Naming

\* A stack query goes to the event store.
LEMMA QueryTriesStoreKeepsNaming ==
  ASSUME Borrowing, Naming, NEW q \in Queries, QueryTriesStore(q)
  PROVE  Naming'
<1>1. /\ UNCHANGED <<symVars, store, memo, raced, built>>
      /\ table' = table \/ table' = ModuleOnly
  BY DEF QueryTriesStore
<1>2. /\ \A t \in Threads : t # q => pc'[t] = pc[t]
      /\ pc[q] = "lock" /\ pc'[q] \in {"store", "fallback"}
  BY ThreadsAreApart DEF QueryTriesStore, Borrowing, Steps
<1>3. q # Dumper /\ q # Resolver /\ q \in Threads /\ Dumper \in Threads /\ Resolver \in Threads
  BY ThreadsAreApart
<1>4. built[q] = << >> /\ ~Collects(q)
  BY <1>2, <1>3 DEF Naming, Collected, Collects, Collecting
<1>5. /\ \A t \in Threads : t # q => (Collects(t)' <=> Collects(t))
      /\ Collects(q)' => store /\ table' = table
  <2>1. pc'[q] = "store" => store /\ table' = table
    BY <1>3 DEF QueryTriesStore, Borrowing, Steps
  <2> QED BY <1>2, <1>3, <2>1 DEF Collects, Collecting
<1>6. Extracting'
  <2>1. pc[Dumper] = "extract" => ~store /\ table' = table
    BY DEF QueryTriesStore, Naming, Extracting
  <2> QED BY <1>1, <1>2, <1>3, <1>5, <2>1, AtRest DEF Naming, Extracting
<1>7. Follows(memo) => Follows(memo)'
  BY <1>1, AtRest DEF Follows, Current, ModuleOnly
<1>8. Follows(table) => Follows(table)'
  BY <1>1, AtRest DEF Follows, Current, ModuleOnly
<1>9. ~raced => \A t \in Threads : Collects(t)' => Current(built[t])'
  <2>1. ASSUME ~raced, NEW t \in Threads, Collects(t)', NEW x \in DOMAIN built'[t]
        PROVE  built'[t][x] = Answer(x)' /\ Settled(x)'
    <3>1. CASE t = q
      <4>1. DOMAIN built'[t] = {}
        BY <1>1, <1>4, <3>1, EmptyIsCurrent
      <4> QED BY <2>1, <4>1
    <3>2. CASE t # q
      BY <1>1, <1>5, <2>1, <3>2, AtRest DEF Naming, Collected, Current
    <3> QED BY <3>1, <3>2
  <2> QED BY <2>1 DEF Current
<1>10. Collected'
  BY <1>1, <1>2, <1>3, <1>4, <1>5, <1>7, <1>8, <1>9 DEF Naming, Collected, ModuleOnly
<1> QED BY <1>1, <1>6, <1>10, AtRest DEF Naming

\* A thread that has its names lays them down: in the table, in the memo, or
\* nowhere.
LEMMA LaysDown ==
  ASSUME Naming, NEW t \in Threads \ {Resolver}, UNCHANGED <<symVars, store, raced>>,
         Collects(t), ~Collects(t)', pc'[t] # "keep",
         \A u \in Threads : u # t => pc'[u] = pc[u],
         built' = [built EXCEPT ![t] = << >>],
         table' \in {table} \/ (Whole(t) /\ table' = built[t]),
         memo' \in {memo} \/ (Whole(t) /\ memo' = built[t]),
         pc'[Dumper] # "extract"
  PROVE  Naming'
<1>1. Extracting'
  BY DEF Extracting
<1>2. /\ DOMAIN built' = Threads /\ built'[t] = << >>
      /\ \A u \in Threads : u # t => built'[u] = built[u]
  BY DEF Naming, Collected
<1>3. \A u \in Threads : u # t => (Collects(u)' <=> Collects(u))
  BY DEF Collects
<1>4. ~raced => Current(built[t])
  BY DEF Naming, Collected
<1>5. ~raced => (Follows(memo) => Follows(memo)')
  BY <1>4, AtRest DEF Follows, Current, ModuleOnly, Whole
<1>6. ~raced => (Follows(table) => Follows(table)')
  BY <1>4, AtRest DEF Follows, Current, ModuleOnly, Whole
<1>7. ~raced => \A u \in Threads : Collects(u)' => Current(built[u])'
  BY <1>2, <1>3, AtRest DEF Naming, Collected, Current
<1>8. pc'[Resolver] = pc[Resolver]
  BY ThreadsAreApart
<1>9. \A u \in Threads : ~Collects(u)' =>
         \/ built'[u] = << >>
         \/ u = Dumper /\ pc'[u] = "keep" /\ built'[u] = ModuleOnly
  BY <1>2, <1>3 DEF Naming, Collected
<1>10. Collected'
  BY <1>2, <1>5, <1>6, <1>7, <1>8, <1>9 DEF Naming, Collected, ModuleOnly
<1> QED BY <1>1, <1>10, AtRest DEF Naming


\* A stack query has its names, or its aggregation raised.
LEMMA QueryEndsKeepNaming ==
  ASSUME Borrowing, Naming, NEW q \in Queries,
         QueryStores(q) \/ QueryKeepsRaw(q) \/ QueryFails(q)
  PROVE  Naming'
<1>1. /\ q \in Threads \ {Resolver} /\ q # Dumper
      /\ Dumper \in Threads
  BY ThreadsAreApart
<1>2. /\ \A u \in Threads : u # q => pc'[u] = pc[u]
      /\ pc[q] \in {"store", "raw"} /\ pc'[q] \in {"fallback", "answer"}
  BY <1>1 DEF QueryStores, QueryKeepsRaw, QueryFails, Goes, Borrowing, Steps
<1>3. Collects(q) /\ ~Collects(q)' /\ pc'[q] # "keep"
  BY <1>2 DEF Collects, Collecting
<1>4. pc'[Dumper] # "extract"
  BY <1>1, <1>2, <1>3 DEF Naming, Extracting
<1>5. /\ UNCHANGED <<symVars, store, raced, memo>>
      /\ built' = [built EXCEPT ![q] = << >>]
      /\ table' \in {table} \/ (Whole(q) /\ table' = built[q])
  BY DEF QueryStores, QueryKeepsRaw, QueryFails
<1> QED BY <1>1, <1>2, <1>3, <1>4, <1>5, LaysDown

\* A stack query takes its frame, or does without.
LEMMA QueryTriesRawKeepsNaming ==
  ASSUME Borrowing, Naming, NEW q \in Queries, QueryTriesRaw(q)
  PROVE  Naming'
<1>1. UNCHANGED <<symVars, store, memo, raced, built, table>>
  BY DEF QueryTriesRaw
<1>2. q # Dumper /\ q # Resolver /\ q \in Threads /\ Dumper \in Threads /\ Resolver \in Threads
  BY ThreadsAreApart
<1>3. /\ \A t \in Threads : t # q => pc'[t] = pc[t]
      /\ pc[q] = "fallback" /\ pc'[q] \in {"raw", "answer"}
      /\ pc'[q] = "raw" => pc[Dumper] # "extract"
  BY <1>2 DEF QueryTriesRaw, HasSymbolizer, Borrowing, Steps
<1>4. built[q] = << >> /\ ~Collects(q)
  BY <1>2, <1>3 DEF Naming, Collected, Collects, Collecting
<1>5. /\ \A t \in Threads : t # q => (Collects(t)' <=> Collects(t))
      /\ Collects(q)' => pc[Dumper] # "extract"
  BY <1>2, <1>3 DEF Collects, Collecting
<1>6. Extracting'
  BY <1>1, <1>2, <1>3, <1>5, AtRest DEF Naming, Extracting
<1>7. Follows(memo) => Follows(memo)'
  BY <1>1, AtRest DEF Follows, Current, ModuleOnly
<1>8. Follows(table) => Follows(table)'
  BY <1>1, AtRest DEF Follows, Current, ModuleOnly
<1>9. ~raced => \A t \in Threads : Collects(t)' => Current(built[t])'
  <2>1. ASSUME ~raced, NEW t \in Threads, Collects(t)', NEW x \in DOMAIN built'[t]
        PROVE  built'[t][x] = Answer(x)' /\ Settled(x)'
    <3>1. CASE t = q
      <4>1. DOMAIN built'[t] = {}
        BY <1>1, <1>4, <3>1, EmptyIsCurrent
      <4> QED BY <2>1, <4>1
    <3>2. CASE t # q
      BY <1>1, <1>5, <2>1, <3>2, AtRest DEF Naming, Collected, Current
    <3> QED BY <3>1, <3>2
  <2> QED BY <2>1 DEF Current
<1>10. Collected'
  BY <1>1, <1>2, <1>3, <1>4, <1>5, <1>7, <1>8, <1>9 DEF Naming, Collected, ModuleOnly
<1> QED BY <1>1, <1>6, <1>10, AtRest DEF Naming

LEMMA SamplesKeepNaming ==
  ASSUME Borrowing, Naming, NEW s \in Samples, SamplesBegin(s) \/ SamplesKeep(s)
  PROVE  Naming'
<1>1. /\ s \in Threads \ {Resolver} /\ s # Dumper
      /\ Dumper \in Threads /\ Resolver \in Threads
  BY ThreadsAreApart
<1>2. CASE SamplesKeep(s)
  <2>1. /\ \A u \in Threads : u # s => pc'[u] = pc[u]
        /\ pc[s] = "samples" /\ pc'[s] = "idle"
    BY <1>1, <1>2 DEF SamplesKeep, Goes, Borrowing, Steps
  <2>2. Collects(s) /\ ~Collects(s)' /\ pc'[s] # "keep"
    BY <2>1 DEF Collects, Collecting
  <2>3. pc'[Dumper] # "extract"
    BY <1>1, <2>1, <2>2 DEF Naming, Extracting
  <2>4. /\ UNCHANGED <<symVars, store, raced, table>>
        /\ built' = [built EXCEPT ![s] = << >>]
        /\ memo' \in {memo} \/ (Whole(s) /\ memo' = built[s])
    BY <1>2 DEF SamplesKeep
  <2> QED BY <1>1, <2>1, <2>2, <2>3, <2>4, LaysDown
<1>3. CASE SamplesBegin(s)
  <2>1. UNCHANGED <<symVars, store, memo, raced, built, table>>
    BY <1>3 DEF SamplesBegin
  <2>2. /\ \A t \in Threads : t # s => pc'[t] = pc[t]
        /\ pc[s] = "idle" /\ pc'[s] = "samples" /\ pc[Dumper] # "extract"
    BY <1>1, <1>3 DEF SamplesBegin, Goes, HasSymbolizer, Borrowing, Steps
  <2>3. built[s] = << >> /\ ~Collects(s)
    BY <1>1, <2>2 DEF Naming, Collected, Collects, Collecting
  <2>4. \A t \in Threads : t # s => (Collects(t)' <=> Collects(t))
    BY <2>2 DEF Collects
  <2>5. Extracting'
    BY <1>1, <2>2 DEF Extracting
  <2>6. Follows(memo) => Follows(memo)'
    BY <2>1, AtRest DEF Follows, Current, ModuleOnly
  <2>7. Follows(table) => Follows(table)'
    BY <2>1, AtRest DEF Follows, Current, ModuleOnly
  <2>8. ~raced => \A t \in Threads : Collects(t)' => Current(built[t])'
    <3>1. ASSUME ~raced, NEW t \in Threads, Collects(t)', NEW x \in DOMAIN built'[t]
          PROVE  built'[t][x] = Answer(x)' /\ Settled(x)'
      <4>1. CASE t = s
        <5>1. DOMAIN built'[t] = {}
          BY <2>1, <2>3, <4>1, EmptyIsCurrent
        <5> QED BY <3>1, <5>1
      <4>2. CASE t # s
        BY <2>1, <2>4, <3>1, <4>2, AtRest DEF Naming, Collected, Current
      <4> QED BY <4>1, <4>2
    <3> QED BY <3>1 DEF Current
  <2>9. Collected'
    BY <1>1, <2>1, <2>2, <2>3, <2>4, <2>6, <2>7, <2>8 DEF Naming, Collected, ModuleOnly
  <2> QED BY <2>1, <2>5, <2>9, AtRest DEF Naming
<1> QED BY <1>2, <1>3

\* The path is set: what may go stale is dropped in the next two steps, and
\* names that are being collected count as raced.
LEMMA ResolverSetsKeepsNaming ==
  ASSUME Borrowing, SymbolizerInv, Naming, NEW p \in Paths, ResolverSets(p)
  PROVE  Naming'
<1>1. UNCHANGED <<store, built, table, memo>>
  BY DEF ResolverSets
<1>2. /\ raced' = (raced \/ \E t \in Threads : Collects(t))
      /\ pc[Dumper] # "extract" /\ pc[Resolver] = "idle"
  BY DEF ResolverSets, HasSymbolizer, Goes
<1>3. /\ \A t \in Threads : t # Resolver => pc'[t] = pc[t]
      /\ pc'[Resolver] \in {"drop", "load"}
  BY ThreadsAreApart DEF ResolverSets, Goes, Borrowing, Steps
<1>4. /\ Dumper \in Threads /\ Resolver \in Threads /\ Dumper # Resolver
      /\ \A t \in Threads : Collects(t)' <=> Collects(t)
  BY <1>2, <1>3, ThreadsAreApart DEF Collects, Collecting
<1>5. Extracting'
  BY <1>2, <1>3, <1>4 DEF Extracting
<1>6. pc'[Resolver] # "drop" => Carries
  <2>1. pc'[Resolver] # "drop" =>
          (SetSymbolPath(p) /\ ~Invalidates(p)) \/ SetSymbolPathRaises(p)
    BY <1>4 DEF ResolverSets, Goes, Borrowing, Steps
  <2> QED BY <2>1, SetSymbolPathKeeps, SetSymbolPathRaisesKeeps, SteadyCarries DEF SymbolizerInv
<1>7. Current(cache)'
  <2>1. CASE SetSymbolPath(p)
    <3>1. cache' = << >>
      BY <2>1 DEF SetSymbolPath
    <3>2. DOMAIN cache' = {}
      BY <3>1, EmptyIsCurrent
    <3> QED BY <3>2 DEF Current
  <2>2. CASE SetSymbolPathRaises(p)
    <3>1. Carries /\ cache' = cache
      BY <2>2, SetSymbolPathRaisesKeeps, SteadyCarries DEF SymbolizerInv, SetSymbolPathRaises
    <3> QED BY <3>1 DEF Naming, Current, Carries
  <2> QED BY <2>1, <2>2 DEF ResolverSets
<1>8. pc'[Resolver] # "drop" => (Follows(memo) => Follows(memo)') /\ (Follows(table) => Follows(table)')
  BY <1>1, <1>6 DEF Follows, Current, Carries, ModuleOnly
<1>9. \A t \in Threads : ~Collects(t)' =>
         \/ built'[t] = << >>
         \/ t = Dumper /\ pc'[t] = "keep" /\ built'[t] = ModuleOnly
  BY <1>1, <1>3, <1>4 DEF Naming, Collected
<1>10. ~raced' => \A t \in Threads : ~Collects(t)'
  BY <1>2, <1>4
<1>11. ~raced' => /\ pc'[Resolver] # "drop" => Follows(memo)'
                  /\ pc'[Resolver] \notin {"drop", "pop"} => Follows(table)'
  BY <1>2, <1>8 DEF Naming, Collected
<1>12. Collected'
  BY <1>1, <1>9, <1>10, <1>11 DEF Naming, Collected, ModuleOnly
<1> QED BY <1>5, <1>7, <1>12 DEF Naming

\* It drops the memo and the tables, or loads modules.
LEMMA ResolverGoesOnKeepsNaming ==
  ASSUME Borrowing, SymbolizerInv, Naming,
         \/ ResolverDropsMemo \/ ResolverPopsTables
         \/ \E B \in SUBSET DOMAIN modules : ResolverLoads(B)
  PROVE  Naming'
<1>1. UNCHANGED <<store, built, raced>>
  BY DEF ResolverDropsMemo, ResolverPopsTables, ResolverLoads
<1>2. /\ \A t \in Threads : t # Resolver => pc'[t] = pc[t]
      /\ pc[Resolver] \in {"drop", "pop", "load"} /\ pc'[Resolver] \in {"pop", "load", "idle"}
      /\ Dumper \in Threads /\ Resolver \in Threads /\ Dumper # Resolver
  BY ThreadsAreApart
     DEF ResolverDropsMemo, ResolverPopsTables, ResolverLoads, Goes, Borrowing, Steps
<1>3. \A t \in Threads : Collects(t)' <=> Collects(t)
  BY <1>2 DEF Collects, Collecting
<1>4. Carries /\ cache' = cache
  <2>1. ASSUME NEW B \in SUBSET DOMAIN modules, ResolverLoads(B) PROVE Carries /\ cache' = cache
    BY <2>1, EnsureLoadedKeeps, SteadyCarries DEF ResolverLoads, EnsureLoaded, SymbolizerInv
  <2>2. CASE ResolverDropsMemo \/ ResolverPopsTables
    BY <2>2, SteadyCarries DEF ResolverDropsMemo, ResolverPopsTables, symVars
  <2> QED BY <2>1, <2>2
<1>5. Current(cache)'
  BY <1>4 DEF Naming, Current, Carries
<1>6. /\ table' \in {table, None} /\ memo' \in {memo, None}
      /\ memo' = None \/ (memo' = memo /\ pc[Resolver] # "drop")
      /\ pc'[Resolver] # "pop" => table' = None \/ (table' = table /\ pc[Resolver] = "load")
  BY <1>2 DEF ResolverDropsMemo, ResolverPopsTables, ResolverLoads, Goes, Borrowing, Steps
<1>7. Extracting'
  BY <1>1, <1>2, <1>3, <1>4, <1>6 DEF Naming, Extracting
<1>8. (Follows(memo) => Follows(memo)') /\ (Follows(table) => Follows(table)')
  BY <1>4, <1>6 DEF Follows, Current, Carries, ModuleOnly
<1>9. memo' = None => Follows(memo)'
  BY DEF Follows
<1>10. table' = None => Follows(table)'
  BY DEF Follows
<1>11. ~raced => \A t \in Threads : Collects(t)' => Current(built[t])'
  BY <1>1, <1>3, <1>4 DEF Naming, Collected, Current, Carries
<1>12. \A t \in Threads : ~Collects(t)' =>
         \/ built'[t] = << >>
         \/ t = Dumper /\ pc'[t] = "keep" /\ built'[t] = ModuleOnly
  BY <1>1, <1>2, <1>3 DEF Naming, Collected
<1>13. ~raced => /\ pc'[Resolver] # "drop" => Follows(memo)'
                 /\ pc'[Resolver] \notin {"drop", "pop"} => Follows(table)'
  BY <1>2, <1>6, <1>8, <1>9, <1>10 DEF Naming, Collected
<1>14. Collected'
  BY <1>1, <1>11, <1>12, <1>13 DEF Naming, Collected, ModuleOnly
<1> QED BY <1>5, <1>7, <1>14 DEF Naming


\* A module is registered while nothing has a name yet.
LEMMA DumperRegistersKeepsNaming ==
  ASSUME Borrowing, SymbolizerInv, Naming, NEW i \in Images, DumperRegisters(i)
  PROVE  Naming'
<1>1. /\ pc[Dumper] = "extract" /\ i.base \notin DOMAIN modules
      /\ UNCHANGED <<pc, store, built, table, memo, raced>>
  BY DEF DumperRegisters, traceVars
<1>2. cache' = cache /\ cache = << >> /\ table = None /\ memo = None /\ ~store
  BY <1>1 DEF DumperRegisters, AddModule, Naming, Extracting
<1>3. \A t \in Threads : ~Collects(t) /\ ~Collects(t)'
  BY <1>1 DEF Naming, Extracting, Collects
<1>4. Extracting'
  BY <1>1, <1>2, <1>3 DEF Extracting
<1>5. Current(cache)'
  <2>1. DOMAIN cache' = {}
    BY <1>2, EmptyIsCurrent
  <2> QED BY <2>1 DEF Current
<1>6. Follows(memo)' /\ Follows(table)'
  BY <1>1, <1>2 DEF Follows
<1>7. Collected'
  BY <1>1, <1>3, <1>6 DEF Naming, Collected, ModuleOnly
<1> QED BY <1>4, <1>5, <1>7 DEF Naming

\* The dumper thread publishes, sets deferral, or puts it back.
LEMMA DumperMovesKeepNaming ==
  ASSUME Borrowing, Naming,
         DumperBuildsSymbolizer \/ DumperPublishes \/ DumperDefers \/ DumperRestores
  PROVE  Naming'
<1>1. UNCHANGED <<symVars, store, table, memo, raced, built>>
  BY DEF DumperBuildsSymbolizer, DumperPublishes, DumperDefers, DumperRestores, traceVars
<1>2. /\ \A t \in Threads : t # Dumper => pc'[t] = pc[t]
      /\ pc[Dumper] \in {"extract", "publish", "defer", "restore"}
      /\ pc'[Dumper] \in {"publish", "defer", "decide", "idle"}
      /\ Dumper \in Threads /\ Resolver \in Threads /\ Dumper # Resolver
  BY ThreadsAreApart
     DEF DumperBuildsSymbolizer, DumperPublishes, DumperDefers, DumperRestores, Goes,
         Borrowing, Steps
<1>3. \A t \in Threads : Collects(t)' <=> Collects(t)
  BY <1>2 DEF Collects, Collecting
<1>4. Extracting'
  BY <1>2 DEF Extracting
<1>5. Collected'
  BY <1>1, <1>2, <1>3, AtRest DEF Naming, Collected, Follows, Current, ModuleOnly
<1> QED BY <1>1, <1>4, <1>5, AtRest DEF Naming

\* The dumper thread defers its names, or goes to collect them.
LEMMA DumperDecidesKeepsNaming ==
  ASSUME Borrowing, Naming, DumperDecides
  PROVE  Naming'
<1>1. UNCHANGED <<symVars, store, table, memo, raced>>
  BY DEF DumperDecides
<1>2. /\ \A t \in Threads : t # Dumper => pc'[t] = pc[t] /\ built'[t] = built[t]
      /\ DOMAIN built' = Threads
      /\ \/ pc'[Dumper] = "keep" /\ built'[Dumper] = ModuleOnly
         \/ pc'[Dumper] = "aggregate" /\ built'[Dumper] = << >>
      /\ Dumper \in Threads /\ Resolver \in Threads /\ Dumper # Resolver
  BY ThreadsAreApart DEF DumperDecides, Goes, Borrowing, Steps, Naming, Collected
<1>3. \A t \in Threads : t # Dumper => (Collects(t)' <=> Collects(t))
  BY <1>2 DEF Collects
<1>4. Extracting'
  BY <1>2 DEF Extracting
<1>5. (Follows(memo) => Follows(memo)') /\ (Follows(table) => Follows(table)')
  BY <1>1, AtRest DEF Follows, Current, ModuleOnly
<1>6. Collects(Dumper)' => built'[Dumper] = << >>
  BY <1>2 DEF Collects, Collecting
<1>7. ~raced => \A t \in Threads : Collects(t)' => Current(built[t])'
  <2>1. ASSUME ~raced, NEW t \in Threads, Collects(t)', NEW x \in DOMAIN built'[t]
        PROVE  built'[t][x] = Answer(x)' /\ Settled(x)'
    <3>1. CASE t = Dumper
      <4>1. DOMAIN built'[t] = {}
        BY <1>6, <2>1, <3>1, EmptyIsCurrent
      <4> QED BY <2>1, <4>1
    <3>2. CASE t # Dumper
      BY <1>1, <1>2, <1>3, <2>1, <3>2, AtRest DEF Naming, Collected, Current
    <3> QED BY <3>1, <3>2
  <2> QED BY <2>1 DEF Current
<1>8. \A t \in Threads : ~Collects(t)' =>
         \/ built'[t] = << >>
         \/ t = Dumper /\ pc'[t] = "keep" /\ built'[t] = ModuleOnly
  BY <1>2, <1>3 DEF Naming, Collected
<1>9. Collected'
  BY <1>1, <1>2, <1>5, <1>7, <1>8 DEF Naming, Collected, ModuleOnly
<1> QED BY <1>1, <1>4, <1>9, AtRest DEF Naming

LEMMA DumperKeepsKeepsNaming ==
  ASSUME Borrowing, Naming, DumperKeeps
  PROVE  Naming'
<1>1. /\ UNCHANGED <<symVars, store, raced, memo>>
      /\ Whole(Dumper) /\ table' = built[Dumper]
      /\ built' = [built EXCEPT ![Dumper] = << >>]
  BY DEF DumperKeeps
<1>2. /\ \A t \in Threads : t # Dumper => pc'[t] = pc[t]
      /\ pc[Dumper] \in {"aggregate", "keep"} /\ pc'[Dumper] = "restore"
      /\ Dumper \in Threads /\ Resolver \in Threads /\ Dumper # Resolver
  BY ThreadsAreApart DEF DumperKeeps, Goes, Borrowing, Steps
<1>3. ~Collects(Dumper)'
  BY <1>2 DEF Collects, Collecting
<1>4. CASE Collects(Dumper)
  BY <1>1, <1>2, <1>3, <1>4, LaysDown
<1>5. CASE ~Collects(Dumper)
  <2>1. pc[Dumper] = "keep"
    BY <1>2, <1>5 DEF Collects, Collecting
  <2>2. table' = ModuleOnly \/ built[Dumper] = << >>
    BY <1>1, <1>2, <1>5 DEF Naming, Collected
  <2>3. ~raced => (Follows(table) => Follows(table)')
    <3>1. CASE table' = ModuleOnly
      BY <3>1 DEF Follows, ModuleOnly
    <3>2. CASE built[Dumper] = << >>
      <4>1. DOMAIN table' = {} /\ DOMAIN table' = Addresses
        BY <1>1, <3>2, EmptyIsCurrent DEF Whole
      <4> QED BY <4>1 DEF Follows, Current
    <3> QED BY <2>2, <3>1, <3>2
  <2>4. Follows(memo) => Follows(memo)'
    BY <1>1, AtRest DEF Follows, Current, ModuleOnly
  <2>5. /\ DOMAIN built' = Threads /\ built'[Dumper] = << >>
        /\ \A t \in Threads : t # Dumper => built'[t] = built[t]
    BY <1>1, <1>2 DEF Naming, Collected
  <2>6. \A t \in Threads : t # Dumper => (Collects(t)' <=> Collects(t))
    BY <1>2 DEF Collects
  <2>7. ~raced => \A t \in Threads : Collects(t)' => Current(built[t])'
    BY <1>1, <1>3, <2>5, <2>6, AtRest DEF Naming, Collected, Current
  <2>8. \A t \in Threads : ~Collects(t)' =>
           \/ built'[t] = << >>
           \/ t = Dumper /\ pc'[t] = "keep" /\ built'[t] = ModuleOnly
    BY <1>2, <2>5, <2>6 DEF Naming, Collected
  <2>9. Collected'
    BY <1>1, <1>2, <2>3, <2>4, <2>5, <2>7, <2>8 DEF Naming, Collected, ModuleOnly
  <2>10. Extracting'
    BY <1>2 DEF Extracting
  <2> QED BY <1>1, <2>9, <2>10, AtRest DEF Naming
<1> QED BY <1>4, <1>5

\* Every name that is kept anywhere is what the symbolizer says now, until the
\* path is set, and from then until it is dropped.
THEOREM InductiveNaming == QueriesSpec => []Naming
<1>1. ASSUME Borrowing, SymbolizerInv, Naming, [QueriesNext]_qvars PROVE Naming'
  <2>1. CASE QueriesNext
    <3>1. CASE \E t \in Threads : ResolveOne(t)
      BY <1>1, <3>1, ResolveOneKeepsNaming
    <3>2. ASSUME NEW q \in Queries,
                 QueryBegins(q) \/ QueryIsBusy(q) \/ QueryLooks(q) \/ QueryTriesStore(q)
                   \/ QueryStores(q) \/ QueryTriesRaw(q) \/ QueryKeepsRaw(q)
                   \/ QueryFails(q) \/ QueryAnswers(q)
          PROVE  Naming'
      BY <1>1, <3>2, QueryTakesKeepNaming, QueryTriesStoreKeepsNaming, QueryEndsKeepNaming,
         QueryTriesRawKeepsNaming
    <3>3. CASE \E s \in Samples : SamplesBegin(s) \/ SamplesKeep(s)
      BY <1>1, <3>3, SamplesKeepNaming
    <3>4. CASE \E p \in Paths : ResolverSets(p)
      BY <1>1, <3>4, ResolverSetsKeepsNaming
    <3>5. CASE \/ ResolverDropsMemo \/ ResolverPopsTables
               \/ \E B \in SUBSET DOMAIN modules : ResolverLoads(B)
      BY <1>1, <3>5, ResolverGoesOnKeepsNaming
    <3>6. CASE \E i \in Images : DumperRegisters(i)
      BY <1>1, <3>6, DumperRegistersKeepsNaming
    <3>7. CASE \/ DumperBuildsSymbolizer \/ DumperPublishes \/ DumperDefers \/ DumperDecides
               \/ DumperKeeps \/ DumperRestores
      BY <1>1, <3>7, DumperMovesKeepNaming, DumperDecidesKeepsNaming, DumperKeepsKeepsNaming
    <3> QED BY <2>1, <3>1, <3>2, <3>3, <3>4, <3>5, <3>6, <3>7 DEF QueriesNext
  <2>2. CASE UNCHANGED qvars
    <3>1. UNCHANGED <<symVars, pc, store, table, memo, raced, built>>
      BY <2>2 DEF qvars, traceVars
    <3>2. \A t \in Threads : Collects(t)' <=> Collects(t)
      BY <3>1 DEF Collects
    <3>3. Extracting'
      BY <1>1, <3>1, <3>2, AtRest DEF Naming, Extracting
    <3>4. Collected'
      BY <1>1, <3>1, <3>2, AtRest DEF Naming, Collected, Follows, Current, ModuleOnly
    <3> QED BY <1>1, <3>1, <3>3, <3>4, AtRest DEF Naming
  <2> QED BY <1>1, <2>1, <2>2
<1>2. QueriesSpec => []Borrowing
  BY InductiveBorrowing
<1>3. QueriesSpec => []SymbolizerInv
  BY InductiveSymbolizer
<1> QED BY NamingInit, <1>1, <1>2, <1>3, PTL DEF QueriesSpec

\* The cache says what would be answered now, and a module that failed was
\* last tried with the path that is set, for any modules, files and paths.
THEOREM AnswersStayCurrent == QueriesSpec => []AnswersAreCurrent
<1>1. SymbolizerInv /\ Naming => AnswersAreCurrent
  BY DEF SymbolizerInv, Naming, Current, AnswersAreCurrent, CacheIsCurrent
<1> QED BY InductiveSymbolizer, InductiveNaming, <1>1, PTL

\* The stack table and the memo of samples say what the symbolizer says, unless
\* names were being collected when the path was set.
THEOREM TablesAreOfThePath == QueriesSpec => []TablesFollowPath
<1>1. Naming => TablesFollowPath
  BY DEF Naming, Collected, Follows, Current, TablesFollowPath
<1> QED BY InductiveNaming, <1>1, PTL

\* A function name of a module with an identity is of that identity, as far as
\* the folders of a symbol store are what they are named.
THEOREM NamesAreOfTheBuild == FoldersAreTrue => (QueriesSpec => []NamesAreExact)
<1> SUFFICES ASSUME FoldersAreTrue PROVE QueriesSpec => []NamesAreExact
  OBVIOUS
<1>1. ASSUME SymbolizerInv, Naming PROVE NamesAreExact
  <2>1. SUFFICES ASSUME NEW a \in DOMAIN cache, ModuleAt(a) # None,
                        modules[ModuleAt(a)].image.guid # None
                 PROVE  /\ cache[a].source # "export"
                        /\ cache[a].source = "pdb" =>
                             \/ cache[a].of = [guid |-> modules[ModuleAt(a)].image.guid,
                                              age |-> modules[ModuleAt(a)].image.age]
                             \/ /\ bound[ModuleAt(a)].format = "msfz"
                                /\ bound[ModuleAt(a)].via = "search"
    BY DEF NamesAreExact
  <2>2. ModuleAt(a) \in DOMAIN modules
    BY <2>1 DEF ModuleAt, Containing
  <2>3. ExactFor(modules[ModuleAt(a)].image, bound[ModuleAt(a)])
    BY <1>1, <2>2 DEF SymbolizerInv, LoadedExact
  <2>4. cache[a] = Named(modules[ModuleAt(a)], bound[ModuleAt(a)])
    BY <1>1, <2>1 DEF Naming, Current, Answer
  <2>5. ASSUME NEW m, NEW h, m.image.guid # None, ExactFor(m.image, h)
        PROVE  /\ Named(m, h).source # "export"
               /\ Named(m, h).source = "pdb" =>
                    \/ Named(m, h).of = [guid |-> m.image.guid, age |-> m.image.age]
                    \/ h.format = "msfz" /\ h.via = "search"
    <3>1. CASE h = Nothing
      BY <3>1 DEF Named, Rva, Nothing
    <3>2. CASE h.type = "pdb" /\ PdbMatches(m, h)
      <4>1. Named(m, h) = [name |-> "function", of |-> [guid |-> h.guid, age |-> h.age],
                           source |-> "pdb"]
        BY <3>2 DEF Named
      <4> QED BY <2>5, <4>1, <3>2 DEF ExactFor, Nothing
    <3>3. CASE h.type = "pdb" /\ ~PdbMatches(m, h)
      BY <3>3 DEF Named, Rva
    <3> QED BY <2>5, <3>1, <3>2, <3>3 DEF ExactFor
  <2>6. /\ cache[a].source # "export"
        /\ cache[a].source = "pdb" =>
             \/ cache[a].of = [guid |-> modules[ModuleAt(a)].image.guid,
                              age |-> modules[ModuleAt(a)].image.age]
             \/ /\ bound[ModuleAt(a)].format = "msfz"
                /\ bound[ModuleAt(a)].via = "search"
    <3> DEFINE m == modules[ModuleAt(a)]
               h == bound[ModuleAt(a)]
    <3>1. m.image.guid # None /\ ExactFor(m.image, h) /\ cache[a] = Named(m, h)
      BY <2>1, <2>3, <2>4
    <3> HIDE DEF m, h
    <3>2. /\ cache[a].source # "export"
          /\ cache[a].source = "pdb" =>
               \/ cache[a].of = [guid |-> m.image.guid, age |-> m.image.age]
               \/ h.format = "msfz" /\ h.via = "search"
      BY <2>5, <3>1
    <3> QED BY <3>2 DEF m, h
  <2> QED BY <2>6
<1> QED BY InductiveSymbolizer, InductiveNaming, <1>1, PTL

=============================================================================
