----------------------------- MODULE StackWalk -----------------------------
(***************************************************************************)
(* Stack tables and the tools that walk them.  The stacks of the samples   *)
(* are counted by address (native/aggregators/stack_butterfly.py), the     *)
(* counters become nodes and edges of named frames, and walk_stack and     *)
(* butterfly_chain follow the edges from a frame towards its callers or    *)
(* its callees (tools/stack_analysis.py).  A stack is a sequence of        *)
(* addresses, the leaf first.                                              *)
(***************************************************************************)
EXTENDS StreamingProfile

CONSTANTS
  FrameCap, EdgeCap,  \* _DEFAULT_MAX_UNIQUE_FRAMES, _DEFAULT_MAX_UNIQUE_EDGES
  Walks               \* requests: [directions, policy, share, depth, stop, rows]

ASSUME WalkAssumption ==
  /\ FrameCap \in Nat /\ EdgeCap \in Nat
  /\ \A w \in Walks : w.rows > 0 /\ w.depth >= 0

VARIABLES
  counters,  \* [inclusive, exclusive, edges], or None once a cap is exceeded
  tables,    \* [nodes, leaves, edges] as in stacks and stacks_callers, [names] of addresses
  walk,      \* the request
  rows,      \* rows of the walk: [path, hits]; the last of the path is the frame
  queue,     \* frames to expand: their paths
  truncated, \* the walk stopped at its rows
  sections   \* walks of the request that are done: [direction, rows, truncated]

walkVars == <<profileVars, counters, tables, walk, rows, queue, truncated, sections>>

NoCounters == [inclusive |-> << >>, exclusive |-> << >>, edges |-> << >>]

WalkInit ==
  /\ ProfileInit
  /\ counters = NoCounters /\ tables = None /\ walk = None
  /\ rows = << >> /\ queue = << >> /\ truncated = FALSE /\ sections = << >>

(***************************************************************************)
(* Counting (_count_stacks_by_address)                                     *)
(***************************************************************************)

Steps(stack) == {n \in 1 .. Len(stack) : n < Len(stack)}

StackWeight(s) == IF s.weight > 0 THEN s.weight ELSE 1

\* An edge has the weight once for each place where its two frames are adjacent.
AddEdges(f, s) ==
  FoldSet(LAMBDA n, g : Plus(g, <<s.stack[n], s.stack[n + 1]>>, StackWeight(s)), f, Steps(s.stack))

\* A leaf has it once, and an address once for each stack it is in.
Counted(c, s) ==
  IF s.stack = << >> THEN c
  ELSE [inclusive |-> FoldSet(LAMBDA a, f : Plus(f, a, StackWeight(s)), c.inclusive, ToSet(s.stack)),
        exclusive |-> Plus(c.exclusive, Head(s.stack), StackWeight(s)),
        edges |-> AddEdges(c.edges, s)]

Exceeds(c) ==
  \/ Cardinality(DOMAIN c.inclusive) > FrameCap
  \/ Cardinality(DOMAIN c.edges) > EdgeCap

\* The counters grow only, so that a cap exceeded on the way is exceeded at the
\* end of the batch.
CountStacks ==
  LET c == FoldLeft(LAMBDA f, s : Counted(f, s), counters, Rows("sampled"))
  IN /\ pc = "profiled"
     /\ IF Exceeds(c) THEN counters' = None /\ pc' = "answered" /\ UNCHANGED at
        ELSE /\ counters' = c
             /\ IF at + batch < Len(feed.sampled)
                THEN at' = at + batch /\ UNCHANGED pc ELSE at' = 0 /\ pc' = "counted"
     /\ UNCHANGED <<input, dimensions, registered, sums, frame, tables, walk, rows, queue,
                    truncated, sections>>

(***************************************************************************)
(* Tables (_resolve_address_pairs, _dataframes_from_counters)              *)
(***************************************************************************)

\* The lowest addresses, up to the cap, are named by the symbolizer; what it
\* does not know, and the rest, by the image index.  From the event store of a
\* trace without a symbolizer an empty one is made (_ImageInterval has no
\* identity, so that adding any of the modules fails).
FrameNames(addresses, warm) ==
  LET named(a) == warm /\ registered # None
                    /\ Cardinality({b \in addresses : b < a}) < SymbolCap
      label(a) == IF named(a) THEN Label(a) ELSE Unnamed("unknown")
      module(a) == IF label(a).module = "unknown" THEN ModuleFor(a) ELSE label(a).module
  IN [a \in addresses |-> [module |-> module(a), function |-> label(a).function]]

\* Weights of what has the same name are added.
Merged(f, name(_)) ==
  [y \in {name(x) : x \in DOMAIN f} |->
     MapThenSumSet(LAMBDA x : f[x], {x \in DOMAIN f : name(x) = y})]

BuildTables ==
  /\ pc = "counted"
  /\ IF counters = NoCounters \/ intervals = << >>
     THEN pc' = "answered" /\ UNCHANGED tables
     ELSE /\ pc' = "tables"
          /\ \E warm \in BOOLEAN :
               LET names == FrameNames(DOMAIN counters.inclusive, warm)
               IN tables' = [nodes |-> Merged(counters.inclusive, LAMBDA a : names[a]),
                             leaves |-> Merged(counters.exclusive, LAMBDA a : names[a]),
                             edges |-> Merged(counters.edges, LAMBDA e : <<names[e[1]], names[e[2]]>>),
                             names |-> names]
  /\ UNCHANGED <<input, at, dimensions, registered, sums, frame, counters, walk, rows, queue,
                 truncated, sections>>

(***************************************************************************)
(* Walks (_walk_stack_rows, walk_stack, butterfly_chain)                   *)
(***************************************************************************)

Direction == walk.directions[Len(sections) + 1]
RowsLeft == walk.rows - FoldLeft(LAMBDA n, x : n + Len(x.rows), 0, sections)

\* _edges_from_node: the frames next to one, with their weight.
Neighbours(direction, node) ==
  LET next(e) == IF direction = "callers" THEN e[2] ELSE e[1]
      here(e) == IF direction = "callers" THEN e[1] ELSE e[2]
  IN {[node |-> next(e), weight |-> tables.edges[e]] : e \in {x \in DOMAIN tables.edges : here(x) = node}}

\* _select_branch_edges: edges come heaviest first, equals in any order.
Sorted(edges) ==
  {s \in SetToSeqs(edges) : \A n \in Steps(s) : s[n].weight >= s[n + 1].weight}
Selected(edges) ==
  LET all == MapThenSumSet(LAMBDA e : e.weight, edges) IN
  CASE walk.policy = "dominant" -> {<<s[1]>> : s \in Sorted(edges)}
    [] walk.policy = "all" -> Sorted(edges)
    [] walk.policy = "threshold" -> Sorted({e \in edges : 100 * e.weight >= walk.share * all})

\* The root is whichever frame the filters of the request match best.
StartWalk ==
  /\ pc = "tables" /\ pc' = "walking"
  /\ \E w \in Walks, root \in DOMAIN tables.nodes :
       /\ walk' = w
       /\ rows' = <<[path |-> <<root>>, hits |-> tables.nodes[root]]>>
       /\ queue' = <<<<root>>>>
  /\ UNCHANGED <<input, at, dimensions, registered, sums, frame, counters, tables, truncated, sections>>

Blocked(path) ==
  \/ Len(path) > walk.depth
  \/ Len(path) > 1 /\ Last(path).module \in walk.stop

\* A wrong version: only the frame itself is not entered again.
OnPathLast(node, path) == node = Last(path)

OnPath(node, path) == node \in ToSet(path)

\* One edge: the rows may be full, or the frame may be on the path already.
Follow(state, path, e) ==
  IF state.full THEN state
  ELSE IF Len(state.rows) >= RowsLeft THEN [state EXCEPT !.full = TRUE]
  ELSE IF OnPath(e.node, path) THEN state
  ELSE [rows |-> Append(state.rows, [path |-> Append(path, e.node), hits |-> e.weight]),
        queue |-> Append(state.queue, Append(path, e.node)), full |-> FALSE]

Expand ==
  LET path == Head(queue)
      edges == Neighbours(Direction, Last(path))
      start == [rows |-> rows, queue |-> Tail(queue), full |-> FALSE]
  IN /\ pc = "walking" /\ queue # << >> /\ ~truncated
     /\ \E order \in IF Blocked(path) \/ edges = {} THEN {<< >>} ELSE Selected(edges) :
          LET end == FoldLeft(LAMBDA st, e : Follow(st, path, e), start, order)
          IN rows' = end.rows /\ queue' = end.queue /\ truncated' = end.full
     /\ UNCHANGED <<input, pc, at, dimensions, registered, sums, frame, counters, tables, walk, sections>>

\* butterfly_chain walks in both directions within the same rows; once they are
\* used up there is no second walk.
FinishWalk ==
  /\ pc = "walking" /\ (queue = << >> \/ truncated)
  /\ sections' = Append(sections, [direction |-> Direction, rows |-> rows, truncated |-> truncated])
  /\ IF Len(sections) + 1 < Len(walk.directions) /\ RowsLeft > Len(rows)
     THEN /\ rows' = SubSeq(rows, 1, 1) /\ queue' = <<rows[1].path>>
          /\ UNCHANGED pc
     ELSE rows' = << >> /\ queue' = << >> /\ pc' = "answered"
  /\ truncated' = FALSE
  /\ UNCHANGED <<input, at, dimensions, registered, sums, frame, counters, tables, walk>>

WalkNext ==
  \/ ProfileNext /\ UNCHANGED <<counters, tables, walk, rows, queue, truncated, sections>>
  \/ CountStacks \/ BuildTables \/ StartWalk \/ Expand \/ FinishWalk

WalkSpec == WalkInit /\ [][WalkNext]_walkVars

(***************************************************************************)
(* Properties                                                              *)
(***************************************************************************)

\* The weight of the places in the samples where frames x and y are adjacent, y
\* the caller.
Adjacent(x, y) ==
  LET places(s) == {n \in Steps(s.stack) : tables.names[s.stack[n]] = x /\ tables.names[s.stack[n + 1]] = y}
  IN MapThenSumSet(LAMBDA i : StackWeight(feed.sampled[i]) * Cardinality(places(feed.sampled[i])),
                   DOMAIN feed.sampled)
Hop(direction, x, y) == IF direction = "callers" THEN Adjacent(x, y) ELSE Adjacent(y, x)
Around(direction, x) == {y \in DOMAIN tables.nodes : Hop(direction, x, y) > 0}

\* What the policy of the request lets a walk do at a frame.
Chooses(direction, x, taken, path) ==
  LET near == Around(direction, x)
      heaviest == {y \in near : \A z \in near : Hop(direction, x, y) >= Hop(direction, x, z)}
      all == MapThenSumSet(LAMBDA y : Hop(direction, x, y), near)
      fresh(set) == set \ ToSet(path)
  IN CASE walk.policy = "all" -> taken = fresh(near)
       [] walk.policy = "threshold" ->
            taken = fresh({y \in near : 100 * Hop(direction, x, y) >= walk.share * all})
       [] walk.policy = "dominant" ->
            \/ \E y \in heaviest : taken = fresh({y})
            \/ near = {} /\ taken = {}

\* A walk that was not cut short shows exactly the chains of frames that the
\* samples contain, as its policy, depth and stop modules allow: no chain twice,
\* none through a frame twice, each with the weight of the places where its last
\* two frames are adjacent.  A walk is cut short only when it is full, and walks
\* of one request share its rows.
WalkIsExact ==
  pc = "answered" /\ sections # << >> =>
    /\ FoldLeft(LAMBDA n, x : n + Len(x.rows), 0, sections) <= walk.rows
    /\ Len(sections) < Len(walk.directions) => RowsLeft = 0
    /\ \A section \in ToSet(sections) :
         LET paths == {r.path : r \in ToSet(section.rows)}
             nexts(p) == {Last(q) : q \in {x \in paths : Len(x) = Len(p) + 1 /\ Front(x) = p}}
         IN /\ Cardinality(paths) = Len(section.rows)
            /\ section.truncated => RowsLeft = 0
            /\ \A r \in ToSet(section.rows) : Len(r.path) > 1 =>
                 /\ Front(r.path) \in paths /\ Cardinality(ToSet(r.path)) = Len(r.path)
                 /\ r.hits = Hop(section.direction, r.path[Len(r.path) - 1], Last(r.path))
            /\ ~section.truncated => \A p \in paths :
                 IF Blocked(p) THEN nexts(p) = {}
                 ELSE Chooses(section.direction, Last(p), nexts(p), p)
=============================================================================
