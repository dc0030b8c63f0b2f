---------------------------- MODULE MCStackWalk ----------------------------
(* Small feeds and requests for StackWalk.  Process 1 ends and process 2    *)
(* takes over its thread id; a third thread's process is never described;   *)
(* two modules hold two functions each, one address is in no module.  The   *)
(* stacks hold a recursion, a cycle through three frames and two callers of *)
(* one frame with equal weights.                                            *)
EXTENDS StackWalk

A1 == 11  A2 == 12  B1 == 21  B2 == 22  X == 40

MCFunctionAt == 11 :> "open" @@ 12 :> "read" @@ 21 :> "send" @@ 22 :> "wait"
MCLocalBuild == "a.dll" :> "here" @@ "b.sys" :> None

Sample(pid, payload, tid, cpu, bucket, stack, weight, profile) ==
  [pid |-> pid, payload |-> payload, tid |-> tid, cpu |-> cpu, bucket |-> bucket,
   stack |-> stack, weight |-> weight, profile |-> profile]

Processes == <<[pid |-> 1, name |-> "svc"], [pid |-> 2, name |-> "app"], [pid |-> 2, name |-> None]>>
Threads == <<[tid |-> 7, pid |-> 1], [tid |-> 0, pid |-> 0], [tid |-> 7, pid |-> 2],
             [tid |-> 8, pid |-> 2], [tid |-> 9, pid |-> 3]>>
Images(build) == <<[base |-> 10, size |-> 5, module |-> "a.dll", build |-> build],
                   [base |-> 20, size |-> 5, module |-> "b.sys", build |-> None],
                   [base |-> 10, size |-> 5, module |-> "a.dll", build |-> build]>>
Pdbs == <<[base |-> 20, build |-> "traced"], [base |-> 30, build |-> "traced"]>>

Cyclic == <<Sample(99, 7, 0, 0, 0, <<A1, A2, B1, A1>>, 1, 0),
            Sample(99, 0, 8, 1, 0, <<B1, A1, B1, A1>>, 1, 0),
            Sample(99, 0, 0, 0, 1, <<A2, B2, X>>, 1, 0)>>
Branching == <<Sample(2, 9, 0, 0, 0, <<A1, B1>>, 2, 3),
               Sample(0, 9, 7, 0, 0, <<A1, B2, A2, A2>>, 2, 0),
               Sample(0, 0, 5, 2, 0, << >>, 1, 0),
               Sample(99, 7, 8, 1, 1, <<A1, X, A2>>, 1, 0)>>
Wide == <<Sample(1, 0, 0, 0, 0, <<A1, A2, B1, B2, X, A1, B1>>, 1, 0),
          Sample(1, 0, 0, 0, 0, <<B2, A2>>, 1, 0)>>
Heavy == <<Sample(1, 0, 0, 0, 0, <<A1>>, 9, 0), Sample(2, 0, 0, 0, 0, <<A1, A2>>, 6, 0),
           Sample(1, 0, 0, 0, 0, <<B1>>, 4, 0)>>

Feed(images, pdbs, samples) ==
  [process |-> Processes, thread |-> Threads, image |-> images, pdb |-> pdbs, sampled |-> samples]

MCFeeds ==
  {Feed(Images("traced"), Pdbs, s) : s \in {Cyclic, Branching, Wide, Heavy}}
    \union {Feed(Images(None), << >>, Cyclic), Feed(<< >>, Pdbs, Branching),
            Feed(Images("traced"), << >>, << >>)}
MCMachines == {None, [cpus |-> 2, buckets |-> 2], [cpus |-> 2, buckets |-> 5]}

Request(directions, policy, depth, stop, max) ==
  [directions |-> directions, policy |-> policy, share |-> 40, depth |-> depth, stop |-> stop, rows |-> max]
MCWalks ==
  {Request(<<d>>, p, 4, stop, r) : d \in {"callers", "callees"}, p \in {"dominant", "all", "threshold"},
                                   stop \in {{}, {"b.sys"}}, r \in {3, 40}}
    \union {Request(<<"callers", "callees">>, p, n, {}, r) : p \in {"dominant", "all"}, n \in {0, 2},
                                                             r \in {1, 3, 5, 40}}
=============================================================================
