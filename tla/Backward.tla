------------------------------- MODULE Backward -------------------------------
(***************************************************************************)
(* The autograd engine of src/src/tensor.rs: threads record operations,    *)
(* toggle requires_grad, and run backward passes over the graph they       *)
(* share.  A pass holds BACKWARD_TRAVERSAL and is a loop of loops; each    *)
(* iteration, which takes at most one node's mutex, is a step.             *)
(*                                                                         *)
(* Gradients are vectors in the code and integers here: the product with a *)
(* fixed direction, which is linear as every VJP is.  Derivative gives     *)
(* each kind of edge a coefficient of its own, so that a gradient that     *)
(* went the wrong way, twice or not at all shows in the sum.               *)
(*                                                                         *)
(* A node outlives its uses here: the release of a graph nobody refers to  *)
(* is left out.                                                            *)
(***************************************************************************)
EXTENDS Integers, Sequences, SequencesExt, FiniteSetsExt

CONSTANTS Threads,
          Limit,        \* bound: nodes recorded
          Passes,       \* bound: backward calls
          Layouts,      \* of the leaves' gradients
          Kinds,        \* of the operations recorded
          None

ASSUME BackwardConstants ==
  /\ Limit \in Nat \ {0} /\ Passes \in Nat
  /\ Layouts \subseteq {"contiguous", "strided"}
  /\ Kinds \subseteq {"add_subtract", "multiply", "chunk"}
  /\ None \notin Threads /\ None \notin Int

VARIABLES
  graph,        \* the nodes, AutogradMeta, in the order they were recorded
  saved,        \* nodes that still have the values their derivative needs
  enabled,      \* leaves that accumulate: their own or their base's flag
  grad,         \* the leaves' accumulated gradients
  holder,       \* who holds BACKWARD_TRAVERSAL
  pc,           \* where each thread is
  pass,         \* the local variables of each thread's backward call
  calls,        \* bound: backward calls so far
  owed,         \* ghost: what successful passes should have added
  spent         \* ghost: nodes whose values successful passes consumed

vars == <<graph, saved, enabled, grad, holder, pc, pass, calls, owed, spent>>

(***************************************************************************)
(* add_subtract stands for the GradFns without saved values, multiply for  *)
(* those with them, chunk for the two with several outputs.  An input that *)
(* does not require a gradient has no edge.                                *)
(***************************************************************************)
Nodes == 1..Limit
Outputs == {0, 1}
Tensor == [node : Nodes, output : Outputs]
\* A node: its kind, its layout if it is a leaf, and the tensors it was made of.
Absent == [kind |-> "absent", layout |-> None, edges |-> <<>>]

NoGradients == [x \in Tensor |-> None]

\* The local variables of a pass: a stack of frames that enter or exit a
\* node, the nodes seen, the order found, the gradients by tensor, and the
\* commits collected.  took, given and skipped are ghosts: what the call did
\* to nodes and leaves.
NoPass == [roots |-> <<>>, stack |-> <<>>, seen |-> {}, topology |-> <<>>,
           gradients |-> NoGradients, commits |-> <<>>, at |-> 0,
           result |-> "none", took |-> {}, given |-> {}, skipped |-> {}]

Init ==
  /\ graph = [n \in Nodes |-> Absent]
  /\ saved = {} /\ enabled = {}
  /\ grad = [n \in Nodes |-> 0]
  /\ holder = None
  /\ pc = [t \in Threads |-> "idle"]
  /\ pass = [t \in Threads |-> NoPass]
  /\ calls = 0
  /\ owed = [n \in Nodes |-> 0]
  /\ spent = {}

-----------------------------------------------------------------------------
Recorded == {n \in Nodes : graph[n].kind # "absent"}
IsLeaf(n) == graph[n].kind = "leaf"
OutputsOf(n) == IF graph[n].kind = "chunk" THEN Outputs ELSE {0}

\* AutogradMeta::requires_grad: a node that is not a leaf always does.
RequiresGrad(n) == n \in Recorded /\ (IsLeaf(n) => n \in enabled)
Differentiable == {x \in Tensor : RequiresGrad(x.node) /\ x.output \in OutputsOf(x.node)}

\* Of an output of a node, by the input behind its i-th edge.
Derivative(kind, i, output) ==
  CASE kind = "add_subtract" -> IF i = 1 THEN 1 ELSE -1
    [] kind = "multiply"     -> IF i = 1 THEN 2 ELSE 3
    [] kind = "chunk"        -> IF output = 0 THEN 1 ELSE 5

Goto(t, label) == pc' = [pc EXCEPT ![t] = label]

\* The call ends, with `?` or at its end.
Ends(t, result) ==
  /\ pass' = [pass EXCEPT ![t].result = result]
  /\ Goto(t, "return")

-----------------------------------------------------------------------------
\* A tensor becomes a leaf, or an operation records its output's node.
Record(t) ==
  /\ pc[t] = "idle"
  /\ \E n \in Nodes \ Recorded :
       /\ 1..(n - 1) \subseteq Recorded
       /\ \/ \E layout \in Layouts :
               /\ graph' = [graph EXCEPT ![n] =
                              [kind |-> "leaf", layout |-> layout, edges |-> <<>>]]
               /\ enabled' = enabled \cup {n}
               /\ UNCHANGED saved
          \/ \E kind \in Kinds, edges \in TupleOf(Differentiable, 1)
                                            \cup TupleOf(Differentiable, 2) :
               /\ kind = "chunk" => Len(edges) = 1
               /\ graph' = [graph EXCEPT ![n] =
                              [kind |-> kind, layout |-> None, edges |-> edges]]
               /\ saved' = IF kind = "multiply" THEN saved \cup {n} ELSE saved
               /\ UNCHANGED enabled
  /\ UNCHANGED <<grad, holder, pc, pass, calls, owed, spent>>

\* requires_grad_ on a leaf: its storage for the gradient stays.
Toggle(t) ==
  /\ pc[t] = "idle"
  /\ \E n \in Recorded :
       /\ IsLeaf(n)
       /\ enabled' = IF n \in enabled THEN enabled \ {n} ELSE enabled \cup {n}
  /\ UNCHANGED <<graph, saved, grad, holder, pc, pass, calls, owed, spent>>

\* A root has one element, and so no strides to follow.
Scalar(n) == graph[n].layout # "strided"

\* Tensor::backward: the root is checked before the lock.
BeginBackward(t) ==
  /\ pc[t] = "idle" /\ calls < Passes
  /\ \E root \in {x \in Differentiable : Scalar(x.node)} :
       pass' = [pass EXCEPT ![t] = [NoPass EXCEPT !.roots = <<root>>]]
  /\ calls' = calls + 1
  /\ Goto(t, "lock")
  /\ UNCHANGED <<graph, saved, enabled, grad, holder, owed, spent>>

\* Tensor::backward_leaf_roots: the roots are checked under the lock.
BeginLeaves(t) ==
  /\ pc[t] = "idle" /\ calls < Passes
  /\ \E k \in {1, 2} : \E roots \in TupleOf({n \in Recorded : Scalar(n)}, k) :
       pass' = [pass EXCEPT ![t] = [NoPass EXCEPT !.roots =
                  [i \in DOMAIN roots |-> [node |-> roots[i], output |-> 0]]]]
  /\ calls' = calls + 1
  /\ Goto(t, "lock_leaves")
  /\ UNCHANGED <<graph, saved, enabled, grad, holder, owed, spent>>

\* Mutant: passes are not serialized.
Unserialized == TRUE
Serialized == holder = None

\* run_backward takes the lock; the root's gradient is 1.
Lock(t) ==
  /\ pc[t] = "lock"
  /\ Serialized
  /\ holder' = t
  /\ LET root == Head(pass[t].roots) IN
       pass' = [pass EXCEPT ![t].stack = <<[frame |-> "enter", node |-> root.node]>>,
                            ![t].gradients[root] = 1]
  /\ Goto(t, "collect")
  /\ UNCHANGED <<graph, saved, enabled, grad, calls, owed, spent>>

\* The distinct roots in the order they come, each as often as it comes.
Aggregated(roots) ==
  LET firsts[k \in 0..Len(roots)] ==
        IF k = 0 THEN <<>>
        ELSE IF roots[k].node \in ToSet(firsts[k - 1]) THEN firsts[k - 1]
        ELSE Append(firsts[k - 1], roots[k].node)
      leaves == firsts[Len(roots)]
  IN  [i \in DOMAIN leaves |->
         [leaf |-> leaves[i],
          gradient |-> Cardinality({j \in DOMAIN roots : roots[j].node = leaves[i]})]]

LockLeaves(t) ==
  /\ pc[t] = "lock_leaves"
  /\ Serialized
  /\ holder' = t
  /\ LET roots == pass[t].roots IN
       IF \A i \in DOMAIN roots : IsLeaf(roots[i].node) /\ RequiresGrad(roots[i].node)
       THEN /\ pass' = [pass EXCEPT ![t].commits = Aggregated(roots)]
            /\ Goto(t, "commit")
       ELSE Ends(t, "refused")
  /\ UNCHANGED <<graph, saved, enabled, grad, calls, owed, spent>>

-----------------------------------------------------------------------------
Seen(t, n) == n \in pass[t].seen

\* validate_saved_values
HasSavedValues(n) == graph[n].kind = "multiply" => n \in saved

\* Mutant: the saved values are only looked at when they are consumed.
AssumedValid(n) == TRUE
Validated(n) == HasSavedValues(n)

EnterFrames(n) ==
  [i \in DOMAIN graph[n].edges |-> [frame |-> "enter", node |-> graph[n].edges[i].node]]

\* Mutant: a node comes before its inputs in the topology.
FramesBefore(n) == Reverse(EnterFrames(n)) \o <<[frame |-> "exit", node |-> n]>>

\* The frames of a node first seen: its inputs, the first on top, and its exit.
FramesOf(n) == <<[frame |-> "exit", node |-> n]>> \o Reverse(EnterFrames(n))

\* The loop of collect_topology goes on until its stack is empty.
Collected(t, seen, stack, topology) ==
  /\ pass' = [pass EXCEPT ![t].seen = seen, ![t].stack = stack,
                          ![t].topology = topology, ![t].at = Len(topology)]
  /\ Goto(t, IF stack = <<>> THEN "apply" ELSE "collect")

\* It pops an Enter frame.
EnterNode(t) ==
  LET p == pass[t]
      n == Last(p.stack).node
  IN
  /\ pc[t] = "collect" /\ Last(p.stack).frame = "enter"
  /\ \/ Seen(t, n) /\ Collected(t, p.seen, Front(p.stack), p.topology)
     \/ /\ ~Seen(t, n) /\ Validated(n)
        /\ Collected(t, p.seen \cup {n}, Front(p.stack) \o FramesOf(n), p.topology)
     \/ ~Seen(t, n) /\ ~Validated(n) /\ Ends(t, "freed")
  /\ UNCHANGED <<graph, saved, enabled, grad, holder, calls, owed, spent>>

\* It pops an Exit frame.
ExitNode(t) ==
  LET p == pass[t]
      n == Last(p.stack).node
  IN
  /\ pc[t] = "collect" /\ Last(p.stack).frame = "exit"
  /\ Collected(t, p.seen, Front(p.stack), Append(p.topology, n))
  /\ UNCHANGED <<graph, saved, enabled, grad, holder, calls, owed, spent>>

-----------------------------------------------------------------------------
\* Mutant: an edge's gradient replaces what is there.
AddedLast(gradients, x, sum) == sum

\* add_gradient
Added(gradients, x, sum) == IF gradients[x] = None THEN sum ELSE gradients[x] + sum

Arrived(gradients, n) == {o \in OutputsOf(n) : gradients[[node |-> n, output |-> o]] # None}

\* The gradients after n passed on what arrived at its outputs.
Propagated(gradients, n) ==
  LET edges == graph[n].edges
      Through(i) ==
        SumFunction([o \in Arrived(gradients, n) |->
                       gradients[[node |-> n, output |-> o]] * Derivative(graph[n].kind, i, o)])
  IN  [x \in Tensor |->
         IF x.node = n THEN None
         ELSE LET into == {i \in DOMAIN edges : edges[i] = x}
              IN  IF into = {} THEN gradients[x]
                  ELSE Added(gradients, x, SumFunction([i \in into |-> Through(i)]))]

\* One iteration of the loop over the topology, outputs before inputs.
Apply(t) ==
  LET p == pass[t]
      n == p.topology[p.at]
      next == IF p.at = 1 THEN "consume" ELSE "apply"
      at == IF p.at = 1 THEN 1 ELSE p.at - 1
      own == [node |-> n, output |-> 0]
      none == Arrived(p.gradients, n) = {}
  IN
  /\ pc[t] = "apply"
  /\ \/ /\ IsLeaf(n)
        /\ pass' = [pass EXCEPT
                      ![t].at = at,
                      ![t].skipped = IF n \in enabled THEN @ ELSE @ \cup {n},
                      ![t].gradients[own] = IF n \in enabled THEN None ELSE @,
                      ![t].commits = IF n \notin enabled \/ none THEN @
                        ELSE Append(@, [leaf |-> n, gradient |-> p.gradients[own]])]
        /\ Goto(t, next)
     \/ /\ ~IsLeaf(n)
        /\ pass' = [pass EXCEPT
                      ![t].at = at,
                      ![t].gradients = IF none THEN @ ELSE Propagated(@, n)]
        /\ Goto(t, next)
     \/ ~IsLeaf(n) /\ (none => graph[n].kind = "chunk") /\ Ends(t, "failed")
  /\ UNCHANGED <<graph, saved, enabled, grad, holder, calls, owed, spent>>

\* Mutant: the loop stays at a node without values.
StayAt(t) == IF graph[pass[t].topology[pass[t].at]].kind = "multiply"
             THEN pass[t].at + 1 ELSE pass[t].at
NextAt(t) == pass[t].at + 1

\* consume_saved_values, one node after the other, inputs before outputs.
Consume(t) ==
  LET n == pass[t].topology[pass[t].at]
      consumes == graph[n].kind = "multiply"
  IN
  /\ pc[t] = "consume"
  /\ IF HasSavedValues(n)
     THEN /\ saved' = IF consumes THEN saved \ {n} ELSE saved
          /\ pass' = [pass EXCEPT ![t].at = NextAt(t),
                                  ![t].took = IF consumes THEN @ \cup {n} ELSE @]
          /\ Goto(t, IF NextAt(t) > Len(pass[t].topology) THEN "commit" ELSE "consume")
     ELSE Ends(t, "freed") /\ UNCHANGED saved
  /\ UNCHANGED <<graph, enabled, grad, holder, calls, owed, spent>>

(***************************************************************************)
(* accumulate_leaf_gradient, one leaf after the other.  A gradient that    *)
(* has to be laid out anew may not get the memory.                         *)
(***************************************************************************)
Commit(t) ==
  /\ pc[t] = "commit"
  /\ IF pass[t].commits = <<>>
     THEN Ends(t, "ok") /\ UNCHANGED grad
     ELSE LET leaf == Head(pass[t].commits).leaf IN
          \/ /\ grad' = [grad EXCEPT ![leaf] = @ + Head(pass[t].commits).gradient]
             /\ pass' = [pass EXCEPT ![t].commits = Tail(@),
                                     ![t].given = @ \cup {leaf}]
             /\ UNCHANGED pc
          \/ /\ graph[leaf].layout = "strided"
             /\ Ends(t, "failed") /\ UNCHANGED grad
  /\ UNCHANGED <<graph, saved, enabled, holder, calls, owed, spent>>

-----------------------------------------------------------------------------
(***************************************************************************)
(* The reference: what one pass owes a leaf is the derivative of its roots *)
(* by the leaf, the sum over the paths between them, computed forwards.    *)
(***************************************************************************)
Slope(leaf) ==
  LET slope[n \in Nodes] ==
        [output \in Outputs |->
           IF n = leaf THEN IF output = 0 THEN 1 ELSE 0
           ELSE SumFunction([i \in DOMAIN graph[n].edges |->
                               Derivative(graph[n].kind, i, output)
                                 * slope[graph[n].edges[i].node][graph[n].edges[i].output]])]
  IN  slope

Due(t, leaf) ==
  IF leaf \in pass[t].skipped \/ ~IsLeaf(leaf) THEN 0
  ELSE SumFunction([i \in DOMAIN pass[t].roots |->
                      Slope(leaf)[pass[t].roots[i].node][pass[t].roots[i].output]])

\* The call returns and the lock is released.
Return(t) ==
  /\ pc[t] = "return"
  /\ holder' = None
  /\ IF pass[t].result = "ok"
     THEN /\ owed' = [n \in Nodes |-> owed[n] + Due(t, n)]
          /\ spent' = spent \cup pass[t].took
     ELSE UNCHANGED <<owed, spent>>
  /\ pass' = [pass EXCEPT ![t] = NoPass]
  /\ Goto(t, "idle")
  /\ UNCHANGED <<graph, saved, enabled, grad, calls>>

Step(t) ==
  \/ Lock(t) \/ LockLeaves(t) \/ EnterNode(t) \/ ExitNode(t) \/ Apply(t)
  \/ Consume(t) \/ Commit(t) \/ Return(t)

Next ==
  \E t \in Threads :
    Record(t) \/ Toggle(t) \/ BeginBackward(t) \/ BeginLeaves(t) \/ Step(t)

Spec == Init /\ [][Next]_vars

\* A thread inside a call is scheduled; the lock, once free, may go to others.
FairSpec == Spec /\ \A t \in Threads : WF_vars(Step(t))

-----------------------------------------------------------------------------
(***************************************************************************)
(* Properties.                                                             *)
(***************************************************************************)

\* The nodes a call can reach from its roots.
Reach(t) ==
  LET reach[n \in Nodes] ==
        {n} \cup UNION {reach[graph[n].edges[i].node] : i \in DOMAIN graph[n].edges}
  IN  UNION {reach[pass[t].roots[i].node] : i \in DOMAIN pass[t].roots}

(***************************************************************************)
(* While no call is committing, each leaf has exactly the gradients owed   *)
(* to it: for each successful pass the sum over all paths to the leaf,     *)
(* however the graph shares its nodes and outputs, and nothing else.       *)
(***************************************************************************)
GradientsAreOwed ==
  (\A t \in Threads : pc[t] \notin {"commit", "return"}) => grad = owed

(***************************************************************************)
(* A pass is a transaction: it consumes the saved values of all it reaches *)
(* and commits to every leaf that accumulates, or it does neither.         *)
(***************************************************************************)
Transaction ==
  \A t \in Threads : pc[t] = "return" =>
    LET p == pass[t] IN
    IF p.result = "ok"
    THEN /\ p.given = {n \in Reach(t) : IsLeaf(n)} \ p.skipped
         /\ p.topology # <<>> =>
              p.took = {n \in Reach(t) : graph[n].kind = "multiply"}
    ELSE p.given = {} /\ p.took = {}

\* The same of the values alone: whoever consumes some commits its gradients.
ConsumedMeansCommitted ==
  \A t \in Threads :
    pc[t] = "return" /\ pass[t].took # {} => pass[t].result = "ok"

(***************************************************************************)
(* A graph is reported freed only if an earlier pass over some of it has   *)
(* succeeded; a graph without saved values never is.                       *)
(***************************************************************************)
FreedOnlyBySuccess ==
  \A t \in Threads :
    pc[t] = "return" /\ pass[t].result = "freed" => Reach(t) \cap spent # {}

(***************************************************************************)
(* A backward call returns once no other thread makes one.  While others   *)
(* do, the lock may pass it by: std's Mutex is not fair.                   *)
(***************************************************************************)
BackwardReturns ==
  \A t \in Threads :
    <>[](\A u \in Threads \ {t} : pc[u] = "idle")
      => (pc[t] # "idle" ~> pc[t] = "idle")
=============================================================================
