---------------------------- MODULE MCTensorViews ----------------------------
(***************************************************************************)
(* Values for TLC.  A program starts with a leaf, a detached tensor or a   *)
(* gradient, already sliced, permuted or moved where that takes several    *)
(* calls.  What the last call was matters only to the step that made it,   *)
(* so states that differ in it alone are one state.                        *)
(***************************************************************************)
EXTENDS TensorViews

Sliced(tensors, dimension, start, length) ==
    UNION {slice_dimension(t, dimension, start, length) : t \in tensors}
Permuted(tensors, dimensions) == UNION {permute_axes(t, dimensions) : t \in tensors}
Moved(tensors) == UNION {try_copy_cpu_to_cuda(t) : t \in tensors}

MCStarts ==
    {Leaf(<<>>, "leaf"), Leaf(<<2, 3>>, "leaf"), Leaf(<<2, 2>>, "gradient"), Leaf(<<0, 2>>, "detached")}
    \union Permuted(Sliced({Leaf(<<3, 2>>, "detached")}, 1, 1, 2), <<2, 1>>)
    \union Permuted({Leaf(<<2, 1, 2>>, "leaf")}, <<3, 2, 1>>)
    \union Permuted({Leaf(<<1, 2, 2, 1>>, "detached")}, <<1, 3, 4, 2>>)
    \union Sliced(Moved(Permuted({Leaf(<<2, 3>>, "detached")}, <<2, 1>>)), 1, 1, 2)
    \union Moved({Leaf(<<2, 2>>, "detached")})

State == <<tensor, kept, calls>>
=============================================================================
