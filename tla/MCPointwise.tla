------------------------------ MODULE MCPointwise ------------------------------
EXTENDS PointwiseCompiler

X == Leaf("input", 1)
Y == Leaf("input", 2)
Full == [full |-> TRUE, axes |-> {}]
Row == [full |-> FALSE, axes |-> {<<0, 2>>}]

\* Operations over the first n nodes; those of OfLast and From use the last.
Over(op, n) == {Apply(op, <<a, b>>) : a, b \in 1 .. n}
OfLast(op, n) == {node \in Over(op, n) : n \in Range(node.args)}
From(op, n) == {Apply(op, <<n, b>>) : b \in 1 .. n}
OfOne(op, n) == {Apply(op, <<a>>) : a \in 1 .. n}

Family(leaves, operations, returned, permuted, addresses, hint) ==
    [leaves |-> leaves, operations |-> operations, returned |-> returned, permuted |-> permuted,
     addresses |-> addresses, hint |-> hint, scalar_output |-> FALSE]

\* Two products, one of them perhaps by a negative constant, and their sum.
Signs ==
    {Family(<<X, Y, Leaf("constant", c)>>,
            <<OfLast("mul", 3), Over("mul", 4) \union {Apply("neg", <<4>>)}, OfLast("add", 5) \union OfLast("sub", 5)>>,
            IF c = -2 THEN 1 ELSE 0, FALSE, <<Full, Full>>, 4) : c \in {-1, -2}}
\* Signs met again by a later consumer.
Chains ==
    {Family(<<X, Leaf("constant", -1)>>,
            <<{Apply("mul", <<1, 2>>)}, Over("mul", 3), OfLast("mul", 4) \union {Apply("neg", <<4>>)} \union From("sub", 4),
              OfLast("add", 5) \union From("sub", 5)>>, 1, FALSE, <<Full>>, 4)}
\* Tensor zeros, tensor constants made of them, and units.
TensorZeros ==
    {Family(<<X, Leaf("integer", 0), Leaf("boolean", 1)>>,
            <<OfLast("mul", 2), OfLast("add", 4) \union OfLast("sub", 4),
              OfLast("add", 5) \union OfLast("sub", 5) \union OfLast("mul", 5) \union OfOne("neg", 5)>>,
            1, FALSE, <<Full>>, 4)}
\* Calls between products and their consumers.
Calls ==
    {Family(<<X, Leaf("scalar", -1)>>,
            <<Over("mul", 2), {Apply("sin", <<3>>)}, Over("mul", 4), OfLast("add", 5)>>, 1, FALSE, <<Full>>, 4)}
\* A value read by two regions.
Shared ==
    {Family(<<X, Y>>, <<{Apply("add", <<1, 2>>)}, OfOne("neg", 3), OfLast("mul", 4)>>, 2, TRUE, <<Full, Full>>, 4)}
\* Groups that must not fuse around another one, and those that need not.
Groups ==
    {Family(<<X, Y>>, <<{Apply("add", <<1, 2>>)}, {Apply("neg", <<3>>)}, OfLast("mul", 4), OfLast("mul", 5)>>,
            2, TRUE, <<Full, IF h = 1 THEN Row ELSE Full>>, h) : h \in {1, 4}}
\* Long expressions.
Long ==
    {Family(<<X>>, <<OfOne("relu", 1), OfLast("mul", 2), OfOne("cos", 3), OfLast("add", 4), OfOne("sin", 5)>>,
            1, TRUE, <<Full>>, 4)}
\* Results without dimensions, which are realized only if they are shared.
OneElement ==
    {[Family(<<X, Leaf("constant", 1)>>, <<OfLast("mul", 2), OfLast("add", 3), OfOne("sin", 4)>>,
             2, TRUE, <<Scalar>>, 1) EXCEPT !.scalar_output = TRUE]}

MCFamilies == Shared \union OneElement \union Signs \union Chains \union TensorZeros \union Calls \union Groups \union Long
MCLanes == {[inputs |-> <<123, 4567>>, scalars |-> <<89>>]}
===============================================================================
