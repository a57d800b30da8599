------------------------------- MODULE RowSums --------------------------------
(***************************************************************************)
(* The order in which src/reduction.rs adds the elements of each row.      *)
(* Float addition is not associative, so the order is the result: a sum is *)
(* written here as the postfix sequence of its additions, with an element  *)
(* named by its address in the slice.  The code has a portable kernel and  *)
(* one for AVX2; a lane of an array or a vector register is an operator of *)
(* its own, since no addition mixes two lanes before the end.              *)
(***************************************************************************)
EXTENDS Integers, Sequences, SequencesExt, FiniteSetsExt

CONSTANT MinPower   \* least logarithm of a block: 4 in the code

ASSUME MinPowerAssumption == MinPower \in Nat \ {0}

Plus == -1
Zero == <<-2>>                       \* the literal 0.0 a sum starts from
Add(a, b) == a \o b \o <<Plus>>
Element(address) == <<address>>

\* Where an order reads an element, and the addresses it reads.
Reads(order) == {n \in DOMAIN order : order[n] >= 0}
Addresses(order) == {order[n] : n \in Reads(order)}

\* The addresses of the rows that start at first.
Every(stride, first) == [row \in Nat |-> first + row * stride]

\* start + term[0] + ... + term[n - 1], one after the other.
Added(start, n, term) ==
  LET sum[k \in 0..n] == IF k = 0 THEN start ELSE Add(sum[k - 1], term[k - 1])
  IN  sum[n]

\* start + E[first] + ... + E[last - 1].
RunOf(start, first, last, E) ==
  Added(start, last - first, [k \in 0..(last - first - 1) |-> Element(E[first + k])])

BitLength(n) ==
  LET bits[m \in 0..n] == IF m = 0 THEN 0 ELSE 1 + bits[m \div 2]
  IN  bits[n]

PowerOfTwo(n) ==
  LET power[k \in 0..n] == IF k = 0 THEN 1 ELSE 2 * power[k - 1]
  IN  power[n]

Saturated(n) == IF n = 0 THEN 0 ELSE n - 1

level_power(count) == Max({MinPower, BitLength(Saturated(count)) \div 4})

---------------------------------------------------------------------------
(* The portable kernels.                                                   *)

LevelFull(position, block, level) == (position \div block ^ level) % block = 0

Carry(levels, level) == [levels EXCEPT ![level + 1] = Add(@, levels[level]), ![level] = Zero]

\* A full block is added to level 1; a level that has filled up is added to
\* the next.  Level 0 takes the rows that fill no block.
Carried(levels, position, block) ==
  IF ~LevelFull(position, block, 1) THEN levels
  ELSE IF ~LevelFull(position, block, 2) THEN Carry(levels, 1)
  ELSE Carry(Carry(levels, 1), 2)

WithBlock(levels, b, block, E) ==
  Carried([levels EXCEPT ![1] = Add(@, RunOf(Zero, (b - 1) * block, b * block, E))],
          b * block, block)

Blocks(count, block, E) ==
  LET levels[b \in 0..(count \div block)] ==
        IF b = 0 THEN [l \in 0..3 |-> Zero] ELSE WithBlock(levels[b - 1], b, block, E)
  IN  levels[count \div block]

LevelsAdded(levels, first, count, E) ==
  Add(Add(Add(RunOf(levels[0], first, count, E), levels[1]), levels[2]), levels[3])

Cascaded(count, block, E) ==
  LevelsAdded(Blocks(count, block, E), (count \div block) * block, count, E)

cascade_rows(count, E) == Cascaded(count, PowerOfTwo(level_power(count)), E)

\* Four accumulators along the row, and the rows left over in the first one.
FourLanes(count, Address, Lane) ==
  Add(Add(Add(RunOf(Lane[0], (count \div 4) * 4, count, Address), Lane[1]), Lane[2]), Lane[3])

scalar_row(base, count, stride) ==
  LET lane == [l \in 0..3 |->
                cascade_rows(count \div 4, Every(4 * stride, base + l * stride))]
  IN  FourLanes(count, Every(stride, base), lane)

\* One of the eight outputs of outer_eight: its accumulators are 8 apart.
outer_eight(base, count, stride) ==
  LET partial == [r \in 0..3 |->
                   cascade_rows(count \div 4, [group \in Nat |-> base + (group * 4 + r) * stride])]
  IN  FourLanes(count, Every(stride, base), partial)

\* One column among 128, 64, 32 or 4 that are accumulated side by side.
cascade(base, count, step) == cascade_rows(count, Every(step, base))

\* Eight lanes remain of 32, and are added to the elements that fill no vector.
Gathered(base, count, Lane) ==
  Added(RunOf(Zero, (count \div 8) * 8, count, Every(1, base)), 8, Lane)

inner(base, count) ==
  IF count < 8 THEN scalar_row(base, count, 1)
  ELSE LET groups   == count \div 32
           vectors  == count \div 8
           wide(l)  == cascade_rows(groups, Every(32, base + l))
           \* lanes 0..7 also take the vectors that fill no group of four
           lane     == [l \in 0..7 |->
                          Add(Add(Add(RunOf(wide(l), groups * 4, vectors, Every(8, base + l)),
                                      wide(8 + l)), wide(16 + l)), wide(24 + l))]
       IN  Gathered(base, count, lane)

---------------------------------------------------------------------------
(* The AVX2 kernels, written apart from the portable ones in the code.     *)

\* low, middle and high are the levels 1 to 3 of the portable kernel.
CarriedAvx2(s, position, block) ==
  IF ~LevelFull(position, block, 1) THEN s
  ELSE IF ~LevelFull(position, block, 2)
    THEN [s EXCEPT !.middle = Add(@, s.low), !.low = Zero]
  ELSE [low |-> Zero, middle |-> Zero, high |-> Add(s.high, Add(s.middle, s.low))]

WithBlockAvx2(s, b, block, E) ==
  CarriedAvx2([s EXCEPT !.low = Add(@, RunOf(Zero, (b - 1) * block, b * block, E))],
              b * block, block)

BlocksAvx2(groups, block, E) ==
  LET s[b \in 0..(groups \div block)] ==
        IF b = 0 THEN [low |-> Zero, middle |-> Zero, high |-> Zero]
        ELSE WithBlockAvx2(s[b - 1], b, block, E)
  IN  s[groups \div block]

RegistersAdded(s, first, groups, E) ==
  Add(Add(Add(RunOf(Zero, first, groups, E), s.low), s.middle), s.high)

CascadedAvx2(groups, block, E) ==
  RegistersAdded(BlocksAvx2(groups, block, E), (groups \div block) * block, groups, E)

cascade_avx2(groups, E) == CascadedAvx2(groups, PowerOfTwo(level_power(groups)), E)

inner_avx2(base, count) ==
  IF count < 8 THEN scalar_row(base, count, 1)
  ELSE LET groups == count \div 32
           partial(p, l) == cascade_avx2(groups, Every(32, base + p * 8 + l))
           first(l) == RunOf(partial(0, l), groups * 4, count \div 8, Every(8, base + l))
           lane == [l \in 0..7 |->
                     Add(Add(Add(first(l), partial(1, l)), partial(2, l)), partial(3, l))]
       IN  Gathered(base, count, lane)

---------------------------------------------------------------------------
(* One slice of outputs: which kernel sums which of them.  shape is [count,*)
(* reduce_stride, output_stride]; output i of a slice of len starts at base. *)

Columns(len, width) == (len \div width) * width

vectorized_outer_tail(base, i, len, shape) ==
  IF i < Columns(len, 8) THEN outer_eight(base, shape.count, shape.reduce_stride)
  ELSE scalar_row(base, shape.count, shape.reduce_stride)

dimension_sum_impl(contiguous, base, i, len, shape) ==
  LET side_by_side == Columns(len, 32)
      column == cascade(base, shape.count, shape.reduce_stride)
      row == scalar_row(base, shape.count, shape.reduce_stride)
  IN  IF shape.reduce_stride = 1 THEN inner(base, shape.count)
      ELSE IF ~contiguous /\ shape.reduce_stride < shape.output_stride THEN row
      ELSE IF i < side_by_side THEN column
      ELSE IF contiguous /\ len >= 8
        THEN vectorized_outer_tail(base, i - side_by_side, len - side_by_side, shape)
      ELSE IF i - side_by_side < Columns(len - side_by_side, 4) THEN column
      ELSE row

dispatch_layout(base, i, len, shape) ==
  dimension_sum_impl(shape.output_stride = 1, base, i, len, shape)

avx2_sum(base, i, len, shape) ==
  LET wide == Columns(len, 128) + IF len % 128 >= 64 THEN 64 ELSE 0
      side_by_side == Columns(len, 32)
  IN  IF shape.reduce_stride = 1 THEN inner_avx2(base, shape.count)
      ELSE IF shape.output_stride # 1 THEN dispatch_layout(base, i, len, shape)
      ELSE IF i < wide THEN cascade(base, shape.count, shape.reduce_stride)
      ELSE IF i < side_by_side
        THEN cascade_avx2(shape.count, Every(shape.reduce_stride, base))
      ELSE IF len < 8 THEN dimension_sum_impl(TRUE, base, i, len, shape)
      ELSE vectorized_outer_tail(base, i - side_by_side, len - side_by_side, shape)

dimension_sum_serial(avx2, base, i, len, shape) ==
  IF avx2 THEN avx2_sum(base, i, len, shape) ELSE dispatch_layout(base, i, len, shape)

---------------------------------------------------------------------------
(* The tiles of a parallel sum.                                            *)

div_ceil(a, b) == (a + b - 1) \div b

\* The outputs one job sums: their number is a multiple of 32 where columns
\* are accumulated side by side.
grain(width, shape, threads) ==
  LET alignment == IF shape.reduce_stride = 1 THEN 1 ELSE 32
  IN  div_ceil(div_ceil(width, threads), alignment) * alignment

Tiles(width, size) ==
  {[start |-> k * size, len |-> Min({size, width - k * size})]
     : k \in 0..(div_ceil(width, size) - 1)}

\* Mutant: a tile is summed as if it were the whole.
reduce_tile(avx2, tile, i, width, shape) ==
  dimension_sum_serial(avx2, (tile.start + i) * shape.output_stride, i, tile.len, shape)

\* What a job does with its tile: a short last tile keeps the vector tail.
reduce(avx2, tile, i, width, shape) ==
  LET base == (tile.start + i) * shape.output_stride
      short == shape.output_stride = 1 /\ shape.reduce_stride # 1 /\ width >= 8 /\ tile.len < 8
  IN  IF short THEN vectorized_outer_tail(base, i, tile.len, shape)
      ELSE dimension_sum_serial(avx2, base, i, tile.len, shape)
=============================================================================
