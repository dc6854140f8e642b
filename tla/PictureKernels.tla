--------------------------- MODULE PictureKernels ---------------------------
(***************************************************************************)
(* The CUDA kernels every yolo detector runs before and after the network, *)
(* as operators on flat device buffers (functions from 0 .. size - 1).     *)
(*                                                                         *)
(* A kernel is launched as a grid of square blocks of BLOCK_SIZE threads   *)
(* per side: dx numbers the work in one picture, dy the picture of the     *)
(* batch.  The grid is rounded up to whole blocks, and the threads beyond  *)
(* the work return at once.  No thread reads what another thread of its    *)
(* kernel writes, so a kernel is one step; elements no thread writes keep  *)
(* their value.                                                            *)
(*                                                                         *)
(* Coordinates and weights, floats in the code, are exact fractions here.  *)
(***************************************************************************)
EXTENDS Integers, FiniteSetsExt

CONSTANTS BLOCK_SIZE,     \* threads per side of a block
          Padding         \* what surrounds the resized picture, 114

ASSUME KernelAssumption == BLOCK_SIZE \in Nat \ {0} /\ Padding \in 0 .. 255

\* Mutant: the last, partly filled block is not launched.
BlocksFloor(n) == n \div BLOCK_SIZE

Blocks(n) == (n + BLOCK_SIZE - 1) \div BLOCK_SIZE

\* The threads of one axis that exist and pass the guard when there is work for n.
Launch(n) == {t \in 0 .. Blocks(n) * BLOCK_SIZE - 1 : t < n}

\* The buffer after a kernel whose thread <<dx, dy>> writes value(dx, dy, k) into
\* the k-th of `per` elements, which the threads of a picture fill side by side.
Kernel(dst, n, batch, per, value(_, _, _)) ==
  LET dx(i) == (i \div per) % n
      dy(i) == i \div (per * n)
      threads == Launch(n) \X Launch(batch)
  IN  [i \in DOMAIN dst |->
         IF <<dx(i), dy(i)>> \in threads THEN value(dx(i), dy(i), i % per)
         ELSE dst[i]]

-----------------------------------------------------------------------------
(* resizeDevice: bilinear, letterboxed with Padding.  A size is a record.  *)

\* The scale of init(), as numerator and denominator: the smaller of the two
\* ratios, so that the whole picture fits.
Scale(s, d) == IF d.h * s.w < d.w * s.h THEN <<d.h, s.h>> ELSE <<d.w, s.w>>

\* m_dst2src along one axis, times 2 * numerator: where in the source the middle
\* of element i of the destination lies.
DstToSrc(i, dlen, slen, scale) ==
  (2 * i - dlen + 1) * scale[2] + scale[1] * (slen - 1)

\* Channel k of pixel p of picture dy: the four source pixels around the point
\* it comes from, weighted, and rounded.
Resize(src, s, d, p, dy, k) ==
  LET scale == Scale(s, d)
      unit == 2 * scale[1]
      y == DstToSrc(p \div d.w, d.h, s.h, scale)
      x == DstToSrc(p % d.w, d.w, s.w, scale)
      yLow == y \div unit
      xLow == x \div unit
      ly == y % unit
      lx == x % unit
      v(row, col) == src[((dy * s.h + row) * s.w + col) * 3 + k]
      v1 == IF yLow >= 0 /\ xLow >= 0 THEN v(yLow, xLow) ELSE Padding
      v2 == IF yLow >= 0 /\ xLow + 1 < s.w THEN v(yLow, xLow + 1) ELSE Padding
      v3 == IF yLow + 1 < s.h /\ xLow >= 0 THEN v(yLow + 1, xLow) ELSE Padding
      v4 == IF yLow + 1 < s.h /\ xLow + 1 < s.w THEN v(yLow + 1, xLow + 1) ELSE Padding
      sum == (unit - ly) * (unit - lx) * v1 + (unit - ly) * lx * v2
               + ly * (unit - lx) * v3 + ly * lx * v4
  IN  IF x < -unit \/ x >= s.w * unit \/ y < -unit \/ y >= s.h * unit
      THEN Padding
      ELSE (2 * sum + unit * unit) \div (2 * unit * unit)

resizeDevice(batch, src, s, dst, d) ==
  Kernel(dst, d.w * d.h, batch, 3,
         LAMBDA p, dy, k : Resize(src, s, d, p, dy, k))

-----------------------------------------------------------------------------
(* Colour order, normalisation and layout; d is the size of the picture.   *)

Volume(d) == 3 * d.h * d.w

\* The first and the last channel of each pixel change places.
bgr2rgbDevice(batch, src, dst, d) ==
  Kernel(dst, Volume(d), batch, 1,
         LAMBDA dx, dy, k : LET at == dy * Volume(d) + dx
                            IN  CASE dx % 3 = 0 -> src[at + 2]
                                  [] dx % 3 = 1 -> src[at]
                                  [] dx % 3 = 2 -> src[at - 2])

\* (v / scale - mean) / std with the constants of channel ch.  Only which value
\* and which channel matters, so the result is a number that tells both.
Norm(v, ch) == 3 * v + ch

normDevice(batch, src, dst, d) ==
  Kernel(dst, Volume(d), batch, 1,
         LAMBDA dx, dy, k : Norm(src[dy * Volume(d) + dx], dx % 3))

\* From pixels of three channels to three planes of pixels.
hwc2chwDevice(batch, src, dst, d) ==
  Kernel(dst, Volume(d), batch, 1,
         LAMBDA dx, dy, k :
           LET area == d.h * d.w
               row == (dx % area) \div d.w
               col == (dx % area) % d.w
           IN  src[dy * Volume(d) + row * (d.w * 3) + col * 3 + dx \div area])

-----------------------------------------------------------------------------
(* After the network.  Its output has a row per attribute and a column per *)
(* candidate: the box (4), then the confidence of each class.              *)

transposeDevice(batch, src, candidates, attributes, dst) ==
  Kernel(dst, candidates, batch, attributes,
         LAMBDA dx, dy, i : src[(dy * attributes + i) * candidates + dx])

\* The loop of the decode kernel over the class confidences at src[first + i].
BestClass(src, first, num_class) ==
  LET best[i \in 0 .. num_class - 1] ==
        IF i = 0 THEN 0
        ELSE IF src[first + i] > src[first + best[i - 1]] THEN i ELSE best[i - 1]
  IN  best[num_class - 1]

\* What the thread <<dx, dy>> of the decode kernel finds in the transposed output.
Decoded(src, candidates, attributes, dx, dy) ==
  LET pitem == (dy * candidates + dx) * attributes
      label == BestClass(src, pitem + 4, attributes - 4)
  IN  [box |-> [i \in 1 .. 4 |-> src[pitem + i - 1]],
       confidence |-> src[pitem + 4 + label],
       label |-> label]

-----------------------------------------------------------------------------
(* What the chain computes, said without kernels, threads and buffers.     *)

Abs(n) == IF n < 0 THEN -n ELSE n

\* How much the source pixel at index i counts for the point z / unit.
Tent(z, i, unit) == IF Abs(z - i * unit) < unit THEN unit - Abs(z - i * unit) ELSE 0

\* Channel ch (red, green, blue) at row y and column x of the letterboxed
\* picture: every source pixel that is near enough moves the value away from the
\* padding by its weight.  pixel(i, j, c) is the picture, in opencv's order.
Letterboxed(pixel(_, _, _), s, d, y, x, ch) ==
  LET scale == Scale(s, d)
      unit == 2 * scale[1]
      sy == DstToSrc(y, d.h, s.h, scale)
      sx == DstToSrc(x, d.w, s.w, scale)
      moved == MapThenSumSet(
                 LAMBDA q : Tent(sy, q[1], unit) * Tent(sx, q[2], unit)
                              * (pixel(q[1], q[2], 2 - ch) - Padding),
                 (0 .. s.h - 1) \X (0 .. s.w - 1))
  IN  Padding + ((2 * moved + unit * unit) \div (2 * unit * unit))
=============================================================================
