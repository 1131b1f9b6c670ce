---------------------------- MODULE BinaryFloats ----------------------------
(***************************************************************************)
(* What binary floating point arithmetic promises                          *)
(* (doc/tutorial_cpp_bin_float.qbk:79-86): the exact result, rounded to    *)
(* nearest and to even if there are two, an infinity if it is too large    *)
(* and a NaN where nothing is defined.  There are no denormals, so that a  *)
(* result that is too small is a zero.                                     *)
(***************************************************************************)
EXTENDS Integers

CONSTANTS bit_count, min_exponent, max_exponent

NaN            == [class |-> "nan"]
Zero(neg)      == [class |-> "zero", negative |-> neg]
Infinity(neg)  == [class |-> "infinite", negative |-> neg]

\* significand * 2^(exponent - bits + 1), with the highest bit set
Finite(neg, m, e) ==
  [class |-> "finite", negative |-> neg, significand |-> m, exponent |-> e]

Negated(v) == IF v.class = "nan" THEN v ELSE [v EXCEPT !.negative = ~@]

IsFinite(v)   == v.class = "finite"
IsZero(v)     == v.class = "zero"
IsInfinite(v) == v.class = "infinite"
Unordered(v, w) == "nan" \in {v.class, w.class}

Two(e) == IF e < 0 THEN 1 ELSE 2^e   \* one side of a scaled comparison
Msb(n) == CHOOSE i \in 0 .. 30 : n \div 2^i = 1

\* The e with 2^e <= n/d < 2^(e + 1)
Leading(n, d) ==
  LET e == Msb(n) - Msb(d)
  IN IF n * Two(-e) < d * Two(e) THEN e - 1 ELSE e

\* n/d, of which `bits` bits are kept: their value and the exponent of the first
Rounded(n, d, bits) ==
  LET e  == Leading(n, d)
      nn == n * Two(bits - 1 - e)
      dd == d * Two(e - bits + 1)
      q  == nn \div dd
      r2 == 2 * (nn % dd)
      m  == IF r2 > dd \/ (r2 = dd /\ q % 2 = 1) THEN q + 1 ELSE q
  IN IF m = 2^bits THEN [m |-> m \div 2, e |-> e + 1] ELSE [m |-> m, e |-> e]

\* n/d * 2^k in a format with so many bits
Nearest(neg, n, d, k, bits) ==
  LET v == Rounded(n, d, bits)
      e == v.e + k
  IN IF e > max_exponent THEN Infinity(neg)
     ELSE IF e < min_exponent THEN Zero(neg) ELSE Finite(neg, v.m, e)

\* v + w; a difference that is too small has no sign, nor has x - x.
Sum(v, w) ==
  LET k == IF v.exponent < w.exponent THEN v.exponent ELSE w.exponent
      Scaled(u) == (IF u.negative THEN -1 ELSE 1) * u.significand * 2^(u.exponent - k)
      n == Scaled(v) + Scaled(w)
      s == Nearest(n < 0, IF n < 0 THEN -n ELSE n, 1, k - bit_count + 1, bit_count)
  IN IF Unordered(v, w) \/ (IsInfinite(v) /\ IsInfinite(w) /\ v # w) THEN NaN
     ELSE IF IsInfinite(v) \/ IsInfinite(w) THEN IF IsInfinite(v) THEN v ELSE w
     ELSE IF IsZero(v) /\ IsZero(w) THEN Zero(v.negative /\ w.negative)
     ELSE IF IsZero(v) THEN w
     ELSE IF IsZero(w) THEN v
     ELSE IF n = 0 \/ IsZero(s) THEN Zero(FALSE) ELSE s

Product(v, w) ==
  LET neg == v.negative # w.negative
      k   == v.exponent + w.exponent - 2 * (bit_count - 1)
  IN IF Unordered(v, w) \/ {v.class, w.class} = {"zero", "infinite"} THEN NaN
     ELSE IF IsInfinite(v) \/ IsInfinite(w) THEN Infinity(neg)
     ELSE IF IsZero(v) \/ IsZero(w) THEN Zero(neg)
     ELSE Nearest(neg, v.significand * w.significand, 1, k, bit_count)

Quotient(v, w) ==
  LET neg == v.negative # w.negative
  IN IF Unordered(v, w) \/ (v.class = w.class /\ ~IsFinite(v)) THEN NaN
     ELSE IF IsInfinite(v) \/ IsZero(w) THEN Infinity(neg)
     ELSE IF IsZero(v) \/ IsInfinite(w) THEN Zero(neg)
     ELSE Nearest(neg, v.significand, w.significand, v.exponent - w.exponent, bit_count)

\* The natural number n, which is never too large
Whole(neg, n) ==
  IF n = 0 THEN Zero(neg) ELSE Nearest(neg, n, 1, 0, bit_count)

\* v is v.significand * 2^(shift below the point); its integer part and the rest
Below(v)     == bit_count - 1 - v.exponent
Truncated(v) == IF Below(v) > 0 THEN v.significand \div 2^Below(v)
                ELSE v.significand * 2^(-Below(v))
IsWhole(v)   == Below(v) <= 0 \/ v.significand % 2^Below(v) = 0

\* The nearest integer on the side of infinity that `up` says
Integral(v, up) ==
  IF IsFinite(v) /\ ~IsWhole(v)
  THEN Whole(v.negative, Truncated(v) + (IF up = v.negative THEN 0 ELSE 1))
  ELSE v

\* m is the square root of t with a bit less, rounded to nearest; the root of an
\* integer is never halfway between two.
IsRoot(m, t) == (2 * m - 1) * (2 * m - 1) <= 4 * t /\ 4 * t <= (2 * m + 1) * (2 * m + 1)

\* -1, 0 or 1 as v is less than, equal to or greater than w
Order(v, w) ==
  LET Magnitude(u) ==
        CASE IsZero(u)     -> 0
          [] IsInfinite(u) -> (max_exponent - min_exponent + 2) * 2^bit_count
          [] IsFinite(u)   -> (u.exponent - min_exponent + 1) * 2^bit_count + u.significand
      Key(u) == IF u.negative THEN -Magnitude(u) ELSE Magnitude(u)
  IN IF Key(v) < Key(w) THEN -1 ELSE IF Key(v) = Key(w) THEN 0 ELSE 1
=============================================================================
