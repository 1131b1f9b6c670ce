---------------------------- MODULE CppIntDivide ----------------------------
(***************************************************************************)
(* Division of cpp_int's: cpp_int/divide.hpp.  The helper subtracts guessed *)
(* multiples of the divisor from the remainder.  A guess may be too large: *)
(* then the remainder holds by how much it is negative, and the next guess *)
(* is taken back from the quotient.  The quotient and the remainder are    *)
(* built in the caller's numbers, which may be the operands.               *)
(*                                                                         *)
(* Numbers are integers that are read limb by limb; the quotient has a size *)
(* of its own, since it is not normalized while it is being built.         *)
(***************************************************************************)
EXTENDS LimbNumbers

CONSTANTS
  Types,                 \* how many limbs; how many values the top limb has
  Dividends, Divisors,   \* what is divided with a quotient and a remainder
  Operands               \* what is divided in every other way

\* The top limb is used up, or a number of its bits is.
TypesAssumption ==
  /\ Types # {} /\ Types \subseteq [limbs : Nat \ 0..2, top : 2..Base, checked : BOOLEAN]
  /\ \A t \in Types : Base % t.top = 0
ValuesAssumption == Dividends \cup Divisors \cup Operands \subseteq Int

Program == {"u", "v", "q", "r"}                      \* the program's numbers
Objects == Program \cup {"x_copy", "y_copy", "rem"}  \* and the helper's
None == "none"
Functions == {"eval_divide", "eval_modulus", "eval_qr"}
Labels == {"idle", "entered", "limbs", "guess", "accumulate", "reduce", "correct",
           "computed", "returned", "threw", "trapped"}

VARIABLES
  call,   \* the running call: its function, the numbers that the helper reads
          \* (x, y) and writes (q, r), and what it was given
  mem,    \* the value of each number
  pc,
  loop    \* the helper's locals

vars == <<call, mem, pc, loop>>

type == call.type
fn == call.fn
Modulus(t) == Power(t.limbs - 1) * t.top

px == Abs(mem[call.x])
py == Abs(mem[call.y])
pr == mem[call.q]          \* the quotient
prem == mem[call.r]        \* the remainder
y_order == Size(py) - 1
Wanted == call.q # None    \* result is not a null pointer

Assigned(quo, rem) ==
  [o \in Objects |-> IF o = call.r THEN rem ELSE IF o = call.q THEN quo ELSE mem[o]]

NoCall ==
  [type |-> CHOOSE t \in Types : TRUE, fn |-> "eval_qr", x |-> "u", y |-> "v",
   q |-> "q", r |-> "r", given |-> <<0, 0>>]
NoLoop ==
  [qsize |-> 1, r_order |-> 0, guess |-> 0, r_neg |-> FALSE, first_pass |-> TRUE]

Init ==
  /\ call = NoCall /\ mem = [o \in Objects |-> 0]
  /\ pc = "idle" /\ loop = NoLoop

----------------------------------------------------------------------------
(* The calls.                                                              *)

\* The helper copies an operand that is also a result.
copied(o, results, copy) == IF o \in results THEN copy ELSE o

\* The quotient and the remainder of a call of f: eval_divide has a remainder
\* of its own, eval_modulus has no quotient.
Results(f) ==
  CASE f = "eval_divide"  -> {"u", "v", "q"} \X {"rem"}
    [] f = "eval_modulus" -> {None} \X {"u", "v", "r"}
    [] f = "eval_qr"      -> {"u", "q"} \X {"r"}

Fits(n, t) == Abs(n) < Modulus(t)

\* The first operand is u, the second u or v.  eval_qr reads the signs of its
\* operands when it is done with its results: an operand of a sign may not be
\* the quotient, and is not where the library calls it so (cpp_bin_float/io.hpp).
Call ==
  /\ pc = "idle" /\ pc' = "entered"
  /\ \E t \in Types, f \in Functions, b \in {"u", "v"} : \E res \in Results(f) :
       LET apart == f = "eval_qr" /\ res[1] = "q" /\ b = "v"
           used == {res[1], res[2]}
       IN \E n \in IF apart THEN Dividends ELSE Operands :
          \E d \in IF apart THEN Divisors ELSE IF b = "u" THEN {n} ELSE Operands :
            /\ Fits(n, t) /\ Fits(d, t)
            /\ f = "eval_qr" /\ res[1] = "u" => n >= 0 /\ d >= 0
            /\ call' = [type |-> t, fn |-> f, given |-> <<n, d>>, q |-> res[1], r |-> res[2],
                        x |-> copied("u", used, "x_copy"), y |-> copied(b, used, "y_copy")]
            /\ mem' = [mem EXCEPT !["u"] = n, !["v"] = d, !["q"] = -1, !["r"] = -1,
                                  !["x_copy"] = n, !["y_copy"] = d]
  /\ UNCHANGED loop

----------------------------------------------------------------------------
(* What is decided before the helper's loop.                               *)

ByLimb == Size(py) = 1
Entered == pc = "entered" /\ UNCHANGED call
Computed(quo, rem) ==
  /\ mem' = Assigned(quo, rem) /\ pc' = "computed"
  /\ loop' = [NoLoop EXCEPT !.qsize = Size(quo)]

\* The helper throws; eval_modulus leaves a divisor of one limb to a function
\* that divides by it, and the machine traps.
ZeroDivisor ==
  /\ Entered /\ py = 0
  /\ pc' = IF fn = "eval_modulus" THEN "trapped" ELSE "threw"
  /\ UNCHANGED <<mem, loop>>

\* The base modulo mod, computed within a limb
two_n_mod(mod) == 1 + ((Base - 1 - mod) % mod)

\* eval_modulus by a limb runs down the limbs.
ModulusByLimb ==
  /\ Entered /\ ByLimb /\ fn = "eval_modulus" /\ py # 0
  /\ LET n == Size(px)
         res[i \in 1..n] ==
           IF i = 1 THEN Limb(px, n - 1) % py
           ELSE (res[i - 1] * two_n_mod(py) + Limb(px, n - i)) % py
     IN Computed(0, res[n])

InHelper == Entered /\ py # 0 /\ ~(ByLimb /\ fn = "eval_modulus")

LessThanDivisor ==
  /\ InHelper /\ px < py
  /\ Computed(0, px)

\* Up to two limbs are divided by the machine.
DoubleLimbs ==
  /\ InHelper /\ px >= py /\ Size(px) <= 2
  /\ Computed(px \div py, px % py)

----------------------------------------------------------------------------
(* Division by one limb, a limb at a time.                                 *)

\* resize() exposes whatever the n limbs held; the top one is cleared.
exposed(limbs, n) == limbs % Power(n - 1)

BeginLimbs ==
  /\ InHelper /\ ByLimb /\ Size(px) > 2
  /\ \E limbs \in {0, Power(Size(px)) - 1} : mem' = Assigned(exposed(limbs, Size(px)), px)
  /\ loop' = [NoLoop EXCEPT !.qsize = Size(px), !.r_order = Size(px) - 1]
  /\ pc' = "limbs"

\* One pass of the loop: the top limb, with the one below if it is less than
\* y.  After an exact division the next limb of the quotient is cleared.
LimbDigit ==
  /\ pc = "limbs" /\ UNCHANGED <<call, pc>>
  /\ loop.r_order > 0 \/ prem >= py
  /\ LET order == loop.r_order
         k == IF Limb(prem, order) < py /\ order > 0 THEN order - 1 ELSE order
         a == prem \div Power(k)
         quo == WithLimb(pr, k, a \div py)
         exact == k > 0 /\ a % py = 0
     IN /\ mem' = Assigned(IF exact THEN WithLimb(quo, k - 1, 0) ELSE quo,
                           (a % py) * Power(k) + (prem % Power(k)))
        /\ loop' = [loop EXCEPT !.r_order = IF exact THEN k - 1 ELSE k]

LimbsDone ==
  /\ pc = "limbs" /\ UNCHANGED <<call, mem>>
  /\ loop.r_order = 0 /\ prem < py
  /\ loop' = [loop EXCEPT !.qsize = Size(pr)]
  /\ pc' = "computed"

----------------------------------------------------------------------------
(* Division by several limbs, a guess at a time.                           *)

BeginGuessing ==
  /\ InHelper /\ ~ByLimb /\ px >= py /\ Size(px) > 2
  /\ mem' = Assigned(0, px)
  /\ loop' = [NoLoop EXCEPT !.qsize = Size(px) - y_order, !.r_order = Size(px) - 1]
  /\ pc' = "guess"

\* Fault: one limb of the divisor is used where two are needed.
GuessedFromLimb(order) ==
  LET v == DoubleLimb(prem, order) \div Limb(py, y_order)
  IN [digit |-> Smaller(v, Base - 1), r_order |-> IF v < Base THEN order - 1 ELSE order]

\* Fault: two limbs are divided by two also when the top limbs are equal.
GuessedTooLow(order) ==
  LET top == Limb(py, y_order)
      v == DoubleLimb(prem, order) \div top
  IN IF Limb(prem, order) >= top
     THEN [digit |-> DoubleLimb(prem, order) \div DoubleLimb(py, y_order), r_order |-> order]
     ELSE [digit |-> v, r_order |-> order - 1]

\* The multiple of y to subtract, and the limb of the remainder that it is for:
\* y's top limb divides two limbs if the quotient fits a limb, y's two top
\* limbs divide two limbs.
Guessed(order) ==
  LET top == Limb(py, y_order)
      v == DoubleLimb(prem, order) \div top
  IN IF Limb(prem, order) > top
     THEN [digit |-> DoubleLimb(prem, order) \div DoubleLimb(py, y_order), r_order |-> order]
     ELSE IF v < Base THEN [digit |-> v, r_order |-> order - 1]
     ELSE [digit |-> 1, r_order |-> order]

Guess ==
  /\ pc = "guess" /\ UNCHANGED <<call, mem>>
  /\ LET g == Guessed(loop.r_order)
     IN loop' = [loop EXCEPT !.guess = g.digit, !.r_order = g.r_order]
  /\ pc' = IF Wanted THEN "accumulate" ELSE "reduce"

shift == loop.r_order - y_order

\* The guess is added to the quotient, or taken back from it.
change == IF loop.r_neg THEN -loop.guess ELSE loop.guess

\* Can that be done in one limb?  Otherwise eval_add or eval_subtract does it,
\* and normalizes.
InOneLimb == Limb(pr, shift) + change \in (IF loop.r_neg THEN 1 ELSE 0) .. Base - 2

Accumulate ==
  /\ pc = "accumulate" /\ UNCHANGED call
  /\ LET quo == pr + change * Power(shift)
     IN /\ mem' = [mem EXCEPT ![call.q] = quo]
        /\ loop' = [loop EXCEPT !.qsize = IF InOneLimb THEN @ ELSE Size(quo)]
  /\ pc' = "reduce"

\* Fault: 2^n + t - r without t's lost limb is taken for t - r.
reducedUnwrapped(t) ==
  LET held == t % Power(type.limbs)
      rem == Abs(prem - held)
  IN [rem |-> rem % Modulus(type), flips |-> prem <= held, overflows |-> FALSE]

\* The absolute value of the remainder less t, which normalize() may have to
\* cut off.  If t does not fit the type, t - r is computed as 2^n - r + t.
reduced(t) ==
  LET wraps == Size(t) > type.limbs
      negated == ((Power(loop.r_order + 1) - 1 - prem) % Modulus(type)) + 1
      rem == IF wraps THEN negated + (t % Power(type.limbs)) ELSE Abs(prem - t)
  IN [rem |-> rem % Modulus(type), flips |-> wraps \/ prem <= t,
      overflows |-> type.checked /\ rem >= Modulus(type)]

\* Fault: the leading zeros of the quotient stay.
strippedNever == loop.qsize

\* The first pass removes the leading zeros of the quotient.
stripped == IF Wanted /\ loop.first_pass THEN Size(pr) ELSE loop.qsize

Reduce ==
  /\ pc = "reduce" /\ UNCHANGED call
  /\ LET new == reduced(loop.guess * py * Power(shift))
     IN /\ mem' = [mem EXCEPT ![call.r] = new.rem]
        /\ loop' = [loop EXCEPT !.r_neg = (@ # new.flips), !.r_order = Size(new.rem) - 1,
                                !.qsize = stripped, !.first_pass = @ /\ ~Wanted]
        /\ pc' = IF new.overflows THEN "threw" ELSE IF new.rem < py THEN "correct" ELSE "guess"

OneTooMany == loop.r_neg /\ prem # 0

\* eval_decrement writes to the lowest limb only, if that suffices.
Correct ==
  /\ pc = "correct" /\ UNCHANGED call
  /\ IF OneTooMany
     THEN /\ mem' = Assigned(pr - 1, py - prem)
          /\ loop' = [loop EXCEPT !.qsize =
                         IF Wanted => Limb(pr, 0) > 0 THEN @ ELSE Size(pr - 1)]
     ELSE UNCHANGED <<mem, loop>>
  /\ pc' = "computed"

----------------------------------------------------------------------------
(* The end of a call.                                                      *)

remSign == call.given[1] < 0

SetSigns ==
  /\ pc = "computed" /\ UNCHANGED <<call, loop>>
  /\ mem' = Assigned(Signed(pr, (call.given[1] < 0) # (call.given[2] < 0)),
                     Signed(prem, remSign))
  /\ pc' = "returned"

\* The next call; after a trap, of another program
Return ==
  /\ pc \in {"returned", "threw", "trapped"} /\ pc' = "idle"
  /\ call' = NoCall /\ loop' = NoLoop
  /\ mem' = [o \in Objects |-> 0]

Step ==
  \/ ZeroDivisor \/ ModulusByLimb \/ LessThanDivisor \/ DoubleLimbs
  \/ BeginLimbs \/ LimbDigit \/ LimbsDone
  \/ BeginGuessing \/ Guess \/ Accumulate \/ Reduce \/ Correct
  \/ SetSigns

Next == Call \/ Step \/ Return

\* A call that has begun goes on: it waits for nothing.
Spec == Init /\ [][Next]_vars /\ WF_vars(Step)

----------------------------------------------------------------------------
(* Properties.                                                             *)

TypeOK ==
  /\ call \in [type : Types, fn : Functions, x : {"u", "x_copy"}, y : {"u", "v", "y_copy"},
               q : {"u", "v", "q", None}, r : {"u", "v", "r", "rem"}, given : Int \X Int]
  /\ mem \in [Objects -> Int]
  /\ pc \in Labels
  /\ loop \in [qsize : Nat, r_order : Nat, guess : 0 .. Base - 1,
               r_neg : BOOLEAN, first_pass : BOOLEAN]

dividend == Abs(call.given[1])
divisor == Abs(call.given[2])

\* Between the steps of the helper, quotient * divisor + remainder is the
\* dividend, whatever was guessed (divide.hpp:33): the remainder counts
\* negative while r_neg is set, and of a quotient of limbs only those above
\* r_order count.  Without a quotient the remainder stays congruent.  Operands
\* that are overwritten too early, guesses that are booked at the wrong limb
\* and products that are cut off break it.
DivisionIdentity ==
  /\ pc \in {"guess", "correct", "computed"} =>
       LET rem == IF loop.r_neg /\ pc # "computed" THEN -prem ELSE prem
       IN IF Wanted THEN dividend = pr * divisor + rem ELSE (dividend - rem) % divisor = 0
  /\ pc = "limbs" =>
       dividend = (pr - (pr % Power(loop.r_order))) * divisor + prem

\* The digit that a guess is booked at exists, and the quotient never needs a
\* limb more than was prepared for it: the helper keeps a pointer to its limbs
\* (divide.hpp:143), which a reallocation would leave dangling.
QuotientInPlace ==
  /\ pc = "accumulate" => shift \in 0 .. loop.qsize - 1
  /\ pc \in {"accumulate", "reduce", "guess", "correct"} /\ Wanted =>
       /\ pr >= 0
       /\ Size(pr) <= loop.qsize
       /\ loop.qsize <= Size(dividend) - Size(divisor) + 1

\* Every guess makes the remainder smaller, also one that is too large and
\* leaves it negative, and no guess is zero (the assertion at divide.hpp:178,
\* "If the guess ever gets to zero we go on forever").
EveryGuessHelps ==
  [][pc = "reduce" => loop.guess > 0 /\ mem'[call.r] < prem]_vars

\* C++'s division: the quotient is truncated, the remainder has the sign of
\* the dividend
Truncated(n, d) == Signed(Abs(n) \div Abs(d), (n < 0) # (d < 0))

\* What a call leaves behind: the truncated quotient, in normal form, the
\* remainder with the sign of the dividend, and every other number as it was,
\* whichever operands the results are.  Only a zero divisor throws.
DividesExactly ==
  /\ pc = "returned" =>
       LET quo == Truncated(call.given[1], call.given[2])
           was == [u |-> call.given[1], v |-> call.given[2]]
       IN /\ Wanted => pr = quo /\ loop.qsize = Size(Abs(quo))
          /\ mem[call.r] = call.given[1] - quo * call.given[2]
          /\ \A o \in {"u", "v"} \ {call.q, call.r} : mem[o] = was[o]
  /\ pc \in {"threw", "trapped"} => call.given[2] = 0
=============================================================================
