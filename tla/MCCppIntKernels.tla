-------------------------- MODULE MCCppIntKernels ---------------------------
(***************************************************************************)
(* Programs on small instances. One program calls the product of limbs,    *)
(* the bitwise operations and the square root, one after the other: they   *)
(* share nothing and run on numbers of types of their own, with limbs as   *)
(* wide as each needs; a call begins when none is running, and goes on     *)
(* until it returns. Others calculate with numbers of one machine integer  *)
(* (CppIntTrivial), of one type each. The last adds and subtracts numbers  *)
(* whose topmost limb is not used up.                                      *)
(***************************************************************************)
EXTENDS CppIntMultiply, CppIntSquareRoot, FiniteSets, TLC

CONSTANTS
  Obj,            \* the numbers of one limb
  Single,         \* the number that is added to itself
  Unspecified     \* what a number holds after its call has thrown

VARIABLE program
VARIABLES b_call, res, other, b_pc, b_loop              \* of the bitwise operations
VARIABLES t_type, t_num, t_threw, t_failed              \* of the numbers of one limb
VARIABLES m_type, m_num, m_before, m_exact, m_failed, m_pc,   \* of the sums
          m_r, m_a, m_pa, m_pb, m_m, m_x, m_i, m_carry, m_swapped

b_vars == <<b_call, res, other, b_pc, b_loop>>
t_vars == <<t_type, t_num, t_threw, t_failed>>
m_vars == <<m_type, m_num, m_before, m_exact, m_failed, m_pc, m_r, m_a, m_pa, m_pb, m_m,
            m_x, m_i, m_carry, m_swapped>>

\* Fixed precision of three and four limbs, the top limb used up or not, and
\* variable precision, which is wide enough for any product
ProductTypes ==
  {[limbs |-> 3, top |-> 2, signed |-> TRUE, checked |-> FALSE, fixed |-> TRUE],
   [limbs |-> 3, top |-> 2, signed |-> TRUE, checked |-> TRUE, fixed |-> TRUE],
   [limbs |-> 4, top |-> 4, signed |-> FALSE, checked |-> FALSE, fixed |-> TRUE],
   [limbs |-> 5, top |-> 4, signed |-> FALSE, checked |-> TRUE, fixed |-> TRUE],
   [limbs |-> 8, top |-> 4, signed |-> TRUE, checked |-> FALSE, fixed |-> FALSE]}
WithNegatives(ns) == ns \cup {-n : n \in ns}
ProductValues == WithNegatives({0, 1, 2, 3, 4, 7, 13, 15, 16, 21, 31, 48, 63, 255})
AllLimbs == 1 - Base .. Base - 1

\* Limbs of four bits: signed and unsigned types of three limbs, the top limb used
\* up or not, and one that is wider than its numbers get
BitwiseTypes ==
  {[limbs |-> 3, top |-> 16, signed |-> TRUE, checked |-> FALSE],
   [limbs |-> 3, top |-> 8, signed |-> TRUE, checked |-> FALSE],
   [limbs |-> 3, top |-> 16, signed |-> TRUE, checked |-> TRUE],
   [limbs |-> 3, top |-> 4, signed |-> FALSE, checked |-> TRUE],
   [limbs |-> 3, top |-> 16, signed |-> FALSE, checked |-> FALSE],
   [limbs |-> 6, top |-> 16, signed |-> TRUE, checked |-> FALSE]}
BitwiseValues ==
  WithNegatives({0, 1, 2, 7, 8, 9, 15, 16, 17, 31, 90, 128, 240, 241, 255, 256, 257,
                 1000, 2048, 2303, 3841, 4080, 4095})
\* Up to past the largest type
SmallShifts == 0..16 \cup {24, 25, 60}

\* Square root, with limbs of four bits: a signed type, and unsigned ones of fixed
\* precision.  Every number of three limbs, and longer ones of extreme limbs.
AllRootTypes ==
  {[limbs |-> 7, signed |-> TRUE, checked |-> FALSE],
   [limbs |-> 6, signed |-> FALSE, checked |-> FALSE],
   [limbs |-> 6, signed |-> FALSE, checked |-> TRUE]}
OfLimbs(n, digits) ==
  {LET prefix[i \in 0..n] == IF i = 0 THEN 0 ELSE prefix[i - 1] * 16 + d[i]
   IN prefix[n] : d \in [1..n -> digits]}
AllRadicands ==
  0..4095 \cup OfLimbs(4, {0, 1, 7, 8, 14, 15}) \cup OfLimbs(5, {0, 1, 8, 15})
    \cup OfLimbs(6, {0, 1, 8, 15}) \cup OfLimbs(7, {0, 8, 15})

\* One limb: types that fill it and types that do not. The constructors, gcd and lcm of
\* a signed type leave negative zeros behind.
TrivialCalls ==
  {"construct", "assign", "copy", "add", "subtract", "multiply", "divide", "modulus",
   "left_shift", "right_shift", "complement", "and", "or", "xor", "gcd", "lcm", "negate"}
Arithmetical == TrivialCalls \ {"construct", "gcd", "lcm"}
TrivialType(s, c, m, l, calls) ==
  [signed |-> s, checked |-> c, min_bits |-> m, limb_bits |-> l, calls |-> calls]
TrivialTypes ==
  {TrivialType(TRUE, FALSE, 4, 4, Arithmetical), TrivialType(TRUE, FALSE, 3, 5, TrivialCalls),
   TrivialType(TRUE, TRUE, 3, 4, Arithmetical),
   TrivialType(FALSE, FALSE, 4, 4, TrivialCalls), TrivialType(FALSE, FALSE, 4, 6, TrivialCalls),
   TrivialType(FALSE, TRUE, 4, 5, TrivialCalls)}

\* Sums of a number of three limbs of two bits, one bit of the topmost used
MaskedCalls ==
  {"assign", "add", "subtract", "add_limb", "subtract_limb", "add_signed_limb", "decrement"}
MaskedTypes ==
  [signed : {TRUE}, checked : BOOLEAN, calls : {MaskedCalls}]
    \cup [signed : {FALSE}, checked : BOOLEAN, calls : {MaskedCalls \cup {"increment"}}]

Bitwise ==
  INSTANCE CppIntBitwise WITH
    Base <- 16, LimbBits <- 4, ByteBits <- 2,
    Types <- BitwiseTypes, Values <- BitwiseValues, Shifts <- SmallShifts,
    call <- b_call, pc <- b_pc, loop <- b_loop
Trivial ==
  INSTANCE CppIntTrivial WITH
    Types <- TrivialTypes,
    type <- t_type, num <- t_num, threw <- t_threw, failed <- t_failed
Masked ==
  INSTANCE CppIntAddSubtract WITH
    Obj <- {Single}, Base <- 4, MaxLimbs <- 3, TopLimb <- 2, Types <- MaskedTypes,
    type <- m_type, num <- m_num, before <- m_before, exact <- m_exact,
    failed <- m_failed, pc <- m_pc, r <- m_r, a <- m_a, pa <- m_pa, pb <- m_pb,
    m <- m_m, x <- m_x, i <- m_i, carry <- m_carry, swapped <- m_swapped

ASSUME KernelsAssumption ==
  /\ Bitwise!BitsAssumption /\ Bitwise!TypesAssumption
  /\ Trivial!TypesAssumption
  /\ Masked!SizesAssumption /\ Masked!TypesAssumption

Symmetric == Permutations(Obj)

Programs == {"kernels", "one limb", "sums"}
AnyTrivialType == CHOOSE t \in TrivialTypes : TRUE
AnyMaskedType == CHOOSE t \in MaskedTypes : TRUE

KernelsInit ==
  /\ program \in Programs
  /\ Init /\ Bitwise!Init /\ RootInit /\ Trivial!Init /\ Masked!Init
  /\ program = "one limb" \/ t_type = AnyTrivialType
  /\ program = "sums" \/ m_type = AnyMaskedType

\* A kernel goes on while the others are idle; a call begins when all of them are.
Kernel(pcs, others) ==
  /\ program = "kernels" /\ pcs = {"idle"}
  /\ UNCHANGED <<program, t_vars, m_vars>> /\ UNCHANGED others
MultiplyRuns == Kernel({b_pc, root_pc}, <<b_vars, root_vars>>)
BitwiseRuns == Kernel({pc, root_pc}, <<vars, root_vars>>)
SquareRootRuns == Kernel({pc, b_pc}, <<vars, b_vars>>)
TrivialRuns == program = "one limb" /\ UNCHANGED <<program, vars, b_vars, root_vars, m_vars>>
MaskedRuns == program = "sums" /\ UNCHANGED <<program, vars, b_vars, root_vars, t_vars>>

KernelsNext ==
  \/ MultiplyRuns /\ Next
  \/ BitwiseRuns /\ Bitwise!Next
  \/ SquareRootRuns /\ RootNext
  \/ TrivialRuns /\ Trivial!Next
  \/ MaskedRuns /\ Masked!Next

Kernels_vars == <<program, vars, b_vars, root_vars, t_vars, m_vars>>

KernelsSpec == KernelsInit /\ [][KernelsNext]_Kernels_vars

\* CppIntBitwise: the bitwise operations are those of two's complement.
BitwiseOfTwosComplement == Bitwise!BitwiseOfTwosComplement
\* CppIntBitwise: a shift multiplies or divides by a power of two.
ShiftsExactly == Bitwise!ShiftsExactly
\* CppIntTrivial: no number has a sign on its zero, or bits beyond the precision.
NormalForm == program = "one limb" => Trivial!NormalForm
\* CppIntTrivial: every call is exact, wraps or throws; comparison is by value.
ComputesExactly == program = "one limb" => Trivial!ComputesExactly
\* CppIntTrivial: arithmetic values are converted exactly, wrapped or refused.
ConvertsExactly == program = "one limb" => Trivial!ConvertsExactly
\* CppIntAddSubtract: where the precision ends inside the top limb, which is masked or
\* verified, sums and differences are those of integers.
MaskedImplementsArithmetic == Masked!ImplementsArithmetic
=============================================================================
