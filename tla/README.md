# Boost.Multiprecision in TLA+

A verification development for the library in `src/include/boost/multiprecision`:
modules that model its own arithmetic and memory management, configurations
that TLC checks, and theorems that TLAPS checks. Paths below are relative to
that directory unless they start with `src/`.

## The system

The library is a header-only front end, `number<Backend, ExpressionTemplates>`,
over interchangeable backends. It is sequential code: no component starts a
thread, and the only state that outlives a call is the numbers themselves, the
default precision of variable precision types and the caches of constants (per
thread, or static). What is hard is not concurrency between threads but
*interleaving within a call*: an operation reads operands while it writes a
result that may be one of them, and may be cut short by an exception at any
allocation or overflow check.

| component | state | operations | talks to | what makes it correct |
|---|---|---|---|---|
| storage of `cpp_int` (`cpp_int.hpp`) | limbs in the object or in a heap block (one union), `m_limbs`, `m_sign`, `m_internal`, `m_alias` | construct, copy, move, swap, `resize`, `normalize`, `sign`, assign from a string, destroy | every arithmetic function asks it for room | no block is freed twice, leaked or used after it was freed, whatever throws; objects are independent values |
| addition, subtraction (`cpp_int/add.hpp`) | the loop's position, its carry, pointers into the operands | `eval_add`, `eval_subtract`, with a number or a limb, `eval_increment`, `eval_decrement` | storage; front end | the sum, cut off or refused as the type declares, for every aliasing of arguments; loops stay inside the limbs |
| one-limb `cpp_int` (`cpp_int.hpp` 948-1300, the ends of `cpp_int/*.hpp`) | one machine integer and a sign | all arithmetic, shifts, bitwise operations, gcd, lcm, comparison | front end; also the building block of the mantissas | arithmetic modulo the precision or an exception; one representation per value |
| multiplication, division (`cpp_int/multiply.hpp`, `divide.hpp`) | scratch memory, guessed quotient digits | `eval_multiply`, `divide_unsigned_helper`, Karatsuba recursion | storage, addition | the product and quotient; the correction loop ends; scratch memory is neither overlapped nor freed |
| shifts and bitwise operations (`cpp_int/bitwise.hpp`) | two carries of two's complements made on the fly | `&`, <code>&#124;</code>, `^`, `~`, `<<`, `>>` | storage | results as of two's complement; in-place shifts move no limb over one still needed |
| number theory, import and export (`cpp_int/misc.hpp`, `import_export.hpp`) | the levels of the square root's recursion | gcd, powm, sqrt, bit access, conversions | the above | no intermediate overflows the target |
| expression templates (`number.hpp`, `detail/et_ops.hpp`) | the target, which may occur in the expression | `do_assign`, `do_add`, .. and the compound assignments | the backend's `eval_*` | the target receives the value the expression had before the assignment |
| default operations (`detail/default_ops.hpp`) | none | what a backend leaves out | backend | as for the front end |
| precision and constants (`detail/precision.hpp`, `detail/functions/constants.hpp`) | default precision, cached constants | scoped change of precision, lookup | variable precision backends | the default is restored; a cached constant is never less precise than asked for |
| `cpp_bin_float`, `cpp_dec_float` | mantissa, exponent, sign, special values | arithmetic, rounding, conversion | `cpp_int` | correctly rounded results, no exponent out of range |
| C library backends (`gmp.hpp`, `mpfr.hpp`, `mpfi.hpp`, `mpc.hpp`, `tommath.hpp`, `float128.hpp`) | a handle that may have been moved away | life cycle, arithmetic by the library | C libraries (external) | no operation on a dead handle |
| adaptors (rational, complex, logged, debug) | the wrapped numbers | forwarding | a backend | as the wrapped backend |

`PROJECT.json` lists every component with its status, and under `hazards` every
place we know where this code can go wrong in a way that a test hardly reaches,
with the properties that guard it.

## What is modelled

### Storage: `CppIntStorage`, `NumberValues`

`CppIntStorage` is the class `cpp_int_base<MinBits, MaxBits, signed_magnitude,
Checked, Allocator>`. Each field of an object is a field of a record; the heap
maps blocks to their capacity and contents; `threw` says whether the last call
was left by an exception. Each member function is an operator with the name it
has in the code, from a memory to the set of memories it can end in: `resize`
that needs a new block may always fail, since any allocation may. A number is
abstract, a magnitude with a length in limbs: storage does not depend on digits.
`Junk` stands for limbs that no completed operation has written.

The union is modelled as a union: the member read is the one `m_internal`
selects, and after a move the stale pointer stays where it was, as in the code.
Stack temporaries (the result of the string assignment, the copy that a product
into its own operand is computed from) are objects like any other.

`NumberValues` is what a user of the class relies on: objects are independent. A step
sets one number, or moves one from an object that keeps it or is left unspecified, or
exchanges two, and all other objects stay as they were. `CppIntStorage` implements it
(`ImplementsNumberValues`) under the mapping `Number(x)`, which reads the value an object
holds through its representation. `NumberValues` leaves the result of a step open, so
that it does not say that a copy equals its source. `CallsDeliver` does: it says
of each member function, in every reachable state and whether or not it throws, what all
objects hold afterwards (`CopiesDeliver`, `MovesDeliver`, `ResultsDeliver`). After a
throw the target of an operation is as it was, or has lost its number if limbs had been
written; that of an assignment has lost its number (`assign` sets `m_limbs` to zero
before it asks for room); that of a string assignment is zero, against the
comment at `cpp_int.hpp:1674`.

### Addition and subtraction: `CppIntAddSubtract`, `BoundedIntegers`

Here limbs are digits and a call is a sequence of steps, one for each iteration
of a loop of `add.hpp`; the result may be either operand, or both, and a limb
that `resize` has just exposed holds anything. `num` is what the memory holds,
`before` what it held when the call began and `exact` the integer that the call
is asked for (history variables that no step reads). Variables
`r a pa pb m x i carry swapped` are the locals of the C++ functions. A call that
cannot loop (one limb, equal operands, the shortcuts of increment and decrement)
is one step. Where an exception leaves the call the target keeps what was already
written and joins `failed`; the model reads such a number no more, since its limbs
need not be normalized, but may assign to it.

`BoundedIntegers` is the promise: a call asks for an integer, which the values of
its arguments at that moment determine, and delivers it later, reduced modulo the
precision, or an exception if the type is checked; no number but its target
changes. `IntegerTypes` is the arithmetic of such types.

### The loops over limbs: `CppIntMultiply`, `CppIntKaratsuba`, `CppIntDivide`, `CppIntBitwise`, `CppIntSquareRoot`

A number's memory is one integer, read and written limb by limb (`LimbNumbers`);
above the limbs in use lies what earlier values left there. A call is chosen with
its type, its operands and the way they coincide with the result, runs one step
per iteration, and returns; `call` keeps what it was asked for.

- `CppIntMultiply`: the rows of products that `eval_multiply` adds up in the
  result, cut off at the end of a fixed precision; the product by a limb in place;
  the products of two double limbs; the copies that are made of an operand that is
  the result.
- `CppIntKaratsuba`: `setup_karatsuba` and the recursion of `multiply_karatsuba`.
  All numbers of a multiplication are views of one memory of limbs, so that
  whether the parts overlap is a matter of addresses and not of names; `storage`
  is the bump allocator that the recursion takes its sums from. Products of parts
  below the cut-off, sums and differences are one step.
- `CppIntDivide`: `divide_unsigned_helper`. The quotient digit is guessed from
  leading limbs, in double limbs of a fixed width, and may be too large; then the
  remainder holds by how much it is negative and the next guess is taken back.
  The functions around it, with quotient or remainder written over an operand.
- `CppIntBitwise`: `bitwise_op` with the two carries of the two's complements
  that it makes up as it goes, and shifts by limbs, by bytes and by bits in place.
- `CppIntSquareRoot`: `eval_sqrt_karatsuba` with the base cases of one to four
  limbs in 64-bit words, the estimate by the processor's `sqrt` (which may be the
  root or one less), and the recursion with its correction. Its parameter is a quarter
  of a limb, which the pieces that the base cases cut limbs into are multiples of.
  `IntegerRoots` has the arithmetic of one level.

`MCCppIntDivide` checks the division, `MCCppIntKaratsuba` the products by parts, and
`MCCppIntKernels` the other three, composed as a program that calls one after the other;
in the same run other programs calculate with numbers of one limb, and with sums whose
precision ends inside the top limb.

### One limb: `CppIntTrivial`, `IntegerTypes`

Functions are operators from operands to a result and a flag for an exception;
actions apply them to the numbers of a program, in any order, so that they meet
every representation that other calls leave behind: wrapped values, negative
zeros, values out of range after a throw. Widths are kept: `local_limb_type` has
`limb_bits`, of which `min_bits` count.

### Expression templates: `Expressions`, `ExpressionArithmetic`, `ExpressionTemplates`

`Expressions` has what `detail/et_ops.hpp` builds: the type of an expression is a
record of its tag and its parts, and the operators return the expressions that
the overloads return, with products and sums fused and negations moved outwards.
`ExpressionArithmetic` is the arithmetic that backends promise: integers, or, for
numbers that are not integers, the field of the residues modulo a prime, where
division is exact; rounding is left out, and a function like `sqrt` is stood for
by squaring.

`ExpressionTemplates` is a program that writes one expression, as on a stack, and
assigns it to a number or combines it with one. One statement is enough: nothing
but the numbers outlives it. Each `do_assign`, `do_add`, .. is an operator that
yields the calls it consists of, and `calls`, what the statement has still to do,
is worked off from the left: `Enter` replaces a call by those it makes, `Compute`
is a call of the backend, `BeginScope`, `EndScope` and `Exchange` are the life of
a `self_type temp(e)`, and a division by zero leaves the statement by `Throw`.
`goal` is the value of the expression as written, taken operator by operator
before anything was rearranged; no step reads it.

A program that writes one of the two expressions of which we know that they are
computed wrongly (`Overlooked`) sets `exposed`; such statements are left out of
the properties, and every other one is in.

### Precision chosen at run time: `VariablePrecision`

`number` over `gmp_float<0>`. A number is its precision and the room of its
handle; of a value only the digits that it is right to are kept, and of a constant
the digits and the room it was computed with. A statement is a stack of frames,
since an assignment may construct a temporary for itself by an assignment: each
sets the default precision for as long as it runs, promotes its target, works off
its operations, and gives the default back, also when a division by zero leaves
it. The frame's `todo` are the calls that the same `do_assign` functions make that
`ExpressionTemplates` models. `made`, `due`, `asked` and `unpromoted` are history
variables.

### Binary floating point: `CppBinFloat`, `BinaryFloats`

`cpp_bin_float.hpp` writes its results piece by piece, exponent, bits, sign, into
a number that may be an operand; an operation is an operator on all numbers, `st`,
that yields them afterwards, with `copy_and_round` and the checks of the exponent
in the order of the code. The bits are an integer of at most `bit_count` bits plus
what `double_rep_type` has for products and sums. Exponents have a type of
`exponent_bits` bits, at whose limits the static assertions of the class place the
largest and the smallest exponent. `BinaryFloats` is IEEE arithmetic by definition
(`Rounded`): the nearest value of the exact result, ties to even.

`type` and `kind` in the modules above, and `checked` in the first, are the
template arguments: chosen in the initial state or with the call, so that one run
covers several types.

## What TLC checks

| run | question | bounds |
|---|---|---|
| `storage` | `RepresentationOK` (the union is read as what was written), `OwnedBlocksAllocated`, `SoleOwner` (no double free), `NoLeak`, `NormalForm`, `CallsDeliver` (what each call leaves, also if it throws), `ImplementsNumberValues`; checked and unchecked | 3 objects, 3 blocks, magnitudes of 1, 3 and 10 limbs, 2 internal limbs, at most 9 limbs |
| `add_subtract` | `NormalForm`, `LoopsStayInBounds`, `UnreadLimbsKept` (the aliasing condition), `ImplementsArithmetic` | 3 numbers of 3 one-bit limbs; signed or not, checked or not |
| `division` | `DivisionIdentity`, `QuotientInPlace`, `DividesExactly`, `EveryGuessHelps`, `CallsReturn` | one call at a time; see below |
| `kernels` | products: `PartialProducts` (the loop invariant of the rows), `MultipliesExactly`; bits: `BitwiseOfTwosComplement`, `ShiftsExactly`; roots: `RootExact`, `WordsSuffice`; one limb: `NormalForm`, `ComputesExactly` (comparisons included), `ConvertsExactly`; sums where the precision ends inside the top limb, which `normalize()` masks or verifies: `MaskedImplementsArithmetic` | one call at a time, or any calls on 2 numbers of one limb, or on 1 number of 2 bits, 2 bits and 1 bit; see below |
| `products_by_parts` | `ScratchIsPrivate`, `ProductExact` | numbers of 9 to 20 one-bit limbs; see below |
| `expressions` | `AssignsMeaning`, `TargetNotReread` (why computing in the target is right), `NoTemporaries` (what the introduction promises); the target may be in the expression anywhere | 2 numbers; 8 kinds: 3 operators, or 4 of the basic ones; 5 temporaries |
| `precision` | `DefaultRestored`, `LargestPrecision`, `KeepsDigits`, `TailNotChased` | 3 numbers, 3 precisions, 180 statements of up to 4 operations, 5 nested assignments |
| `bin_float` | `Normalised`, `ArithmeticRounds`, `FunctionsRound`, `ConversionsRound`, `OrderAgrees` | 2 numbers of 3 bits, exponents -10 to 9 in a type of 5 bits |
| `increment_sign` | violated: `eval_increment` adds one | 1 number of 3 one-bit limbs |
| `bitwise_alias` | violated: a temporary is made where it is needed, for bitwise operations | 2 numbers, 3 operators |
| `float_sqrt` | violated: a square root is positive | as `bin_float` |
| `root_of_four_limbs` | violated: `sqrt(x, r)` returns the integer root and the remainder | as `kernels` |

Each module states a type invariant. That of `CppIntStorage` is proved, with the
properties of its memory (`MemorySafety`); the runs check the others no more, which
say less than the properties that rest on them.

Why these bounds are enough.

- Storage: a move or a swap involves two objects and a temporary; three blocks let
  every object own one. The magnitudes are one for each path of `resize`: in the
  object, in the first block and in the block cut off at the bound, and what does
  not fit.
- Addition: two limbs are needed for a carry to pass between limbs, a third for
  it to ripple through a limb only the longer operand has; a one-bit limb makes
  every carry happen; three numbers allow every coincidence of result and
  operands, among them none.
- Products: two-bit limbs, operands of up to four limbs, whose products are cut
  off by types of three to five limbs, or not by a variable precision; negative
  operands; every way the result is an operand.
- Products by parts: one-bit limbs and the smallest cut-off for which the scratch
  memory suffices, 9 (the code has 40). Factors of 9 to 20 limbs make the recursion
  split twice, evenly and unevenly, with a shorter factor that has no high part,
  and with bit patterns that carry through a whole part or leave one zero.
- Division: two-bit limbs, every dividend of up to four limbs by every divisor of up
  to three, so that every pattern of guesses occurs that two leading limbs of this
  width can lead to; the aliases and signs with fewer operands.
- Bits: four-bit limbs of two bytes, one to three limbs, the powers of two and
  their neighbours, shifts from zero to beyond the widest type.
- Roots: four-bit limbs, so that a half and three quarters of a limb are whole bits
  (the code has 16 and 24 of 32). Every number of up to three limbs; of four to
  seven limbs those that consist of extreme limbs, which reach the recursion. For
  four limbs and more `RootExact` excludes the executions in which a bit was
  lost (`lost`): `root_of_four_limbs` is about those.
- One limb: two numbers, six types of 3 or 4 bits in limbs of 4 to 6. The operations are functions of the numbers they are given, and every
  value of the types is reached; the types are one for each relation of sign, check
  and unused bits.
- Expressions: no function looks further than at the two parts of an expression and
  their depths, so three operators give each part the three forms that matter, the
  target itself, an expression that mentions it and one that does not; four put one
  level more below them. One number that is not the target is enough, since nothing
  compares two of those. An expression that runs out of temporaries would deadlock:
  none does.
- Precision: the code compares two precisions at a time, the target's, the
  expression's and the default; three values allow every order of the three.
- Floating point: three bits make every kind of rounding and tie, and sums that
  cancel to one bit; the exponents reach the limits of their type, so that every
  overflow of an exponent's arithmetic would show. What the rounding has to be is
  stated for every pair of numbers.

Fairness is assumed for `CallsReturn` only: `WF(Step)`, that a division which has
begun keeps executing. The code is sequential and waits for nothing, so nothing can
stop a loop but its own condition; no fairness is assumed of the program that makes
the calls. `CallsReturn` is checked of the division, where nothing counts the guesses.
The loops of the other modules count limbs, and the recursions of `CppIntKaratsuba` and
`CppIntSquareRoot` have fewer limbs at every level. Deadlock is checked in every run.

## What the code does that its documentation denies

Each of the first four is a run that TLC must find violated; `findings` quotes the
sentences.

- `increment_sign`: `eval_increment` of a negative number of several limbs
  writes to the lowest limb and drops the sign when that limb becomes zero.
- `bitwise_alias`: `x = (x + a) & (x | b)` evaluates one operand into `x` and then
  the other with the new `x`; the sums have a branch for this, the bitwise
  operations do not.
- `float_sqrt`: `y = sqrt(x)` with a negative `y` is negative, since `eval_sqrt`
  never writes the sign of its result.
- `root_of_four_limbs`: the base case of four limbs compares `(u << 24) | a0` with
  `q * q` in 64 bits, although `u` can have 41: the topmost bit is lost and the root
  returned is one too small. The same property fails for unsigned types of more than
  four limbs, where the remainder of a root that is one too large is tested for its
  sign (`default_ops.hpp:1746`) and has none, or throws if checked. The function also
  asserts that limbs have 32 bits (1664).

Others that the models show and the properties leave out; no run is kept for them:

- a string assignment sets its target to zero before it reads the first digit, so
  that a malformed string spoils it (`cpp_int.hpp:1650`, the comment at 1674);
- `normalize()` of a signed one-limb type looks for zero before it masks, so that a
  wrapped result can be a zero with a sign (`cpp_int.hpp:1071`). The constructors
  (from a multiple of the modulus) and `eval_gcd`, `eval_lcm` into a number that was
  negative leave such zeros too; `OverlooksZero` names the types that
  `CppIntTrivial`'s `NormalForm` leaves out for it, `NotRefused` the one argument
  that the constructors of a checked type should have refused;
- bitwise operations on negative one-limb numbers test a bit above the sign bit,
  and are never negative (`cpp_int/bitwise.hpp:780`);
- `x = x / ((a + b) * x)` of numbers that are not integers divides `x` by one factor
  after the other, the second time by itself (`number.hpp:1176`);
- a product cut off at a fixed precision may leave leading zero limbs
  (`cpp_int/multiply.hpp:287`), and the one-limb product may keep the sign of a zero
  (736); `eval_modulus` by a limb that is zero divides by it
  (`cpp_int/divide.hpp:547`); `eval_qr` reads the operands' signs after it wrote the
  quotient (`cpp_int/misc.hpp:308`);
- the scratch memory of products by parts, `5 * s` limbs, suffices for a cut-off
  of 9 limbs or more: the code's 40 is on the safe side, a smaller one configured by
  hand may not be;
- `x -= y - z` subtracts at the precision of `x` and not at the largest
  (`number.hpp:1668`); a moved-from `mpf_float` has no precision left;
- `cpp_bin_float` rounds some differences twice (`cpp_bin_float.hpp:780`; with three
  bits 0.625 - 10 is -8), integers that have more bits than a number are assigned
  truncated and without a look at the exponent, `x *= 0u` loses the sign of `x`,
  `x = ldexp(x, e)` of a negative `x` that overflows is plus infinity, since the sign is
  read from the argument after infinity was written over it (`cpp_bin_float.hpp:1546`),
  `ldexp` by a power that the exponent's type cannot hold yields an infinity even for
  large negative powers, and a conversion to `long long` returns the largest value for
  the number just below it. `ArithmeticRounds`, `FunctionsRound` and
  `ConversionsRound` name these cases as exceptions.

## What is proved

Eight modules hold proofs that TLAPS checks to the last leaf. Each theorem is about every
value of the constants that its module's named assumptions allow; the runs above show
the same properties on the small instances.

### The memory of `cpp_int`: `CppIntStorageProofs`

`MemorySafety`: in every reachable state of `CppIntStorage`, `TypeOK`,
`RepresentationOK`, `OwnedBlocksAllocated`, `SoleOwner` and `NoLeak` hold, for any sets
of objects, blocks and magnitudes, any size of the internal buffer and any bound.
`UnionReadAsWritten`, `NoUseAfterFree`, `NoDoubleFree` and `NoBlockLost` are the four
properties one by one. Assumed is that the internal buffer has at least two limbs and
the bound is no smaller; that every magnitude occupies at least one limb, and what is
left of it within the bound fits the bound; that the constant's memory is not a heap
block.

The argument. The properties are about live objects only and are not inductive:
a member function runs through memories in which an object has let go of its
block and not yet got another, or in which two records hold one pointer.
`SoundOn(m, S)` says of a memory `m` and a set `S` of objects that they are well
formed, that each owner in `S` has its block allocated with the capacity it
believes in, that no two of them share a block, and that every allocated block
belongs to one of them; `Sound(m)` is the case `S = Obj`, and `IInv` says that
the current memory is sound. A function is taken apart into its steps:
`ReleaseSound` (the block given back leaves the others sound without the object),
`TransferSound` (a block changes hands), `PutSound`, `WriteSound`,
`ReallocateSound`. Each member function then has a lemma that takes a sound
memory to sound memories, whether or not it throws (`ResizeSound`,
`AssignSound`, `TakeOverSound`, `MoveAssignSound` with self-move, `SwapSound`,
`AssignStringSound`), and `NextSound` puts them together.

### Numbers as values: `CppIntStorageProofs`, second part

`NumbersInNormalForm` (`NormalForm` of the storage), `CallsDeliverNumbers`
(`CallsDeliver`) and `StorageImplementsValues`: every step of `CppIntStorage` is, under
the mapping `Number(x)`, a step of `NumberValues` or a stutter. The last is about
independence only; that a copy equals its source, and what each other call leaves, is
`CallsDeliverNumbers` (`DeliversNow`, from one lemma for each member function). The
argument: a function writes to the memory of its own object only, and
`SoleOwner` makes that memory the object's alone, so that the number any other object
holds is the one it held (`Beside`); what the function leaves in its object is the number
that it should (`Held`). That a copy is never cut off needs one more fact, that a number
in normal form has no more limbs than the bound allows (`Normal`).

### Addition and subtraction: `CppIntAddSubtractProofs`

`NumbersStayNormal`, `LimbsStayInBounds` and `OperandsReadBeforeWritten`: `NormalForm`,
`LoopsStayInBounds` and `UnreadLimbsKept` for every base, every number of limbs, every
width of the topmost limb that divides the base, and every set of numbers. The three are
proved together, since they rest on one another: the search for a limb to borrow from
ends inside its operand only because the topmost limb is not zero, and the limbs that
a call delivers are limbs only because the loops read what they were given.
`Running` is the invariant of a call: numbers other than the result are untouched, the
result has the larger operand's size, and behind `i` both operands read as at the
beginning, whether or not they are the result. The longest lemma, `ComplementNormal`, is
about `negate()` of an unsigned type: the complement of a number in normal form is in
normal form unless the number was zero, also when the topmost limb is only partly used.
Where a proof would use induction, over the limbs, `LeastNatural` (every set of naturals
has a least one) takes its place.

### Sums as integers: `CppIntAddSubtractProofs`, second part

`AdditionImplementsIntegers`: `ImplementsArithmetic`, that is, every step of
`CppIntAddSubtract` is a step of `BoundedIntegers` or a stutter, for every base, every
number of limbs and every precision. `Promised` is assumed: the special value of a
target whose call threw is not an integer, and signed numbers are not incremented, since
the code gets that wrong (`increment`). Everything is stated about numbers as
`MaxLimbs` digits, `V` being their value. The argument:

- If digits are added place by place, with carries that go in and out, the values add up
  but for the last carry (`Sums`); `Masked` does the same for bits cut off at the top.
- `Progress` is the invariant of a loop: there is a chain of carries, or of borrows, that
  ends in the current one and accounts for every limb written so far (`StoreProgresses`).
- When the loop ends, the limbs it has not touched are copied, the chain is continued
  with no carries or dropped at the top (`CarryOutDelivers`), and `normalize()` and
  `sign()` take off what exceeds the precision (`NormalizedValue`, `ComplementValue`).
- A difference of magnitudes leaves no borrow because the operands were exchanged in time:
  `LargerAt` is the digit that decided the comparison (`NotLess`, `LargerDigit`).
- `CallRefines` has one lemma for each function that begins a call.

### The default precision and the temporaries: `VariablePrecisionProofs`

`DefaultIsRestored`: after every statement the default precision is the one that the
program has set, for any expressions, precisions and depth of nested assignments, and
wherever a division by zero leaves the statement. `Chained` is the stack of guards: each
has saved the precision of the one below it, the lowest the program's own, so that
giving up the guards from the top restores it. `Orderly` says of the operations that are
left to do that the use of a temporary is always followed by its destruction; without it
a frame could be left while its temporary is still alive. Assumed is that the statements'
targets are numbers.

`TailIsNotChased` (`TailNotChased`): `operator=` of a target with another precision than
the expression constructs a temporary and moves it, and the `operator=` of that temporary
never does so again, for any expressions, precisions and depth. Assumed is that the
expressions are what `et_ops.hpp` builds, trees whose leaves are the program's numbers
(`ExpressionAssumption`, which TLC evaluates for the instance). The invariant `TInv` says
that every running assignment has nothing to move (`Plain`), is about to move a complete
temporary (`Moves`), or, only the last one and only as it begins, has still to construct
it (`Begins`); then the default precision is that of the expression to construct it from,
also if this is the one that a compound assignment makes with its target
(`OperandNumbers`), and so the temporary is born with it. Of two neighbours one is plain.

`ResultIsMostPrecise` (`LargestPrecision`): when an assignment has returned, its target has
the precision of the most precise operand, and the room for it, unless `do_subtract` has
overlooked a promotion. `DigitsAreKept` (`KeepsDigits`): nor has any operation on the way
been carried out with fewer digits, and a constant had fewer only where an earlier call
chose its room. Both hold for any numbers, precisions, expressions and depth. Neither is
inductive: they speak of assignments that have returned, and what decides is what the
running ones have left to do. The invariant `PInv` says of each of them

- `Sound`: what it still reads are numbers no more precise than its guard says (`Usable`);
  its target is no more precise either, unless the temporary is to be moved to it, and the
  temporary is not, nor will it be when the assignment to it returns (`Expected`).
- `Exact`: each operation comes after a promotion, or the target has the precision of the
  guard already, and no call between them changes that (`Precise`, by `Settled`). In the
  end the target has this precision by the same argument (`Ends`), or else a single copy,
  assignment or temporary of the right precision is left to give it (`Outright`), or the
  temporary is complete (`Complete`).
- `Served`: what the value of a number needs is at most its precision, and was there when
  it was computed.

`Sound` always holds; `Exact` and `Served` only while no promotion has been overlooked. What
the functions of `number.hpp` leave to do reads the operands of the expression and no
number that was written meanwhile (`BodyFresh`), and promotes its target before it
computes (`BodyPrecise`); an assignment that constructs a temporary hands the invariant
on to the one that it begins (`Begun`). `ConstantInv` is
about the cached constant: it has all the digits it has room for, or all it was asked for.
Two assumptions more are needed, which TLC evaluates for the instance: there are finitely
many precisions, so that the largest is one of them; and an expression reads at least one
number and its negations have one operand, as `et_ops.hpp` builds them.

### Expressions and their target: `ExpressionTemplatesProofs`

`TargetIsNotReread` and `ChainsNeedNoTemporaries`: `TargetNotReread` and `NoTemporaries` of
`ExpressionTemplates`, for expressions of any length over any numbers, where the runs stop
at three or four operators. The argument:

- `Tree`: what the operators of `et_ops.hpp` build is a tree, with as many operands as its
  tag asks for, and numbers where the tag says so. It is stated with a set of expressions
  that contains the parts of each of them, so that no induction over expressions is
  needed. That fusing products and moving negations keeps trees and chains what they are
  is `BinaryOperatorTree` and `UnaryOperatorTree`.
- `Doing`: the calls that a function consists of read the operands of the expression,
  the temporary, and the number they are called on as the result so far; and what comes
  after a call that writes to the target leaves it alone (`Ordered`). This is shown of
  every branch of `do_assign` (`AssignDoing`), of the functions for the compound assignments
  (`ApplyDoing`) and of `operator+=` and its kin (`OperatorDoing`).
- A compound assignment to the target whose expression mentions it would write and then
  read; `Careful` says which of these can occur: a number, and the quotients and moduli
  that make a temporary of the whole expression. The branches of `Overlooked` are those
  that it fails for, and so they are excluded by name (`exposed`).
- The invariant `CallsOrdered`: what is left to do is ordered, and leaves the target
  alone if it has been written to. It is inductive because the first call is replaced by
  calls on the same number or a fresh temporary (`OrderedEnter`).
- `CallsFlat`, for chains: what is left to do are calls of the backend, the assignment of
  a shorter chain and the application of single numbers. The deeper operand goes first, a
  number has depth 0, and so the number is the one that is applied (`AssignFlat`).

`MaxTemps` is a positive number: the stack has room for a temporary. That the target ends
up with the value of the expression (`AssignsMeaning`) takes arithmetic over the tree and
stays with TLC.

### Numbers limb by limb, and the square root: `LimbNumbersProofs`

What proofs about loops over limbs need to know of the operators of `LimbNumbers`, for
every base: that a limb that is written is there and the others are what they were
(`WriteLimb`, `WriteAbove`, `WriteLow`, `WrittenLimbs`), that a number is the sum of its
low part and its limbs (`LimbFacts`, `PartsOfParts`), and that a size is the number of
limbs without leading zeros (`Sizes`). `Power` and `Size` are recursive functions; that
the functions exist and are what their equations say is proved from first principles, with
`LeastNatural` for induction (`PowerFacts`, `SizeFacts`).

The last part of the module is about square roots. `OneCorrectionSuffices`: one level of
the Karatsuba square root yields the root and the remainder with at most one correction,
for every base. The quotient digit is at most the base because the root of the leading part
is at least half of it. That the code gives the leading part enough limbs for that, and
applies the level to the right parts, is proved with the recursion (`RootsAreExact`).

### Products: `CppIntKernelsProofs`, first part

`ProductsAreExact` and `RowsAddUp`: `MultipliesExactly` and `PartialProducts` of
`CppIntMultiply`, for every base, every number of limbs and every set of types, values and
limbs. Assumed of the types is what `cpp_int_base` makes of its parameters: three limbs
or more, a topmost limb whose range divides the base (both are powers of two), and that
numbers of variable precision are signed, unchecked and use the whole of it. The argument:

- `Excess` is what the product of the limbs used so far is ahead of the result and the
  carry. It says more than `PartialProducts`: the product of what has been used is an
  integer and not a residue, so that a checked type can be shown to lose nothing.
- An iteration of the inner loop leaves the excess alone (`RowLimbExcess`). At the end of
  a row either the carry is written into a limb that is zero still, which takes the bound
  on the result in `RowsSoFar`, and the excess stays (`RowEndKept`); or the row has been
  cut off at the end of the result, and what the excess grows by has no room there
  (`RowEndCut`). A checked type is never cut off: `BeginRows` has thrown, and
  `TooLong` says that it had to.
- By a limb, the product and the multiplicand share memory: `LimbsSoFar` is the product
  of the limbs below `i`, next to the limbs of the multiplicand from `i` on.
- `CutOff` is `normalize()` for both kinds of precision, and `Delivered` the end of all
  these functions, with the sign, the complement of an unsigned type and the exceptions.
- Four products of limbs make the product of two double limbs (`FourLimbsExact`), without
  a sum on the way that is more than one; with signs both middle products are added at
  once, since the operands are half as large (`FourSignedLimbsExact`).

`LimbsAndCarriesFit` is the type invariant, with the assertion at `multiply.hpp:483`.

### Square roots: `CppIntKernelsProofs`, second part

`RootsAreExact` (`RootExact`) and `OtherWordsSuffice` (`WordsSuffice`), for every number,
every width of a limb of which a quarter is at least two and even (that of 32 bits is
`2^8`), and every type. Assumed of the processor's `sqrt` is what `Estimates` says: that
the estimate is the root or one less. The argument:

- `FloorRoot` is defined two bits at a time; that it is the root takes the least number for
  which it would not be (`FloorRootIsFloor`). `sqrt_uint64_t` makes up for an estimate that
  is one too small (`NativeRoot`), and so the processor's choice is forgotten.
- The base cases of three and four limbs are levels with digits of a half and of three
  quarters of a limb (`ThreeLimbsRoot`, `FourLimbsRoot`). That their values fit in two limbs
  is a bound on each of them; that of `val_prime` holds because the remainder was halved
  (`HalvedDigits`). Where `u` still fits, the comparison in a word is the sign of the
  difference of integers, and the root is right; where it does not, the theorem says
  nothing, and `root_of_four_limbs` shows that it is wrong.
- `RootInv`, the inductive invariant: each level of the recursion takes the root of the
  leading part of its predecessor (`Leading`), is at least as large as its four parts
  (`IsSplit`), and what the innermost one has got back is the root of its leading part
  (`RootIs`). `IsSplit` is why it is needed: it makes the root of the leading part at least
  as large as the base of the digits, so that one correction suffices (`CombinedRoot`).

### Products by parts: `CppIntKaratsubaProofs`

`ScratchStaysPrivate` (`ScratchIsPrivate`): for every base, all factors, every type of the
result and every cut-off from 20 limbs on, the `5 * s` limbs that `setup_karatsuba`
allocates suffice for the whole recursion, and no invocation writes over what it, or one
that it serves, still reads. `multiply.hpp` calls the size an estimate, and `allocate()` has
an assertion only. The code's cut-off is 40; the instance's is 9, for which the recursion
needs more of its scratch memory, and which TLC checks. The invariant is `Placement`:

- `Stacked`: the invocations stand on the scratch memory one on the other; all but the
  innermost have split their operands, and each writes to the `Part` that the one it serves
  waits for. An invocation is pushed (`Pushed`) and popped (`Popped`) without a change to
  what is below it.
- `Placed`: what an invocation reads and writes is below the place where it stands, operands
  apart from the result. Above that place there are five limbs for each limb of its longer
  operand, or the operand is too short to be split (`Entered`). The temporaries take
  `4 * n + 4` of them, and of the rest there are five for each limb of the sum of two
  parts (`HalfIsEnough`); that is where the cut-off matters.
- The memory matters for one thing: a number is less than `Base^k` if it is read from `k`
  limbs (`ValueBounded`), so that no product is longer than its part (`LeafFits`).

`ProductsByPartsAreExact` (`ProductExact`), under the same assumptions: the result is the
product of the factors, or of a fixed precision type what it has room for; only a checked
type throws, and only if it has to. `ProductExact` is not inductive, since it does not say
what an invocation is for. The invariant is `Placement` with `Exact`:

- `Serves`: what an invocation multiplies are the numbers that the one it serves wants
  multiplied (`Wanted`): both low parts, both high parts, or both sums of the two parts. It
  says so of the numbers, not of the views, since the temporaries hold the sums.
- `Sound`: what has been multiplied stays in its part of the result, with nothing above it
  (`PartCleared`), and the sizes kept of it are right.
- `Delivered`: when an invocation ends, its product is what the one it served wanted
  (`PopExact`); the outermost has the product of the factors where the result will be taken
  from.

A step keeps this of all other invocations because it writes to the innermost one's result
or above the place where that one stands (`Untouched`), and what the others read is
elsewhere (`OperandKept`, `SoundKept`, `ServersKept`): that is what `Placement` is for. The
arithmetic is in `CombinedProduct`: the three products make the product and their difference
is not negative (`ThreeProducts`, `MiddleProduct`), and adding that `n` limbs up, in place,
does not carry out of the result (`MiddleAdded`).
Numbers in the memory are compared through `Read`, of which is proved by induction over
the limbs that a number is its low and its high part (`ReadParts`), that leading zeros do
not count (`ReadUsed`), and that one reads what has been written (`ReadWritten`).

### Quotients: `CppIntDivideProofs`

`QuotientsAreExact`, `IdentityIsKept`, `QuotientStaysInPlace` and the action property
`GuessesHelp`: `DividesExactly`, `DivisionIdentity`, `QuotientInPlace` and
`EveryGuessHelps` of `CppIntDivide`, for every base, every set of types and all operands.
Assumed of the types: three limbs or more (one and two are divided by the machine) and a
topmost limb whose range divides the base. The invariant `Inv` was checked by TLC first; it
says more than the properties do in four places:

- `Guesses`: the guessed multiple of the divisor's top limb alone is no more than the
  remainder. That, and not a bound on the quotient digit, is why the remainder gets
  smaller in absolute value although the multiple of the whole divisor may be more than
  the remainder (`GuessSize`, `GuessFits`). A multiple that does not fit the type can only
  be one for the type's topmost limb, and only if all of that limb is used (`WrapsAtTop`):
  then `2^n + t - r` without the lost limb is `t - r` (`ReducedTo`).
- `Remainders`: before a guess is subtracted, the quotient is ahead of the remainder by
  that guess, with the sign that `r_neg` gives it (`InStep`).
- `Quotients`: the limbs of the quotient below the next guess are zero, so that adding the
  guess in one limb keeps the size, and taking one back never borrows into a quotient that
  is zero. The quotient fits the limbs that were prepared because what is left is less
  than the dividend even if it is negative (`QuotientFits`).
- `LimbsSoFar`: by one limb only the quotient's limbs above `r_order` count (`DownTo`),
  what is left fits, and the limb that is written next is zero or is written now
  (`LimbDivided`).

`ModulusLoop` is the loop of `eval_modulus` over the limbs, as an induction over them.
That the loop of guesses ends follows from `GuessesHelp`, since a natural number cannot
get smaller for ever; that step is liveness, and the run checks it (`CallsReturn`).

### What is only model-checked

The other loops over limbs (bitwise operations and shifts in `kernels`), the
one-limb types, what expressions compute, and floating point. Out of the prover's reach
are liveness (`CallsReturn`), the bitwise results of the one-limb types, which are sums over
sets of bits, and what the recursive functions on expressions compute: both would need
induction over the data.

## Plan

What the plan of the first version called for is done: the kernels, the precision chosen at
run time and the floating point numbers are modelled and checked, and storage, addition,
multiplication (by rows and by parts), division, the integer square root, the order in which
an expression is evaluated and the precision chosen at run time are proved about. Left, in order:

1. Shifts and bitwise operations (`ShiftsExactly`), from the lemmas of `LimbNumbersProofs`.
2. Models of import and export, and of the complex adaptor's products in place.

## What is not modelled, and why

- Elementary functions, constants, the conversions of floating point numbers to and
  from strings, and Miller-Rabin: numerical statements about errors or
  probabilities.
- `cpp_dec_float`, the rational and complex adaptors, the logging and debugging
  adaptors: they repeat questions of other components or forward to them. The
  C libraries under GMP, MPFR, MPFI, MPC, libtommath and float128 are external; of
  their backends only the precision of `gmp_float<0>` is modelled. The vendored
  trees among the examples are third party code.
- Literals, limits and meta-functions: the compiler evaluates them.
- Of `cpp_int`: stateful allocators (their propagation on copy and swap), import and
  export, gcd, powm and bit access of several limbs, conversions between types of
  different precision, formatting. `eval_newton_raphson_sqrt` and
  `eval_integer_sqrt_old` in `default_ops.hpp` are never called.
- Of the expression templates: arithmetic with built-in types, the rvalue overloads,
  functions of several arguments, and numbers without expression templates.
- Of `cpp_bin_float`: decimal digits, conversions from wider floats,
  transcendental functions, streams, serialization.
- Threads are the caller's: `number` promises no more than its members do. The
  default precision of `gmp_float<0>` is a global that a scoped change writes without
  a lock, so that even reading numbers in two threads races on it; the model has one
  thread.
