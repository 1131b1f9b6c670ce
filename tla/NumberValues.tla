---------------------------- MODULE NumberValues ----------------------------
(***************************************************************************)
(* What the storage of a cpp_int promises its users: objects are           *)
(* independent values.  A step sets one number, or copies one, or moves    *)
(* one from an object that keeps it or is left unspecified, or exchanges   *)
(* two; every other object is as it was.  Results are left open here, and  *)
(* with them that it is a copy which sets a number to its source:          *)
(* CallsDeliver in CppIntStorage says what each call does.                 *)
(***************************************************************************)
EXTENDS Integers

CONSTANTS
  Obj, Value, Zero,
  NoNumber,      \* there is no such object
  Unspecified    \* an object whose value nobody may rely on

\* The numbers; zero is never negative.
Results == {n \in Value \X BOOLEAN : n[1] = Zero => ~n[2]}

VARIABLE val

Exists(x) == val[x] # NoNumber

Init == val = [x \in Obj |-> NoNumber]

\* (What is said of val'[x] first, here and below, is implied by what follows, and
\* tells TLC at once that x is another object.)
Set(x, n) == val'[x] = n /\ val' = [val EXCEPT ![x] = n]

\* A number comes to be, or is the result of an operation.
Assigned(x) == val'[x] \in Results /\ Set(x, val'[x])

Copy(x, y) == Exists(y) /\ Set(x, val[y])

Move(x, y) ==
  /\ Exists(x) => x # y
  /\ Exists(y)
  /\ val'[x] = val[y]
  /\ \E n \in {val[y], Unspecified} : val' = [val EXCEPT ![x] = val[y], ![y] = n]

Swap(x, y) ==
  /\ Exists(x) /\ Exists(y)
  /\ val'[x] = val[y]
  /\ val' = [val EXCEPT ![x] = val[y], ![y] = val[x]]

\* x = std::move(x), and a call on x that ends in an exception
Lose(x) == Exists(x) /\ Set(x, Unspecified)

Destroy(x) == Exists(x) /\ Set(x, NoNumber)

Next ==
  \/ \E x \in Obj : Assigned(x) \/ Lose(x) \/ Destroy(x)
  \/ \E x, y \in Obj : Copy(x, y) \/ Move(x, y) \/ Swap(x, y)

Spec == Init /\ [][Next]_val
=============================================================================
