--------------------------- MODULE BoundedIntegers --------------------------
(***************************************************************************)
(* What addition and subtraction promise: the integers, cut off at the     *)
(* precision of the type.  A checked type throws instead of cutting        *)
(* anything off.                                                           *)
(***************************************************************************)
EXTENDS IntegerTypes

CONSTANTS
  Obj,
  MaxSmall,     \* the largest operand that is passed as a single limb
  Unspecified   \* the target of a call that threw

VARIABLES
  type,   \* signed, checked, modulus
  val,
  to,     \* the target of the last call
  exact   \* what that call has to compute

\* What a number holds once it has received the exact result n
Received(n) ==
  IF InRange(type, n) THEN n
  ELSE IF type.checked THEN Unspecified ELSE Wrapped(type, n)

Known == {y \in Obj : val[y] # Unspecified}
Small == -MaxSmall .. MaxSmall
Sums  == Small \cup {val[y] + o : y \in Known, o \in Small}
               \cup {val[y] + val[w] : y, w \in Known}
               \cup {val[y] - val[w] : y, w \in Known}

Init == val = [y \in Obj |-> 0] /\ exact = 0

\* Of the arguments, the values that they have when the call begins count.
Call == to' \in Obj /\ exact' \in Sums

\* The result arrives, at once or some time after the call has begun.
Deliver == val' = [val EXCEPT ![to'] = Received(exact')]

Next ==
  /\ UNCHANGED type
  /\ Call \/ UNCHANGED <<to, exact>>
  /\ Deliver \/ UNCHANGED val

Spec == Init /\ [][Next]_<<type, val, to, exact>>
=============================================================================
