------------------------ MODULE MCCppIntAddSubtract -------------------------
(* Small instances of CppIntAddSubtract. *)
EXTENDS CppIntAddSubtract, TLC

Symmetric == Permutations(Obj)

\* eval_increment of a signed type goes wrong, see MCCppIntIncrement.cfg.
AllTypes ==
  {t \in [signed : BOOLEAN, checked : BOOLEAN,
          calls : {CallNames, CallNames \ {"increment"}}] :
     t.signed <=> "increment" \notin t.calls}

Counting ==
  {[signed |-> TRUE, checked |-> FALSE,
    calls |-> {"assign", "add_limb", "increment", "decrement"}]}
=============================================================================
