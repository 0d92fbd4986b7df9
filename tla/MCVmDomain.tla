----------------------------- MODULE MCVmDomain -----------------------------
(***************************************************************************)
(* A small instance of VmPlan: every kind of name a VM that carries the    *)
(* labels of the request web-eu may have.                                  *)
(***************************************************************************)
EXTENDS VmPlan

CONSTANT MaxIndex

AnyNames ==
    {VMName(Request, i) : i \in -1 .. MaxIndex}
        \cup {[base |-> Request, form |-> "padded", index |-> 1]}
        \cup {[base |-> Request, form |-> "other", index |-> i] : i \in 0 .. 1}
=============================================================================
