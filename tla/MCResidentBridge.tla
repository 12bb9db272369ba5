------------------------- MODULE MCResidentBridge -------------------------
(* Instances of ResidentBridge for TLC. *)
EXTENDS ResidentBridge, TLC

\* Two mutations of front ends that the user repeats, or plugin operations and
\* one mutation of the entry they register on.
FrontsOrPlugin ==
    {[op |-> Op, shared |-> {}, plat |-> {}, calls |-> 2]}
      \cup {[op |-> {o}, shared |-> {o}, plat |-> Plat, calls |-> 1] : o \in Op}

\* A mutation of another entry during a plugin operation.
EditDuringPlugin ==
    {[op |-> {o}, shared |-> {}, plat |-> {p}, calls |-> 1] : o \in Op, p \in Plat}

\* Mutations are interchangeable, and so are plugin operations.
Symmetry == Permutations(Op) \cup Permutations(Plat)
============================================================================
