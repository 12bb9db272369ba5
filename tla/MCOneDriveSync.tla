--------------------------- MODULE MCOneDriveSync ---------------------------
(* Bounded instances of OneDriveSync for TLC. *)
EXTENDS OneDriveSync, TLC

\* One runtime on one device.
Alone == [on : [Proc -> Device], edits : {Edit}, serials : {MaxSerial}]

\* Runtimes on devices of their own, or on one device, whose cache they share
\* and where one edit is made.
Together ==
    {[on |-> f, edits |-> Edit, serials |-> 4] :
        f \in {g \in [Proc -> Device] : \A p, q \in Proc : p # q => g[p] # g[q]}}
      \cup {[on |-> [p \in Proc |-> d], edits |-> {e}, serials |-> 6] : d \in Device, e \in Edit}

\* Edits, runtimes and devices are interchangeable: both sets of deployments
\* are closed under these permutations.
Symmetry == Permutations(Edit) \cup Permutations(Proc) \cup Permutations(Device)
=============================================================================
