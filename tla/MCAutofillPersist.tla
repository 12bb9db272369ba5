-------------------------- MODULE MCAutofillPersist --------------------------
EXTENDS AutofillPersist

\* Entry e holds credential "a"; the ledger holds a receipt of an earlier
\* operation.
MCVault ==
    [entries |-> "e" :> [cred |-> "a", note |-> "", prot |-> FALSE, home |-> "g", at |-> 0, hist |-> <<>>],
     groups |-> {"root", "g", "bin"}, deleted |-> {}, gen |-> "VaultKern",
     receipts |-> "old" :> [txn |-> "t0", plan |-> "old", mode |-> "update", entry |-> "e", at |-> 0]]

Update(op, to) == [op |-> op, txn |-> "t1", plan |-> [mode |-> "update", entry |-> "e", expected |-> "a", desired |-> to]]
Create(op) ==
    [op |-> op, txn |-> "t2",
     plan |-> [mode |-> "create", entry |-> "n", parent |-> "g", matching |-> {}, desired |-> [cred |-> "b", note |-> ""]]]

\* One operation with two plans, another one, and a plan without credential.
MCRequests == {Update("o1", "\\u0001"), Update("o1", "c"), Create("o2"), Update("o3", "")}
MCForbidden == {"\\u0001"}
MCTwin == [id |-> "m", entry |-> [cred |-> "b", note |-> "", prot |-> FALSE, home |-> "g", at |-> 1, hist |-> <<>>]]

MCSymmetry == Permutations(Runtimes)
=============================================================================
