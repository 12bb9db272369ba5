---------------------------- MODULE MCOneDriveAuth ----------------------------
EXTENDS OneDriveAuth

MCTokens == 1..3
\* Metadata, and a conflict copy with its conditional write.
MCRequests == {<<"get">>, <<"get", "put">>}
ProcSymmetry == Permutations(Procs)
=============================================================================
