---------------------------- MODULE MCStateStore ----------------------------
(* TLC instance of StateStore: two callers whose sections interleave, and    *)
(* enough states to tell the current one, the one before it and a new one;   *)
(* and the documents of Migration that an older state file may be.           *)
EXTENDS StateStore, Migration, TLC

Symmetry == Permutations(Callers) \cup Permutations(Values)

\* Where a load finds an older file and replaces it, what it writes is the whole of
\* it: no identity, reference or selection of the user is lost or made up on the way
\* through up to five migrations, the result loads as it is, and the nodes of version
\* 1 or 2 have the secrets they had, and TLS where they had it: another node would
\* connect without what the user configured (migrate_to_current, v3_options, decode).
MigrationIsWhole == file["state"].schema = "older" => WholeDocuments /\ MeaningfulNodes
=============================================================================
