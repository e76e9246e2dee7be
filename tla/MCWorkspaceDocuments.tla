----------------------- MODULE MCWorkspaceDocuments -----------------------
(* Small instances of WorkspaceDocuments. *)
EXTENDS WorkspaceDocuments, TLC

CONSTANTS u1, u2, n1, n2, n3

MCCallers == {u1, u2}
MCPaths   == {n1, n2, n3}

\* Callers are interchangeable, and so are the paths but for the first notebook.
MCSymmetry == Permutations(MCCallers) \cup Permutations(MCPaths \ {n1})
=============================================================================
