------------------------------ MODULE MCPictures ------------------------------
(* Bounds for checking Pictures.                                           *)
EXTENDS Pictures, TLC

CONSTANTS k1, k2, k3, c1, c2, u1, u2

\* Two requests meet in one cell, for one user or for two; a third one, in the
\* other cell, may share the download of either.
MCRows == {<<k1, c1, u1>>, <<k2, c2, u1>>, <<k3, c1, u1>>, <<k3, c1, u2>>}

\* Every row in every cell: requests and cells are interchangeable.
AllRows == Requests \X Cells \X Users
Symmetry == Permutations(Requests) \cup Permutations(Cells)
=============================================================================
