-------------------------- MODULE MCRolloutThread --------------------------
(* Small instances of RolloutThread for TLC.                                 *)
EXTENDS RolloutThread, TLC

CONSTANTS m, d, c, text, call, k1, k2

\* A message, the same text with an id, and a tool call.
MCContentOf == (m :> text) @@ (d :> text) @@ (c :> call)

MCKeyOf == (m :> NoKey) @@ (d :> k1) @@ (c :> k2)

MCKeyIn == (text :> NoKey) @@ (call :> k2)

MCRequests == {<<m, d, m>>}

MCResponses == {<<c>>}

Symmetry == Permutations(Window)

=============================================================================
