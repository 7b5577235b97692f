--------------------------- MODULE MCAgentSessions ---------------------------
(* Session numbers are interchangeable, and so are share ids and client   *)
(* keys, of which the initial state has none.                              *)
EXTENDS AgentSessions, TLC

Symmetry == Permutations(Sids) \cup Permutations(Keys)
            \cup Permutations(ShareIds)
=============================================================================
