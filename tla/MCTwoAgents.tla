--------------------------- MODULE MCTwoAgents ------------------------------
(***************************************************************************)
(* Two agents, of which a behaviour is one.  With the first, two share ids  *)
(* compete for one slot; with the second, sessions come by key while the     *)
(* lease of managed keys changes, on a host where nobody is logged on.        *)
(* The same two names are share ids there and keys here.  Names and session     *)
(* numbers are interchangeable: the initial state has none of them.             *)
(***************************************************************************)
EXTENDS AgentSessions, TLC

VARIABLE agent

Shared == INSTANCE AgentSessions WITH
    ShareIds <- Keys, Keys <- {}, MaxSessions <- 3, MaxLocalKeys <- 0, RateMax <- 3,
    AuthTimeout <- 9, LeaseTtls <- {}, PreLogon <- FALSE, MaxTime <- 3

MCInit ==
    \/ agent = "shared" /\ Shared!Init
    \/ agent = "managed" /\ Init

MCNext ==
    /\ \/ agent = "shared" /\ Shared!Next
       \/ agent = "managed" /\ Next
    /\ UNCHANGED agent

MCSpec == MCInit /\ [][MCNext]_<<vars, agent>>

Symmetry == Permutations(Sids) \cup Permutations(Keys)
=============================================================================
