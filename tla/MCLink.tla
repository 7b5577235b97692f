-------------------------------- MODULE MCLink --------------------------------
(***************************************************************************)
(* The connection to the relay as three questions: how an agent that has     *)
(* lost it comes back, when a link that is up is taken for dead, and which of  *)
(* the packets it carries the receiver takes.  A behaviour is about one of    *)
(* them.                                                                      *)
(***************************************************************************)
EXTENDS RelayLink, KeepAlive, SecureChannel

VARIABLE part

MCInit == part \in {"link", "alive", "channel"} /\ RelayInit /\ KAInit /\ Init
          /\ (part # "link" => disk.relay = CHOOSE r \in Relays : TRUE)

MCNext ==
    /\ UNCHANGED part
    /\ \/ part = "link" /\ RelayNext /\ UNCHANGED <<kaVars, vars>>
       \/ part = "alive" /\ KANext /\ UNCHANGED <<relayVars, vars>>
       \/ part = "channel" /\ Next /\ UNCHANGED <<relayVars, kaVars>>

partVars == <<part, relayVars, kaVars, vars>>

(* The fairness of RelayFairSpec and of KAFairSpec. While the one is at rest, *)
(* its link is up and its timers do not run.                                  *)
LinkStep(A) == part = "link" /\ A /\ UNCHANGED <<part, kaVars, vars>>
AliveStep(A) == part = "alive" /\ A /\ UNCHANGED <<part, relayVars, vars>>

MCSpec ==
    /\ MCInit /\ [][MCNext]_partVars
    /\ WF_partVars(LinkStep(ReconnectDue)) /\ WF_partVars(LinkStep(ProbeDue))
    /\ WF_partVars(LinkStep(Restart))
    /\ WF_partVars(LinkStep(RefreshWorker)) /\ WF_partVars(LinkStep(CollectTokenRefresh))
    /\ WF_partVars(LinkStep(HandshakeRequest)) /\ WF_partVars(LinkStep(HandshakeResponse))
    /\ SF_partVars(LinkStep(Connect)) /\ SF_partVars(LinkStep(ConnectRefused /\ suppressed'))
    /\ WF_partVars(AliveStep(KATurn))

-----------------------------------------------------------------------------

(* A dead link is noticed, however long the loop was blocked meanwhile        *)
(* (CheckLoopStall), and an agent without its relay is back at it for good     *)
(* once nothing more goes wrong, or knows that it was revoked                  *)
(* (ScheduleReconnect, CheckTokenRefresh, CollectTokenRefresh).                *)
LinkIsRestored == (part = "link" => ComesBack) /\ (part = "alive" => DeadIsCut)
===============================================================================
