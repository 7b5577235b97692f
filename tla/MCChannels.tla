------------------------------ MODULE MCChannels ------------------------------
(***************************************************************************)
(* Two browsers, of which a behaviour is one.  The first sends messages and  *)
(* opens its channel again when it is lost, and fills the queue; the second   *)
(* opens one channel of every label and sends candidates before, with or      *)
(* after their offer.                                                         *)
(***************************************************************************)
EXTENDS WebRTCPeer

CONSTANT Names   \* the candidates of the second browser

VARIABLE browser

Second == INSTANCE WebRTCPeer WITH
    Labels <- {"data", "input", "other"}, MaxMessages <- 0, Candidates <- Names

MCInit == Init /\ browser \in {"sending", "signaling"}

MCNext ==
    /\ \/ browser = "sending" /\ Next
       \/ browser = "signaling" /\ Second!Next /\ \A h \in Handles : handle'[h] # "none" => h.no = 1
    /\ UNCHANGED browser

MCSpec == MCInit /\ [][MCNext]_<<vars, browser>> /\ WF_<<vars, browser>>(Turn /\ UNCHANGED browser)
===============================================================================
