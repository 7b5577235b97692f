---------------------------- MODULE OnceChannel ----------------------------
(***************************************************************************)
(* What a session expects of its encrypted channel: packets may be lost    *)
(* and reordered, never repeated, and session and input packets of a       *)
(* transport epoch never follow those of a later epoch.                    *)
(***************************************************************************)
EXTENDS Integers

CONSTANT MaxSends

VARIABLES packets,   \* everything sent, with a unique id
          handedUp   \* how often each id was handed to the session

Ids == 1 .. MaxSends
onceVars == <<packets, handedUp>>

Ordered(m) == m.scope \in {"session", "input"}

Init == packets = {} /\ handedUp = [i \in Ids |-> 0]

Send ==
    /\ \E i \in Ids :
         /\ \A m \in packets : m.id # i
         /\ \E m \in packets' : m.id = i /\ packets' = packets \cup {m}
    /\ UNCHANGED handedUp

HandUp(m) ==
    /\ handedUp[m.id] = 0
    /\ Ordered(m) => \A d \in packets :
                        Ordered(d) /\ handedUp[d.id] > 0 => d.epoch <= m.epoch
    /\ handedUp' = [handedUp EXCEPT ![m.id] = 1]
    /\ UNCHANGED packets

Next == Send \/ \E m \in packets : HandUp(m)

Spec == Init /\ [][Next]_onceVars
=============================================================================
