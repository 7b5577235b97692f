------------------------------ MODULE HeldKeys ------------------------------
(***************************************************************************)
(* The keys a desktop viewer holds down on a Linux host                    *)
(* (src/agent/desktop/input.c).                                            *)
(*                                                                         *)
(* A key event of the browser names the code of the key and what it means: *)
(* its position, which the host's own layout decides about, or a symbol.   *)
(* Xorg takes keycodes only, so a symbol is looked up among the scratch    *)
(* keycodes bound before, then in the layout group the host has active,    *)
(* and bound to the least recently used scratch keycode when both miss;    *)
(* the portal of a Wayland host takes symbols as they are.  "heldKeys"     *)
(* remembers what each code went in as, because its release may arrive     *)
(* with another meaning, or not at all.  It forgets two kinds of keys that *)
(* are down: those of a press without a code, and those of a code that is  *)
(* pressed again, as a key that repeats is, with another meaning.          *)
(***************************************************************************)
EXTENDS Naturals, Sequences, FiniteSets

CONSTANTS Codes,    \* the codes of the keys of the viewer's keyboard
          Syms,     \* the symbols they can mean
          Slots,    \* the scratch keycodes of the host
          None,     \* no symbol, no keycode, the code of a key without one
          Layouts,  \* the layout groups of the host: sets of symbols
          MaxHeld   \* DIRECTGATE_DESKTOP_MAX_HELD_KEYS

\* The scratch keycodes are spare ones, and keys of different kinds differ.
ASSUME KeysAssumption ==
    /\ IsFiniteSet(Slots) /\ MaxHeld \in Nat /\ MaxHeld > 0
    /\ Codes \cap Syms = {} /\ Codes \cap Slots = {} /\ Syms \cap Slots = {}
    /\ None \notin Codes \cup Syms \cup Slots /\ "position" \notin Syms

VARIABLES portal,  \* pWayland is set: the portal takes the keys
          group,    \* the symbols of the layout group the host has active
          means,    \* what each code means on the viewer's keyboard
          order,    \* the scratch keycodes, the coldest first (nUsedSeq)
          bound,    \* the symbol each of them is bound to (nKeysym)
          pinned,   \* those with an injected press outstanding (bHeld)
          held,     \* heldKeys: the codes and what they went in as
          down,     \* the keys the host holds for this session
          strays,   \* history: those of them that "heldKeys" does not know
          ended     \* the desktop session is over

keyVars == <<portal, group, means, order, bound, pinned, held, down, strays, ended>>

Position == "position"
Ways == {Position} \cup Syms
Keys == Codes \cup Syms \cup Slots

Orders == {o \in [1..Cardinality(Slots) -> Slots] :
              \A i, j \in DOMAIN o : o[i] = o[j] => i = j}

KeysInit ==
    /\ portal \in BOOLEAN
    /\ group \in Layouts
    /\ means \in [Codes -> Ways]
    /\ order = CHOOSE o \in Orders : TRUE
    /\ bound = [x \in Slots |-> None]
    /\ pinned = {} /\ held = <<>> /\ down = {} /\ strays = {} /\ ended = FALSE

-----------------------------------------------------------------------------
\* A slot may be rebound unless a key injected through it is down.
Unpinned(x) == x \notin pinned

\* BindScratch's victim: a never used slot is colder than any used one.
Victim == LET free == {i \in DOMAIN order : Unpinned(order[i])}
          IN  IF free = {} THEN None ELSE order[CHOOSE i \in free : \A j \in free : i <= j]

\* FindScratch: the slot bound to s, if there is one.
Found(s) == {x \in Slots : bound[x] = s}

\* ResolveKeysym on Xorg: the scratch pool, the active group, and, for a
\* press only, a slot bound anew.
Resolve(s, press) ==
    CASE portal                         -> s
      [] ~portal /\ Found(s) # {}       -> CHOOSE x \in Found(s) : TRUE
      [] ~portal /\ Found(s) = {} /\ s \in group -> s
      [] OTHER -> IF press THEN Victim ELSE None

\* The key an event with code c and meaning w comes down to.
KeyOf(c, w, press) == IF w = Position THEN c ELSE Resolve(w, press)

Without(q, i) == SubSeq(q, 1, i - 1) \o SubSeq(q, i + 1, Len(q))

\* Using a slot makes it the warmest one and leaves it bound to s.
Uses(k, s) ==
    IF k \in Slots
    THEN /\ \E i \in DOMAIN order : order[i] = k /\ order' = Append(Without(order, i), k)
         /\ bound' = [bound EXCEPT ![k] = s]
    ELSE UNCHANGED <<order, bound>>

Entry(c) == {i \in DOMAIN held : held[i].code = c}

\* The keys of a table.
Named(table) == {table[i].key : i \in DOMAIN table}

\* What the press of k by code c leaves down and unnamed: k itself if the
\* code is empty, and the key the code had gone in as before.
Astray(c, k) == (strays \cup {held[i].key : i \in Entry(c)}
                        \cup IF c = None THEN {k} ELSE {}) \ Named(held')

\* ReleaseHeld and the release of a key: its slot, if it has one, is free.
LetGo(ks) == /\ down' = down \ ks
             /\ pinned' = pinned \ ks
             /\ strays' = strays \ ks

-----------------------------------------------------------------------------
\* The table after code c went in as k, and what it was before if it is
\* full: a code that is down already is given its new key.
Entered(c, k, kept) ==
    CASE c = None     -> held
      [] Entry(c) # {} -> [i \in DOMAIN held |->
                             IF i \in Entry(c) THEN [code |-> c, key |-> k] ELSE held[i]]
      [] OTHER        -> Append(kept, [code |-> c, key |-> k])

\* A new code finds no room.
Crowded(c) == c # None /\ Entry(c) = {} /\ Len(held) = MaxHeld

\* Mutant: the oldest entry makes room, its key stays down.
RememberKeyDrops(c, k) ==
    /\ held' = Entered(c, k, IF Crowded(c) THEN Tail(held) ELSE held)
    /\ down' = down \cup {k}
    /\ pinned' = pinned \cup ({k} \cap Slots)
    /\ strays' = Astray(c, k)

\* RememberKey after the press of k: a full table lets its oldest key go to
\* make room, and an empty code is not remembered.
RememberKey(c, k) ==
    LET oldest == IF Crowded(c) THEN {Head(held).key} ELSE {}
    IN  /\ held' = Entered(c, k, IF Crowded(c) THEN Tail(held) ELSE held)
        /\ down' = (down \cup {k}) \ oldest
        /\ pinned' = (pinned \cup ({k} \cap Slots)) \ oldest
        /\ strays' = Astray(c, k) \ oldest

\* X11HandleKey and the "key" action of WaylandHandleInput, a press.
KeyDown(c, w) ==
    /\ ~ended
    /\ LET k == KeyOf(c, w, TRUE)
       IN  /\ k # None
           /\ Uses(k, w)
           /\ RememberKey(c, k)
    /\ UNCHANGED <<portal, group, means, ended>>

\* The release of a code that is remembered: ForgetKey names its key.
KeyUpTracked(c) ==
    /\ ~ended
    /\ \E i \in Entry(c) : /\ held' = Without(held, i)
                           /\ LetGo({held[i].key})
    /\ UNCHANGED <<portal, group, means, order, bound, ended>>

\* The release of any other code goes by what the event says.
KeyUpUntracked(c, w) ==
    /\ ~ended
    /\ Entry(c) = {}
    /\ LET k == KeyOf(c, w, FALSE)
       IN  /\ k # None
           /\ Uses(k, w)
           /\ LetGo({k})
    /\ UNCHANGED <<portal, group, means, held, ended>>

\* TypeText: one symbol pressed and let go in the same handler.
TypeText(s) ==
    /\ ~ended
    /\ LET k == Resolve(s, TRUE)
       IN  /\ k # None
           /\ Uses(k, s)
           /\ LetGo({k})
    /\ UNCHANGED <<portal, group, means, held, ended>>

\* ReleaseHeldKeys: every remembered key, and no slot stays pinned.
ReleaseHeldKeys ==
    /\ down' = down \ Named(held)
    /\ strays' = strays \ Named(held)
    /\ held' = <<>>
    /\ pinned' = {}

\* ExpireHeldKeys: thirty seconds passed without any event.
ExpireHeldKeys ==
    /\ ~ended /\ held # <<>>
    /\ ReleaseHeldKeys
    /\ UNCHANGED <<portal, group, means, order, bound, ended>>

\* The end of the session gives the scratch keycodes back to the host.
SessionEnds ==
    /\ ~ended
    /\ ended' = TRUE
    /\ ReleaseHeldKeys
    /\ bound' = [x \in Slots |-> None]
    /\ UNCHANGED <<portal, group, means, order>>

\* Shift goes down or the layout changes on the viewer's keyboard, or the
\* host's user switches the layout group.
LayoutChanges ==
    /\ ~ended
    /\ \/ group' \in Layouts \ {group} /\ UNCHANGED means
       \/ \E c \in Codes, w \in Ways : means' = [means EXCEPT ![c] = w]
                                       /\ UNCHANGED group
    /\ UNCHANGED <<portal, order, bound, pinned, held, down, strays, ended>>

KeyEvent(c) == KeyDown(c, means[c]) \/ KeyUpTracked(c) \/ KeyUpUntracked(c, means[c])

\* An event without a code has no position: it goes by its symbol.
Uncoded(s) == KeyDown(None, s) \/ KeyUpUntracked(None, s)

KeysNext ==
    \/ \E c \in Codes : KeyEvent(c)
    \/ \E s \in Syms : Uncoded(s)
    \/ \E s \in Syms : TypeText(s)
    \/ ExpireHeldKeys
    \/ SessionEnds
    \/ LayoutChanges

KeysSpec == KeysInit /\ [][KeysNext]_keyVars

-----------------------------------------------------------------------------
\* The types of the variables; no code and no slot appears twice.
KeysTypeOK ==
    /\ portal \in BOOLEAN /\ ended \in BOOLEAN
    /\ group \in Layouts
    /\ means \in [Codes -> Ways]
    /\ order \in Orders
    /\ bound \in [Slots -> Syms \cup {None}]
    /\ pinned \subseteq Slots
    /\ down \subseteq Keys /\ strays \subseteq Keys
    /\ held \in Seq([code : Codes, key : Keys]) /\ Len(held) <= MaxHeld
    /\ \A i, j \in DOMAIN held : held[i].code = held[j].code => i = j

\* What the host holds down is what the table would let go, but for the
\* keys RememberKey lost by an empty code or a changed meaning: the idle
\* watchdog and the end of the session leave nothing else behind, and a
\* keycode that is down is not bound to another symbol (input.c 530-534,
\* 671-675 and 692-694).
EndsClean ==
    /\ down \subseteq Named(held) \cup strays
    /\ (down \cap Slots) \ strays \subseteq pinned

=============================================================================
