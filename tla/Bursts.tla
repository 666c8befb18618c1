------------------------------- MODULE Bursts -------------------------------
(***************************************************************************)
(* The decorative bursts of like, recommend and follow buttons and the     *)
(* registry that limits them: one of each button at a time, then a pause,  *)
(* and GLOBAL_CAP of all.  The toggle itself is module Toggle.             *)
(***************************************************************************)
EXTENDS Integers, FiniteSets

CONSTANTS
  Buttons,      \* buttons of a page
  LikeButtons,  \* those whose burst reports the end of every particle, not only of the first
  CardButtons,  \* follow buttons of cards, which do not set data-target-key
  GlobalCap,    \* GLOBAL_CAP
  MaxBursts     \* bound: bursts

ASSUME BurstsAssumption ==
  /\ LikeButtons \cup CardButtons \subseteq Buttons /\ LikeButtons \cap CardButtons = {}
  /\ GlobalCap \in Nat /\ MaxBursts \in Nat

VARIABLES
  effects,   \* areEffectsEnabled: what was found the first time it was asked
  fired,   \* bursts so far; their ids are 1..fired
  active,    \* activeIds
  holder,    \* buttonActiveId, NoBurst for none
  cooling,   \* buttons in their pause of 800 ms
  mounted,   \* buttons on the page
  lit,       \* buttons that are on
  burst,     \* burstId of a button
  settled,   \* the listener of this burst has met the end of an animation
  particles, \* the burst's elements: "none", "fresh" before the first end, "some" or "all"
             \* ended, "removed"
  closing    \* buttons whose burst's container is removed soon

registry  == <<fired, active, holder>>
burstVars == <<effects, registry, cooling, mounted, lit, burst, settled, particles, closing>>

NoBurst == 0
Ids == 1..MaxBursts
Playing(b) == particles[b] \in {"fresh", "some"}

-----------------------------------------------------------------------------
(* A mutant: a burst of the button that still holds a slot is not asked for. *)
CanFireAgain(b) == b \notin cooling /\ Cardinality(active) < GlobalCap

(* One burst of a button at a time, then its pause, and the cap for all. *)
CanFire(b) == holder[b] = NoBurst /\ b \notin cooling /\ Cardinality(active) < GlobalCap

(* acquire and setBurstId.  The elements of a button's first burst are put   *)
(* on the page; a later one finds them there, or removed: they do not play   *)
(* again.                                                                    *)
Fire(b) ==
  /\ fired < MaxBursts /\ fired' = fired + 1
  /\ active' = active \cup {fired'}
  /\ holder' = [holder EXCEPT ![b] = fired']
  /\ cooling' = cooling \cup {b}
  /\ burst' = [burst EXCEPT ![b] = fired']
  /\ settled' = settled \ {b}
  /\ particles' = IF burst[b] = NoBurst THEN [particles EXCEPT ![b] = "fresh"] ELSE particles

(* release: only the burst that holds the button's slot gives it back. *)
Released(key, id) ==
  IF key # "" /\ holder[key] = id
  THEN active' = active \ {id} /\ holder' = [holder EXCEPT ![key] = NoBurst]
  ELSE UNCHANGED <<active, holder>>

(* The key is read from the button's data: that of cards has none. *)
KeyOf(b) == IF b \in CardButtons THEN "" ELSE b

(* A click, or the answer to one, turns a button on or off; on asks for a    *)
(* burst, once what the browser allows is known.                             *)
Turn(b) ==
  /\ b \in mounted
  /\ lit' = IF b \in lit THEN lit \ {b} ELSE lit \cup {b}
  /\ effects' \in IF effects = "unknown" /\ b \notin lit THEN {"on", "off"} ELSE {effects}
  /\ IF b \notin lit /\ effects' = "on" /\ CanFire(b)
     THEN Fire(b)
     ELSE UNCHANGED <<registry, cooling, burst, settled, particles>>
  /\ UNCHANGED <<mounted, closing>>

(* animationend: the first one frees the slot and has the elements removed;  *)
(* those of a like all do.                                                   *)
ParticleEnds(b, last) ==
  /\ Playing(b)
  /\ particles' = [particles EXCEPT ![b] = IF last THEN "all" ELSE "some"]
  /\ IF b \in settled /\ b \notin LikeButtons
     THEN UNCHANGED <<active, holder, settled, closing>>
     ELSE /\ Released(KeyOf(b), burst[b])
          /\ settled' = settled \cup {b} /\ closing' = closing \cup {b}
  /\ UNCHANGED <<effects, fired, cooling, mounted, lit, burst>>

(* The timer of 700 to 1100 ms, longer than any particle still flies. *)
ContainerRemoved(b) ==
  /\ b \in closing /\ ~Playing(b)
  /\ closing' = closing \ {b}
  /\ particles' = IF particles[b] = "all" THEN [particles EXCEPT ![b] = "removed"] ELSE particles
  /\ UNCHANGED <<effects, registry, cooling, mounted, lit, burst, settled>>

(* 800 ms, after the first particles of every burst and all of most. *)
Cooled(b) ==
  /\ b \in cooling /\ cooling' = cooling \ {b}
  /\ Playing(b) => b \in LikeButtons /\ particles[b] = "some"
  /\ UNCHANGED <<effects, registry, mounted, lit, burst, settled, particles, closing>>

(* Another page, or a list without this post: the elements go, and nothing   *)
(* gives the slot back.                                                      *)
Unmounted(b) ==
  /\ b \in mounted /\ mounted' = mounted \ {b}
  /\ burst' = [burst EXCEPT ![b] = NoBurst]
  /\ particles' = [particles EXCEPT ![b] = "none"]
  /\ settled' = settled \ {b} /\ closing' = closing \ {b}
  /\ UNCHANGED <<effects, registry, cooling, lit>>

Mounted(b) ==
  /\ b \notin mounted /\ mounted' = mounted \cup {b}
  /\ UNCHANGED <<effects, registry, cooling, lit, burst, settled, particles, closing>>

-----------------------------------------------------------------------------
BurstsInit ==
  /\ effects = "unknown" /\ fired = 0 /\ active = {}
  /\ holder = [b \in Buttons |-> NoBurst] /\ burst = holder
  /\ cooling = {} /\ mounted = Buttons /\ lit = {} /\ settled = {} /\ closing = {}
  /\ particles = [b \in Buttons |-> "none"]

BurstsNext ==
  \E b \in Buttons : \/ Turn(b) \/ ContainerRemoved(b) \/ Cooled(b) \/ Unmounted(b) \/ Mounted(b)
                     \/ \E last \in BOOLEAN : ParticleEnds(b, last)

BurstsSpec == BurstsInit /\ [][BurstsNext]_burstVars

-----------------------------------------------------------------------------
(* Registry, buttons and elements have their types. *)
BurstsTypeOK ==
  /\ effects \in {"unknown", "on", "off"} /\ fired \in 0..MaxBursts /\ active \subseteq Ids
  /\ holder \in [Buttons -> Ids \cup {NoBurst}] /\ burst \in [Buttons -> Ids \cup {NoBurst}]
  /\ {cooling, mounted, lit, settled, closing} \subseteq SUBSET Buttons
  /\ particles \in [Buttons -> {"none", "fresh", "some", "all", "removed"}]

(* The registry's two tables agree, never hold more than the cap, and a      *)
(* burst of which no particle has ended holds its button's slot, however     *)
(* buttons are turned, unmounted and mounted again while others fly          *)
(* (burst-registry.ts).                                                      *)
SlotsAgree ==
  /\ active = {holder[b] : b \in Buttons} \ {NoBurst}
  /\ \A b, c \in Buttons : holder[b] = holder[c] /\ b # c => holder[b] = NoBurst
  /\ Cardinality(active) <= GlobalCap
  /\ \A b \in Buttons : particles[b] = "fresh" => burst[b] = holder[b] /\ burst[b] \in active

(* A slot is held by a burst that plays.  The code does not hold it: the     *)
(* cards' buttons name no key to free, a second burst has no animation that  *)
(* could end, and one that is unmounted never ends.  After GlobalCap of      *)
(* these no button has a burst until the page is loaded anew.                *)
SlotsComeBack == \A b \in Buttons : holder[b] # NoBurst => Playing(b)

(* "at most 3 bursts on screen at once" (burst-registry.ts:9).  The code     *)
(* does not hold it: the first particle that ends frees the slot.            *)
CapOnScreen == Cardinality({b \in Buttons : Playing(b)}) <= GlobalCap

=============================================================================
