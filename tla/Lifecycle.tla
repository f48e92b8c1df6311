----------------------------- MODULE Lifecycle -----------------------------
(***************************************************************************)
(* What a loadable module promises about the resources it takes: it takes  *)
(* a resource only on top of the ones that resource rests on, gives one    *)
(* back only when nothing rests on it any more, and is gone from the       *)
(* kernel only when it holds nothing but the references it never returns.  *)
(***************************************************************************)
CONSTANTS
    Resources,  \* everything the module may hold
    Needs,      \* Needs[r]: the resources r rests on
    Kept        \* lookup references that no path of the module returns

VARIABLES
    phase,      \* "out", "init", "live" or "exit"
    held        \* the resources the module holds

LifeVars == <<phase, held>>

LifeInit == phase = "out" /\ held = {}

LifeLoad == phase = "out" /\ phase' = "init" /\ held' \subseteq Kept

\* One or more lookups of init succeed.
LifeAcquire ==
    /\ phase = "init" /\ phase' = "init"
    /\ held \subseteq held' /\ held' \subseteq Resources
    /\ \A r \in held' \ held : Needs[r] \subseteq held'

LifeLive == phase = "init" /\ phase' = "live" /\ UNCHANGED held

\* Init gave up, or the module is being removed; a last batch of lookups may
\* have succeeded in part.
LifeEnd ==
    /\ phase \in {"init", "live"} /\ phase' = "exit"
    /\ held \subseteq held' /\ held' \subseteq Resources
    /\ phase = "live" => held' = held
    /\ \A r \in held' \ held : Needs[r] \subseteq held'

LifeRelease ==
    /\ phase \in {"init", "exit"} /\ phase' = phase
    /\ \E r \in held :
         /\ \A other \in held \ {r} : r \notin Needs[other]
         /\ held' = held \ {r}

LifeOut ==
    /\ phase \in {"init", "exit"} /\ phase' = "out"
    /\ held \subseteq Kept /\ UNCHANGED held

LifeNext ==
    \/ LifeLoad \/ LifeAcquire \/ LifeLive \/ LifeEnd \/ LifeRelease \/ LifeOut

LifeSpec == LifeInit /\ [][LifeNext]_LifeVars
=============================================================================
