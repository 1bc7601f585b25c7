--------------------------- MODULE ReversalRules ---------------------------
(***************************************************************************)
(* Which steps of a record are in effect, and which of them a user may ask *)
(* to have undone: effectiveSteps and ownOptions of                        *)
(* backend/src/modules/workflow/reversal.service.js, the same for a lot, a *)
(* deviation and a defect notification.                                    *)
(*                                                                         *)
(* A history h is the sequence of the record's own rows of imir_action and *)
(* of its REVERSED rows; a row's id is its place.                          *)
(***************************************************************************)
EXTENDS Naturals, Sequences

Timer == "-"   \* the actor of a step of the worker

\* Broken variant: the step reversed to stays in effect.
EffectiveWithUndone(h) ==
  LET kept[n \in 0..Len(h)] ==
        CASE n = 0                        -> {}
          [] n > 0 /\ h[n].action = "REVERSED" -> {s \in kept[n - 1] : s <= h[n].undone}
          [] OTHER                        -> kept[n - 1] \cup {n}
  IN kept[Len(h)]

\* A reversal to before step s removes s and everything after it.
EffectiveSteps(h) ==
  LET kept[n \in 0..Len(h)] ==
        CASE n = 0                        -> {}
          [] n > 0 /\ h[n].action = "REVERSED" -> {s \in kept[n - 1] : s < h[n].undone}
          [] OTHER                        -> kept[n - 1] \cup {n}
  IN kept[Len(h)]

Before(h, step) == {s \in EffectiveSteps(h) : s < step}

\* Broken variant: steps others have acted after.
AllStepsOf(h, u) == {s \in EffectiveSteps(h) : h[s].actor = u}

\* The user's own decisions that nobody else has acted after; timers do not count.
OwnSteps(h, u) ==
  LET steps == EffectiveSteps(h) IN
    {s \in steps : h[s].actor = u /\ \A t \in steps : t > s => h[t].actor \in {Timer, u}}
=============================================================================
