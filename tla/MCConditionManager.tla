------------------------ MODULE MCConditionManager ------------------------
\* Small instances of ConditionManager: c1 and c2 share the source s1 with
\* different comparators, c3 is on s2.
EXTENDS ConditionManager

CONSTANTS c1, c2, c3, s1, s2

MCSource == c1 :> s1 @@ c2 :> s1 @@ c3 :> s2
MCHoldsFor == c1 :> {0, 1} @@ c2 :> {1, 2} @@ c3 :> {1}
MCMixed == c1 :> "level" @@ c2 :> "toggle" @@ c3 :> "always"
MCManual == c1 :> "level" @@ c2 :> "level" @@ c3 :> "manual"
MCStart == <<c1, c2, c3>>
=============================================================================
