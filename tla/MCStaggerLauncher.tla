------------------------- MODULE MCStaggerLauncher -------------------------
\* Small instances of StaggerLauncher: m1 holds three items, the first one
\* disabled; the second one may be a group, m2, whose last item is.
EXTENDS StaggerLauncher

CONSTANTS m1, m2, a, b, c, d

MCContents == m1 :> <<b, a, c>> @@ m2 :> <<d, b>>
MCDelay == m1 :> 1 @@ m2 :> 1
MCStagger == m1 :> 1 @@ m2 :> 0
MCDown == a :> m2 @@ b :> Nobody @@ c :> Nobody @@ d :> Nobody
=============================================================================
