-------------------------- MODULE MCStateMachine --------------------------
\* Small instances of StateMachine.
EXTENDS StateMachine

CONSTANTS a, b, c, ab, ba, bc, ca

\* a and b activate each other, b leads to c, and c back to a.
Ends == ab :> <<a, b>> @@ ba :> <<b, a>> @@ bc :> <<b, c>> @@ ca :> <<c, a>>
MCSrc == [t \in Transitions |-> Ends[t][1]]
MCDst == [t \in Transitions |-> Ends[t][2]]

MCCycle == <<ab, ba, bc, ca>>
MCNone == <<>>
=============================================================================
