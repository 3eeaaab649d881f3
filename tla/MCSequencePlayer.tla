------------------------- MODULE MCSequencePlayer -------------------------
\* Small instances of SequencePlayer: two bars that overlap.
EXTENDS SequencePlayer

MCAt == [k \in Triggers |-> 1]
MCLength == [k \in Triggers |-> IF k = 1 THEN 2 ELSE 1]
MCAlways == [k \in Triggers |-> [evaluate |-> "always", validExit |-> "false",
                                 invalidExit |-> "nothing", rewind |-> "false"]]
MCPause == [k \in Triggers |-> IF k = 1 THEN <<"pause">> ELSE << >>]
MCStop == [k \in Triggers |-> IF k = 1 THEN <<"stop">> ELSE << >>]
\* The other thread may stop; one that also starts is another matter (README).
MCCommands == [t \in Callers |-> IF t = Other THEN {<<"stop">>, <<"pause">>}
                                 ELSE {<<"play">>, <<"stop">>, <<"pause">>, <<"stop", "play">>, <<"seek">>}]
MCPlayOnly == [t \in Callers |-> IF t = Other THEN {} ELSE {<<"play">>}]
=============================================================================
