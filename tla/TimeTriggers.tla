---------------------------- MODULE TimeTriggers ----------------------------
(***************************************************************************)
(* The triggers of a sequence's time line (juce_timeline's TimeTrigger and  *)
(* Chataigne's ChataigneTimeTrigger): what becomes of one when the time     *)
(* crosses its ends, when it is released, and in which order those that     *)
(* the time crosses come.  A trigger with a length is a bar, with an end.   *)
(***************************************************************************)
EXTENDS Integers, SequencesExt, Selection

CONSTANTS Triggers,    \* 1 .. n, in the order of the list
          At, Length,  \* time and length
          Options      \* evaluate, validExit, invalidExit, rewind of each one

Bars == {k \in Triggers : Length[k] > 0}
Evaluations == {"once", "ends", "always"}
Exits == {"false", "nothing", "deactivate", "true", "both"}

ASSUME TriggerAssumption ==
    /\ IsFiniteSet(Triggers) /\ Triggers = 1 .. Cardinality(Triggers)
    /\ At \in [Triggers -> Nat] /\ Length \in [Triggers -> Nat]
    /\ Options \in [Triggers -> [evaluate : Evaluations, validExit : Exits,
                                 invalidExit : Exits, rewind : Exits]]

(***************************************************************************)
(* triggered is isTriggered, inside collisionState, can canTrigger, done    *)
(* alreadyTriggered; valid is what its conditions say.  sounding counts the *)
(* TRUE consequences that were fired, less the FALSE ones.                  *)
(***************************************************************************)
States == [triggered : BOOLEAN, inside : BOOLEAN, can : BOOLEAN, done : BOOLEAN,
           valid : BOOLEAN, sounding : Int]
Idle == [triggered |-> FALSE, inside |-> FALSE, can |-> TRUE, done |-> FALSE,
         valid |-> TRUE, sounding |-> 0]

AnyTime(k) == k \in Bars /\ Options[k].evaluate # "ends"

\* updateTriggerParams
Updated(k, r) ==
    IF k \in Bars
    THEN [r EXCEPT !.can = r.valid /\ (Options[k].evaluate = "once" => ~r.done)]
    ELSE [r EXCEPT !.can = r.valid, !.done = FALSE]

\* trigger, unTrigger
Begun(r) == IF r.can /\ ~r.triggered
            THEN [r EXCEPT !.triggered = TRUE, !.sounding = @ + 1] ELSE r
Released(k, r) == IF r.triggered
                  THEN Updated(k, [r EXCEPT !.triggered = FALSE, !.sounding = @ - 1, !.done = TRUE])
                  ELSE r

\* exitedInternal, which looks at the state and the conditions only if it does not rewind.
ExitAction(k, r, rewind) ==
    CASE rewind -> Options[k].rewind
      [] ~rewind /\ (IF AnyTime(k) THEN r.triggered ELSE r.valid) -> Options[k].validExit
      [] OTHER -> "invalid"

Exited(k, r, rewind) ==
    LET action == ExitAction(k, r, rewind)
        other == Options[k].invalidExit
    IN  CASE action = "false" -> Released(k, r)
          [] action = "deactivate" -> [r EXCEPT !.triggered = FALSE]
          [] action = "invalid" /\ other # "nothing" ->
               [r EXCEPT !.triggered = FALSE,
                         !.sounding = @ + (IF other \in {"true", "both"} THEN 1 ELSE 0)
                                        - (IF other \in {"false", "both"} THEN 1 ELSE 0)]
          [] OTHER -> r

\* setTriggerState, up to what exitedInternal does at its end.
Crossed(k, r, on, rewind) ==
    LET s == [r EXCEPT !.inside = on] IN IF on THEN Begun(s) ELSE Exited(k, s, rewind)

\* updateTriggerState
Under(k, r) == [(IF AnyTime(k) \/ ~r.inside THEN Begun(r) ELSE r) EXCEPT !.inside = TRUE]

(***************************************************************************)
(* executeTriggersTimespan: the ends between two times, in their order or   *)
(* backwards; a bar is entered by its end when the time goes backwards.     *)
(* With onlyUntrigger only those that leave a trigger count.                *)
(***************************************************************************)
EndsOf(k) == {[at |-> At[k], of |-> k, on |-> TRUE]}
             \cup (IF k \in Bars THEN {[at |-> At[k] + Length[k], of |-> k, on |-> FALSE]} ELSE {})
Before(e, f) == \/ e.at < f.at
                \/ e.at = f.at /\ e.of < f.of
                \/ e.at = f.at /\ e.of = f.of /\ e.on /\ ~f.on

\* The i-th has i - 1 before it.
InOrder(ends) == [i \in 1 .. Cardinality(ends) |->
                     CHOOSE e \in ends : Cardinality({f \in ends : Before(f, e)}) = i - 1]

Timespan(from, to, forward, onlyUntrigger) ==
    LET ends == {e \in UNION {EndsOf(k) : k \in Triggers} :
                   from <= e.at /\ e.at <= to /\ (onlyUntrigger => e.on # forward)}
        order == IF forward THEN InOrder(ends) ELSE Reverse(InOrder(ends))
        on(e) == IF forward THEN e.on ELSE ~onlyUntrigger /\ (~e.on \/ e.of \notin Bars)
    IN  [i \in DOMAIN order |-> <<"cross", order[i].of, on(order[i]), onlyUntrigger>>]
=============================================================================
