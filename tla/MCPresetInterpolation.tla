----------------------- MODULE MCPresetInterpolation -----------------------
(* Instances of PresetInterpolation for TLC. *)
EXTENDS PresetInterpolation, TLC

CONSTANTS p, q, x, y

\* One variable follows both presets, the other changes at an end or not at all.
MCMode == p :> (x :> "INTERPOLATE" @@ y :> "CHANGE_AT_END")
          @@ q :> (x :> "CHANGE_AT_START" @@ y :> "NONE")
MCItems == <<x, y>>
=============================================================================
