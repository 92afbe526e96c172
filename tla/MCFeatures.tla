----------------------------- MODULE MCFeatures -----------------------------
(***************************************************************************)
(* A handful of the translator's tables: three versions (for 1.0, 1.2 to   *)
(* 1.4, and 1.6), a chain of implied capabilities, one with a version and  *)
(* one with an extension of its own, and the float16_add extension with    *)
(* its companion.                                                          *)
(***************************************************************************)
EXTENDS Features

MCCaps == {"Groups", "AvcMotion", "AvcIntra", "FloatControls2"}
MCExts == {"avc", "float_controls2", "no_wrap", "float16_add", "float_add"}

MCImplied == [c \in MCCaps |-> CASE c = "AvcMotion" -> {"Groups"}
                                 [] c = "AvcIntra"  -> {"AvcMotion"}
                                 [] OTHER           -> {}]
MCCapVer == [c \in MCCaps |-> IF c = "FloatControls2" THEN 1 ELSE 0]
MCCapExt == [c \in MCCaps |-> CASE c = "FloatControls2" -> "float_controls2"
                                [] c = "AvcMotion"      -> "avc"
                                [] OTHER                -> "none"]
MCCompanion == [x \in MCExts |-> IF x = "float16_add" THEN {"float_add"} ELSE {}]

Construct(policy, ver, ext, caps) ==
  [policy |-> policy, ver |-> ver, ext |-> ext, caps |-> caps]

MCConstructs ==
  { Construct("requires", 0, "none", {"AvcIntra"}),
    Construct("requires", 0, "none", {"FloatControls2"}),
    Construct("requires", 0, "avc", {"AvcMotion", "Groups"}),
    Construct("requires", 0, "float16_add", {}),
    Construct("requires", 1, "none", {}),
    Construct("either", 2, "float_controls2", {"Groups"}),
    Construct("optional", 1, "no_wrap", {}),
    Construct("optional", 2, "none", {"FloatControls2"}) }

MCOptions == OptionType
=============================================================================
