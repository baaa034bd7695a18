-------------------------- MODULE MCFlowSampleRun ---------------------------
(***************************************************************************)
(* Flows of the built-in blocks (data/flow/BLOCK_POOL.yml; the system and  *)
(* schema inputs of the AI block are like its prompt) and of one custom    *)
(* block that takes numbers and cannot be executed.                        *)
(***************************************************************************)
EXTENDS FlowSampleRun, TLC

NoPorts == <<>>

MCBlocks == {"json-input", "input", "buffer", "view", "ai-generate", "meter"}

MCInputs ==
  [b \in MCBlocks |->
    CASE b \in {"json-input", "input"} -> NoPorts
      [] b \in {"buffer", "view"}      -> ("input" :> "any")
      [] b = "ai-generate"             -> ("prompt" :> "text")
      [] b = "meter"                   -> ("reading" :> "number")]

MCOutputs ==
  [b \in MCBlocks |->
    CASE b = "json-input"                -> ("json" :> "json")
      [] b = "input"                     -> ("output" :> "text")
      [] b \in {"buffer", "ai-generate"} -> ("output" :> "any")
      [] b \in {"view", "meter"}         -> NoPorts]

MCKind ==
  [b \in MCBlocks |->
    CASE b \in {"json-input", "input"} -> "input"
      [] b = "meter" -> "none"
      [] OTHER -> b]

MCRank ==
  [b \in MCBlocks |->
    CASE b = "ai-generate" -> 1
      [] b = "buffer"      -> 2
      [] b = "input"       -> 3
      [] b = "json-input"  -> 4
      [] b = "meter"       -> 5
      [] b = "view"        -> 6]

MCConfig ==
  [b \in MCBlocks |->
    CASE b = "json-input"  -> {"objectText", "quotedWord"}
      [] b = "input"       -> {"word", "numeral", None}
      [] b = "buffer"      -> {"numeral"}
      [] b = "ai-generate" -> {"word", None}
      [] OTHER             -> {None}]

MCGenerated == {"word", "object", "null"}
MCPreset    == {"word", "infinite"}
=============================================================================
