------------------------ MODULE MCFlowDesignSession ------------------------
(***************************************************************************)
(* A design session in the hands of any callers, with a source and a       *)
(* two-input block, ids of both blocks chosen by the callers; or of the    *)
(* flow design agent, with the blocks of its draft.                        *)
(***************************************************************************)
EXTENDS FlowDesignAgent, TLC

VARIABLE driver   \* who calls the session: "anyone" or "agent"

MCBlocks == {"input", "join", "ai-generate", "view"}

MCInputs ==
  [b \in MCBlocks |->
     CASE b = "input" -> <<>>
       [] b = "join" -> "left" :> "any" @@ "right" :> "image"
       [] b = "ai-generate" -> "system" :> "text" @@ "prompt" :> "text" @@ "schema" :> "text"
       [] b = "view" -> "input" :> "any"]

MCOutputs ==
  [b \in MCBlocks |->
     CASE b = "input" -> "output" :> "text"
       [] b = "join" -> "merged" :> "json"
       [] b = "ai-generate" -> "output" :> "any"
       [] b = "view" -> <<>>]

MCOwnIds == {<<"input", 1>>, <<"join", 2>>}

\* Callers of the session itself use two of the blocks.
CallersBlocks == \A n \in NodeIds(flow') : flow'.nodes[n].block \in {"input", "join"}

MCInit ==
  /\ driver \in {"anyone", "agent"}
  /\ IF driver = "agent" THEN AgentInit
     ELSE /\ Init
          /\ request = None /\ skill = None /\ step = 1
          /\ state = Fresh(1, <<>>) /\ attempts = <<>> /\ result = None

MCNext ==
  /\ UNCHANGED driver
  /\ \/ driver = "anyone" /\ Next /\ CallersBlocks /\ UNCHANGED agentVars
     \/ driver = "agent" /\ AgentNext

MCSpec == MCInit /\ [][MCNext]_<<driver, vars, agentVars>>
=============================================================================
