--------------------------- MODULE MCToolInventory ---------------------------
(* Two tools of which one has two versions, the second with the wider      *)
(* inputs, and a quarantine with room for one.                             *)
EXTENDS ToolInventory, TLC

MCTools == {"a", "b"}
MCSurface == [a \in Versions |-> [b \in Versions |->
  CASE a = b -> "neutral" [] a = "v1" /\ b = "v2" -> "widened" [] OTHER -> "narrowed"]]
MCPlace == "a" :> 1 @@ "b" :> 2
MCLists == {"a" :> "v1", "b" :> "v1", "a" :> "v2" @@ "b" :> "v1"}
MCCatalogs == {"a" :> "v1"}
MCPolicies ==
  [toolRule : {"none", "allow"}, isQuarantining : {TRUE}, onQuarantined : {"require-approval"},
   serverDefault : {"none"}, classDefault : {"none"}, defaultDecision : {"allow"}]
=============================================================================
