--------------------------- MODULE MCToolRegistry ---------------------------
EXTENDS ToolRegistry, TLC

CONSTANTS add, add2, outer, inner, nil

\* Two modules whose tool has the same name.  One call comes from the CLI, and its tool
\* calls the registry in turn, as a process of the application does.
MCRegistrations == {add, add2}
MCCalls == {outer, inner}
MCName == [x \in MCRegistrations \cup MCCalls |-> "add"]
MCPeerCalls == {outer}
MCParent == outer :> nil @@ inner :> outer
=============================================================================
