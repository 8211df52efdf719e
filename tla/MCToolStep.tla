------------------------------ MODULE MCToolStep ------------------------------
EXTENDS ToolStep

C(name, class, path, gate) == [name |-> name, class |-> class, path |-> path, gate |-> gate]

MCNames == {"read", "mcp_list_tools", "edit", "terminal", "delete", "ask_question", "todo_write"}
MCPaths == {"f", "g"}

Read == C("read", "read", NoPath, "open")
Listing == C("mcp_list_tools", "read", NoPath, "ask")
Edit(path) == C("edit", "mutation", path, "ask")
EditUnderRule(path) == C("edit", "mutation", path, "open")
Question == C("ask_question", "serial", NoPath, "open")
Todo == C("todo_write", "serial", NoPath, "open")
Shell == C("terminal", "serial", NoPath, "ask")
Guarded == C("terminal", "serial", NoPath, "held")
Denied == C("delete", "serial", NoPath, "deny")

\* Reads over the limit of their class, with one that asks; changes of one file and another; what
\* follows a question; a call that is held after one of its name was allowed, and a denied one; a
\* change whose file is not known.
MCSteps ==
    { <<Listing, Listing, Read>>,
      <<Edit("f"), EditUnderRule("f"), EditUnderRule("g")>>,
      <<Question, Guarded, Todo>>,
      <<Denied, Shell, Guarded>>,
      <<EditUnderRule(NoPath), Read>> }
=============================================================================
