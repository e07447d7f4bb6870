------------------------------- MODULE MCExec -------------------------------
(* Policies for ExecCommand: the default, an invalid one, and what they      *)
(* request of processes, kernel and network.                               *)
EXTENDS ExecCommand

w == "w"
a == "a"

MCPolicies ==
    { DefaultPolicy, WorkspacePolicy(<<"..">>, "readWrite"),
      ScopedPolicy(<<w>>, <<w, a>>, "readWrite"),
      NetworkedPolicy(<<w>>),
      [WorkspacePolicy(<<w>>, "readOnly") EXCEPT
          !.process = Strict([visibility |-> "host", terminates |-> TRUE])],
      [WorkspacePolicy(<<w>>, "readOnly") EXCEPT
          !.kernelOps = Strict("baseline"),
          !.process = Fallback([visibility |-> "isolated", terminates |-> FALSE])] }
MCGrants == {NetworkedPolicy(<<w>>), ScopedPolicy(<<w>>, <<w, a>>, "readWrite")}
=============================================================================
