--------------------------- MODULE SandboxPolicy ----------------------------
(***************************************************************************)
(* What a sandbox is asked to guarantee and what a backend makes of it:    *)
(* SandboxPolicy, its validation, and its resolution by the Linux and      *)
(* Seatbelt backends.  Absolute paths are sequences of components.           *)
(***************************************************************************)
EXTENDS Naturals, SequencesExt

Dimensions == {"filesystem", "network", "process", "identity", "kernelOps"}

(* PolicySetting.                                                           *)
Strict(value)   == [requested |-> value, fallback |-> FALSE]
Fallback(value) == [requested |-> value, fallback |-> TRUE]

-----------------------------------------------------------------------------
(* normalize_absolute_path: `.` is dropped, `..` takes a component away and *)
(* may not go above the root.                                              *)
Normalize(path) ==
    LET Step(done, component) ==
            IF component = "." THEN done
            ELSE IF component # ".." THEN [done EXCEPT !.path = Append(@, component)]
            ELSE IF done.path = <<>> THEN [done EXCEPT !.ok = FALSE]
            ELSE [done EXCEPT !.path = Front(@)]
    IN  FoldLeft(Step, [ok |-> TRUE, path |-> <<>>], path)

Isolated == [kind |-> "isolated"]
Host     == [kind |-> "host"]

(* FilesystemPolicy::workspace_scoped keeps the normalized paths, if the    *)
(* visible one is within the base.                                         *)
ScopeIsValid(base, visible) ==
    /\ Normalize(base).ok /\ Normalize(visible).ok
    /\ IsPrefix(Normalize(base).path, Normalize(visible).path)
Scoped(base, visible, access) ==
    [kind |-> "scoped", base |-> Normalize(base).path,
     visible |-> Normalize(visible).path, access |-> access]

(* FilesystemPolicy::workspace: all of one directory.                       *)
Workspace(path, access) ==
    [kind |-> "scoped", base |-> path, visible |-> path, access |-> access]

(* ProcessPolicy.                                                           *)
ProcessPolicies == [visibility : {"isolated", "host"}, terminates : BOOLEAN]

(* The default SandboxPolicy, and the policies an embedder starts from.     *)
DefaultPolicy ==
    [filesystem |-> Strict(Isolated),
     network    |-> Strict("isolated"),
     process    |-> Fallback([visibility |-> "isolated", terminates |-> TRUE]),
     identity   |-> Fallback("unprivileged"),
     kernelOps  |-> Fallback("baseline")]
WorkspacePolicy(path, access) ==
    [DefaultPolicy EXCEPT !.filesystem = Strict(Workspace(path, access))]
NetworkedPolicy(path) ==
    [WorkspacePolicy(path, "readWrite") EXCEPT !.network = Strict("host")]
ScopedPolicy(base, visible, access) ==
    [DefaultPolicy EXCEPT !.filesystem = Strict(Scoped(base, visible, access))]

-----------------------------------------------------------------------------
(* resolve_policy: what each backend can provide, and what it falls back    *)
(* to, with a warning, where the setting allows that.                      *)
Provides(backend, dimension, value) ==
    \/ dimension = "network"
    \/ dimension = "filesystem" /\ value.kind # "isolated"
    \/ backend = "linux" /\ dimension \in {"process", "identity", "kernelOps"}
    \/ dimension = "process" /\ value.visibility = "host"
    \/ dimension = "identity" /\ value = "host"
    \/ dimension = "kernelOps" /\ value = "unrestricted"

Weakened(dimension, value) ==
    CASE dimension = "filesystem" -> Host
      [] dimension = "process"    -> [value EXCEPT !.visibility = "host"]
      [] dimension = "identity"   -> "host"
      [] dimension = "kernelOps"  -> "unrestricted"

Lacking(backend, policy) ==
    {d \in Dimensions : ~Provides(backend, d, policy[d].requested)}

(* SandboxPolicy::validate.                                                 *)
Valid(filesystem) ==
    filesystem.kind = "scoped" => ScopeIsValid(filesystem.base, filesystem.visible)

(* Mutant: Seatbelt drops the kernel filter whatever the setting says.      *)
ResolvesUnlessKernel(backend, policy) ==
    /\ Valid(policy.filesystem.requested)
    /\ \A d \in Lacking(backend, policy) \ {"kernelOps"} : policy[d].fallback

Resolves(backend, policy) ==
    /\ Valid(policy.filesystem.requested)
    /\ \A d \in Lacking(backend, policy) : policy[d].fallback

Effective(backend, policy) ==
    [d \in Dimensions |->
        IF d \in Lacking(backend, policy) THEN Weakened(d, policy[d].requested)
        ELSE policy[d].requested]

Warnings(backend, policy) == Lacking(backend, policy)
=============================================================================
