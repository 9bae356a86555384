-------------------------- MODULE MCNamespaceSetup ---------------------------
(* Two good runs of rival teams and one whose configuration is unusable.     *)
EXTENDS NamespaceSetup

CONSTANTS first, second, third

Env(councils, keypair, numbers) ==
    [councils |-> councils, complete |-> TRUE, keypair |-> keypair,
     numbers |-> numbers]

MCRuns == {first, second, third}
MCConfig ==
    [r \in MCRuns |-> CASE r = first -> Env("ours", "array", "valid")
                        [] r = second -> Env("theirs", "base58", "nan")
                        [] OTHER -> Env("ours", "array", "invalid")]

Mint(program, extensions) == [program |-> program, extensions |-> extensions]
MCMints ==
    {Mint("token", {}), Mint("token 2022", {"MetadataPointer"}),
     Mint("token 2022", {"MetadataPointer", "TransferFeeConfig"}),
     Mint("token 2022", {"PermanentDelegate"})}
=============================================================================
