---------------------------- MODULE MCSettlement ----------------------------
(* Two operations of version 0.7, with and without a factory, one of        *)
(* version 0.6, and a rival of the first with its sender and nonce.        *)
EXTENDS Settlement

MCOps == {"a", "ax", "b", "c"}

V07(sender, factory, data, paymaster, fee) ==
    [sender |-> sender, nonce |-> 0, factory |-> factory, factoryData |-> data,
     callData |-> "call", callGasLimit |-> 2, verificationGasLimit |-> 3,
     preVerificationGas |-> 1, maxFeePerGas |-> fee, maxPriorityFeePerGas |-> 1,
     paymaster |-> paymaster,
     paymasterVerificationGasLimit |-> IF paymaster = NoAddress THEN 0 ELSE 4,
     paymasterPostOpGasLimit |-> IF paymaster = NoAddress THEN 0 ELSE 5,
     paymasterData |-> IF paymaster = NoAddress THEN <<>> ELSE <<"deadline">>,
     signature |-> "signed"]

V06(sender) ==
    [sender |-> sender, nonce |-> 0, initCode |-> <<>>, callData |-> "call",
     callGasLimit |-> 2, verificationGasLimit |-> 3, preVerificationGas |-> 1,
     maxFeePerGas |-> 2, maxPriorityFeePerGas |-> 1, paymasterAndData |-> <<"pm">>,
     signature |-> "signed"]

\* b's factory needs no data: it is not found by its hash.
MCUserOperation ==
    [o \in MCOps |-> CASE o = "a"  -> V07("A", "factory", <<"salt">>, "pm", 2)
                       [] o = "ax" -> V07("A", NoAddress, <<>>, NoAddress, 3)
                       [] o = "b"  -> V07("B", "factory", <<>>, NoAddress, 2)
                       [] o = "c"  -> V06("C")]

MCEntryPointOf == [o \in MCOps |-> IF o = "c" THEN "EntryPoint06" ELSE "EntryPoint07"]

\* The account of b logs an event of c, after it was executed; b is said to have
\* reverted while ax is validated; and r2 says that b succeeded.
Imitated(name, o, success) == <<Log("account", name, o, success)>>
MCImitated ==
    [o \in MCOps |->
        [validation |-> IF o = "ax" THEN Imitated("UserOperationRevertReason", "b", FALSE) ELSE <<>>,
         execution  |-> IF o = "b" THEN Imitated("UserOperationEvent", "c", FALSE) ELSE <<>>]]

Call(entryPoint, runs) == [entryPoint |-> entryPoint, logged |-> <<>>, runs |-> runs]
Run(o, outcome) == [op |-> o, outcome |-> outcome]
Rival(hash, functionName, sequence) ==
    [hash |-> hash, functionName |-> functionName, status |-> "success",
     isAA95 |-> FALSE, calls |-> sequence]

\* A frontrunner's own bundle, a contract that calls both entry points, and
\* a bundle with the rival operation.
MCRivals ==
    {Rival("r1", "handleOpsV07", <<Call("EntryPoint07", <<Run("a", "success")>>)>>),
     Rival("r2", "multicall", <<Call("EntryPoint06", <<Run("c", "reverted")>>),
                                [Call("EntryPoint07", <<Run("a", "success"), Run("b", "silent")>>)
                                    EXCEPT !.logged = Imitated("UserOperationEvent", "b", TRUE)]>>),
     Rival("r3", "handleOpsV07", <<Call("EntryPoint07", <<Run("ax", "success")>>)>>)}

MCBundles == {<<"a", "b">>, <<"c">>}
MCHashes == <<"t1", "t2">>
=============================================================================
