---------------------------- MODULE MCValidation ----------------------------
(* Four operations of each version, whose contracts do one kind of thing. *)
EXTENDS Validation

OperationOf(version, factory, account, paymaster) ==
    [version |-> version, factory |-> factory, account |-> account, paymaster |-> paymaster]

OperationsOf(version) ==
    {OperationOf(version, "absent", "unstaked", "absent"),
     OperationOf(version, "absent", "staked", "unstaked"),
     OperationOf(version, "staked", "unstaked", "absent"),
     OperationOf(version, "unstaked", "unstaked", "staked")}

MCOperations == OperationsOf("v0.6") \cup OperationsOf("v0.7")

\* Simulated as v0.6 is.
V06Operations == OperationsOf("v0.6")

On(opcode, to) == [Plain(opcode) EXCEPT !.to = to]
At(opcode, of, base, offset) ==
    [Plain(opcode) EXCEPT !.slot = [of |-> of, base |-> base, offset |-> offset]]

Create == On("CREATE2", "account")

\* Balances and the like that a token keeps.
Storage ==
    {Create, On("CALL", "token"), [On("KECCAK256", "account") EXCEPT !.short = TRUE],
     At("SLOAD", "account", "keccak", 127), At("SSTORE", "account", "keccak", 127),
     At("SLOAD", "account", "keccak", 128)}

OwnStorage ==
    {Create, On("CALL", "token"), On("KECCAK256", "account"),
     At("SSTORE", "paymaster", "address", 0), At("SLOAD", "nobody", "address", 0),
     At("SSTORE", "nobody", "address", 0)}

\* What the sender keeps, and others read.
Shared ==
    {Create, On("CALL", "account"), At("SLOAD", "nobody", "address", 0),
     At("SSTORE", "nobody", "address", 0)}

Opcodes ==
    {Create, On("CALL", "token"), Plain("GAS"), Plain("CALLER"), Plain("TIMESTAMP"),
     Plain("TLOAD"), On("BALANCE", "token"), [Plain("ISZERO") EXCEPT !.oog = TRUE]}

Codes ==
    {Create, On("EXTCODESIZE", "entryPoint"), Plain("ISZERO"), On("EXTCODEHASH", "token"),
     On("EXTCODESIZE", "account"), On("EXTCODESIZE", "nobody"), On("DELEGATECALL", "token")}

Others ==
    {Create, On("CALL", "precompile"), On("CALL", "nobody"), Call("entryPoint", "other"),
     [Call("entryPoint", "depositTo") EXCEPT !.value = 1],
     [On("CALL", "token") EXCEPT !.value = 1]}

\* Calls by the names that the parser looks for.
Names ==
    {Create, Call("entryPoint", "delegateAndRevert"), Call("entryPoint", "other"),
     Call("paymaster", MethodOf["paymaster"]), On("CALL", "paymaster")}

MCPrograms == {{}, Storage, OwnStorage, Shared, Opcodes, Codes, Others, Names}

Always == [signed |-> TRUE, validAfter |-> 0, validUntil |-> 0]

MCWindows ==
    {Always, [Always EXCEPT !.signed = FALSE],
     [Always EXCEPT !.validAfter = 95], [Always EXCEPT !.validAfter = 96],
     [Always EXCEPT !.validUntil = 105], [Always EXCEPT !.validUntil = 130]}

\* The times matter where nothing else does.
OneThing ==
    /\ program # {} => window = [account |-> Always, paymaster |-> Always]
    /\ op.paymaster = "absent" => window.paymaster = Always
=============================================================================
