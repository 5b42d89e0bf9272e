----------------------------- MODULE PackedOps -----------------------------
(***************************************************************************)
(* src/utils/userop.ts: a version 0.7 operation as RPC clients write it    *)
(* (unpacked) and as the entry point's calldata carries it (packed), and   *)
(* the hash of either version.                                             *)
(*                                                                         *)
(* Bytes are sequences: an address is an element, so is half a word, and   *)
(* so is whatever data follows, because slice() cuts at those borders      *)
(* only.  <<>> is "0x"; it also stands for data that is null or missing,   *)
(* as 0 does for a missing gas limit: every reader of the code writes      *)
(* `|| "0x"' and `|| 0n'.                                                  *)
(***************************************************************************)
EXTENDS Naturals, Sequences

CONSTANTS
    NoAddress,  \* null
    chainId

\* A type predicate of the code looks at the names of the fields.
isVersion06(op) == {"initCode", "paymasterAndData"} \subseteq DOMAIN op

getInitCode(op) ==
    IF op.factory = NoAddress THEN <<>> ELSE <<op.factory>> \o op.factoryData

getAccountGasLimits(op) == <<op.verificationGasLimit, op.callGasLimit>>

getGasLimits(op) == <<op.maxPriorityFeePerGas, op.maxFeePerGas>>

getPaymasterAndData(op) ==
    IF op.paymaster = NoAddress THEN <<>>
    ELSE <<op.paymaster, op.paymasterVerificationGasLimit,
           op.paymasterPostOpGasLimit>> \o op.paymasterData

toPackedUserOperation(op) ==
    [sender             |-> op.sender,
     nonce              |-> op.nonce,
     initCode           |-> getInitCode(op),
     callData           |-> op.callData,
     accountGasLimits   |-> getAccountGasLimits(op),
     preVerificationGas |-> op.preVerificationGas,
     gasFees            |-> getGasLimits(op),
     paymasterAndData   |-> getPaymasterAndData(op),
     signature          |-> op.signature]

\* slice(bytes, 20) throws when nothing follows the 20 bytes, rather than
\* answer "0x": viem asks that the start lie inside of the bytes.
unPackInitCodeThrows(initCode) == Len(initCode) = 1

unPackInitCode(initCode) ==
    IF initCode = <<>>
    THEN [factory |-> NoAddress, factoryData |-> <<>>]
    ELSE [factory |-> Head(initCode), factoryData |-> Tail(initCode)]

\* Mutant: the halves are taken in the other order.
unpackSwappedGasLimits(accountGasLimits) ==
    [callGasLimit         |-> accountGasLimits[1],
     verificationGasLimit |-> accountGasLimits[2]]

unpackAccountGasLimits(accountGasLimits) ==
    [verificationGasLimit |-> accountGasLimits[1],
     callGasLimit         |-> accountGasLimits[2]]

unpackGasLimits(gasLimits) ==
    [maxPriorityFeePerGas |-> gasLimits[1], maxFeePerGas |-> gasLimits[2]]

\* The same slice, behind the address and the two limits.
unpackPaymasterAndDataThrows(paymasterAndData) == Len(paymasterAndData) = 3

unpackPaymasterAndData(paymasterAndData) ==
    IF paymasterAndData = <<>>
    THEN [paymaster                     |-> NoAddress,
          paymasterVerificationGasLimit |-> 0,
          paymasterPostOpGasLimit       |-> 0,
          paymasterData                 |-> <<>>]
    ELSE [paymaster                     |-> paymasterAndData[1],
          paymasterVerificationGasLimit |-> paymasterAndData[2],
          paymasterPostOpGasLimit       |-> paymasterAndData[3],
          paymasterData                 |-> SubSeq(paymasterAndData, 4, Len(paymasterAndData))]

toUnpackedThrows(packed) ==
    \/ unPackInitCodeThrows(packed.initCode)
    \/ unpackPaymasterAndDataThrows(packed.paymasterAndData)

toUnpackedUserOperation(packed) ==
    LET code   == unPackInitCode(packed.initCode)
        limits == unpackAccountGasLimits(packed.accountGasLimits)
        fees   == unpackGasLimits(packed.gasFees)
        pm     == unpackPaymasterAndData(packed.paymasterAndData)
    IN  [sender                        |-> packed.sender,
         nonce                         |-> packed.nonce,
         factory                       |-> code.factory,
         factoryData                   |-> code.factoryData,
         callData                      |-> packed.callData,
         callGasLimit                  |-> limits.callGasLimit,
         verificationGasLimit          |-> limits.verificationGasLimit,
         preVerificationGas            |-> packed.preVerificationGas,
         maxFeePerGas                  |-> fees.maxFeePerGas,
         maxPriorityFeePerGas          |-> fees.maxPriorityFeePerGas,
         paymaster                     |-> pm.paymaster,
         paymasterVerificationGasLimit |-> pm.paymasterVerificationGasLimit,
         paymasterPostOpGasLimit       |-> pm.paymasterPostOpGasLimit,
         paymasterData                 |-> pm.paymasterData,
         signature                     |-> packed.signature]

\* keccak256 is what it hashes: equal hashes come from equal operations.
getUserOperationHashV06(op, entryPoint) ==
    <<op.sender, op.nonce, op.initCode, op.callData, op.callGasLimit,
      op.verificationGasLimit, op.preVerificationGas, op.maxFeePerGas,
      op.maxPriorityFeePerGas, op.paymasterAndData, entryPoint, chainId>>

getUserOperationHashV07(packed, entryPoint) ==
    <<packed.sender, packed.nonce, packed.initCode, packed.callData,
      packed.accountGasLimits, packed.preVerificationGas, packed.gasFees,
      packed.paymasterAndData, entryPoint, chainId>>

getUserOperationHash(op, entryPoint) ==
    IF isVersion06(op)
    THEN getUserOperationHashV06(op, entryPoint)
    ELSE getUserOperationHashV07(toPackedUserOperation(op), entryPoint)
=============================================================================
