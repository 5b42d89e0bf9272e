----------------------------- MODULE TraceParser -----------------------------
(***************************************************************************)
(* tracerResultParserV06 and tracerResultParserV07 of                      *)
(* src/rpc/validation: whether a trace keeps to the rules of validation    *)
(* [OP-011] to [EREP-050], the contracts it refers to and the storage that *)
(* it read.                                                                *)
(*                                                                         *)
(* An operation says which entities it has and which of them are staked;   *)
(* an entity's name is its address.  What a refusal says is left out.      *)
(***************************************************************************)
EXTENDS Collector

Entities == {"factory", "account", "paymaster"}

Addresses == Entities \cup {"entryPoint", "token", "nobody", "precompile"}

Operation ==
    [version : {"v0.6", "v0.7"}, factory : {"absent", "unstaked", "staked"},
     account : {"unstaked", "staked"}, paymaster : {"absent", "unstaked", "staked"}]

isStaked(stake) == stake = "staked"

\* callsFromEntryPointMethodSigs.
MethodOf ==
    [factory |-> "createSender", account |-> "validateUserOp",
     paymaster |-> "validatePaymasterUserOp"]

bannedOpCodesV06 ==
    {"TIMESTAMP", "SELFBALANCE", "BALANCE", "ORIGIN", "GAS", "CREATE", "SELFDESTRUCT"}

bannedOpCodesV07 == bannedOpCodesV06 \cup {"TSTORE", "TLOAD"}

\* A slot is an entity's address, or lies offset behind the hash of something
\* that begins with it.
Slot == [of : Entities \cup {"nobody"}, base : {"address", "keccak"}, offset : Nat]

\* Mutant: one slot too many.
associatedWithin(slot, address, keccak) ==
    /\ slot.of = address
    /\ \/ slot.base = "address" /\ slot.offset = 0
       \/ slot.base = "keccak" /\ address \in keccak /\ slot.offset =< 128

\* keccak: the entities whose hashes parseEntitySlots found in the trace.
associatedWith(slot, address, keccak) ==
    /\ slot.of = address
    /\ \/ slot.base = "address" /\ slot.offset = 0
       \/ slot.base = "keccak" /\ address \in keccak /\ slot.offset < 128

-----------------------------------------------------------------------------
(* The calls, in the order in which they return.                           *)

\* What returns without a call to return from.
TopCall == [type |-> "top", from |-> "", to |-> "", method |-> "validateUserOp", value |-> 0]

Returned(parsed, call) ==
    LET top == IF parsed.stack = <<>> THEN TopCall ELSE Last(parsed.stack)
    IN  [stack |-> IF parsed.stack = <<>> THEN <<>> ELSE Front(parsed.stack),
         out |-> Append(parsed.out,
            IF top.type \in {"CREATE", "CREATE2"}
            THEN [to |-> top.to, from |-> top.from, method |-> "", value |-> 0, return |-> ""]
            ELSE [to |-> top.to, from |-> top.from, method |-> top.method, value |-> top.value,
                  return |-> IF call.type = "RETURN" THEN call.data ELSE ""])]

Parsing(parsed, call) ==
    IF call.type \in Returning THEN Returned(parsed, call)
    ELSE [parsed EXCEPT !.stack = Append(@, call)]

parseCallStack(calls) == FoldLeft(Parsing, [stack |-> <<>>, out |-> <<>>], calls).out

\* [OP-052], [OP-053] Where they are in the call stack.
callsIntoEntryPoint(callStack) ==
    {k \in DOMAIN callStack : /\ callStack[k].to = "entryPoint"
                              /\ callStack[k].from # "entryPoint"
                              /\ callStack[k].method \notin {"0x", "depositTo"}}

illegalCallV06(callStack) == callsIntoEntryPoint(callStack) # {}

\* [OP-054] The simulation itself goes through delegateAndRevert.
illegalCallV07(callStack) ==
    LET found == callsIntoEntryPoint(callStack)
    IN  found # {} /\ callStack[Min(found)].method # "delegateAndRevert"

\* [OP-061]
illegalNonZeroValueCall(callStack) ==
    \E call \in ToSet(callStack) : call.to # "entryPoint" /\ call.value # 0

-----------------------------------------------------------------------------
(* What an entity did, in its level of the trace.                          *)

\* [OP-011]
bannedV06(stake, level) == BagToSet(level.opcodes) \cap bannedOpCodesV06 # {}

bannedV07(stake, level) ==
    LET balances == IF isStaked(stake) THEN {"BALANCE", "SELFBALANCE"} ELSE {}
    IN  BagToSet(level.opcodes) \cap (bannedOpCodesV07 \ balances) # {}

\* [OP-031]
tooManyCreate2(entity, level) ==
    /\ BagIn("CREATE2", level.opcodes)
    /\ entity = "factory" => level.opcodes["CREATE2"] > 1

Accessed(level) ==
    level.writes \cup {[address |-> r.address, slot |-> r.slot] : r \in level.reads}

\* [STO-021], [STO-022] A slot of the sender in another contract.
freeForSender(op, entity, slot, keccak) ==
    /\ associatedWith(slot, "account", keccak)
    /\ op.factory # "absent" => entity = "account" /\ isStaked(op.factory)

\* [STO-031] to [STO-033] What an entity with a stake may access.
allowedWithStake(op, entity, access, level, keccak) ==
    \/ associatedWith(access.slot, "account", keccak)
    \/ associatedWith(access.slot, entity, keccak)
    \/ access.address = entity
    \/ access \notin level.writes

forbiddenAccess(op, entity, level, keccak) ==
    \E access \in Accessed(level) :
        /\ access.address \notin {"account", "entryPoint"}
        /\ ~ freeForSender(op, entity, access.slot, keccak)
        /\ ~ (isStaked(op[entity]) /\ allowedWithStake(op, entity, access, level, keccak))

\* [EREP-050]
returnsContext(callStack) ==
    LET found == {k \in DOMAIN callStack : /\ callStack[k].method = "validatePaymasterUserOp"
                                           /\ callStack[k].to = "paymaster"}
    IN  found # {} /\ callStack[Min(found)].return = "context"

\* [OP-041], [OP-042]
zeroCodeAccess(level) ==
    \E x \in level.contractSize : x.address # "account" /\ x.empty

breaksRules(op, entity, level, keccak, callStack, banned) ==
    \/ level.oog
    \/ banned
    \/ tooManyCreate2(entity, level)
    \/ forbiddenAccess(op, entity, level, keccak)
    \/ entity = "paymaster" /\ returnsContext(callStack) /\ ~ isStaked(op.paymaster)
    \/ zeroCodeAccess(level)
    \/ "entryPoint" \in level.extCodeAccessInfo

-----------------------------------------------------------------------------

\* Which levels of the trace are an entity's.
levelsOf(trace, entity) ==
    {k \in DOMAIN trace.callsFromEntryPoint :
        trace.callsFromEntryPoint[k].topLevelMethodSig = MethodOf[entity]}

PresentEntities(op) == {e \in Entities : op[e] # "absent"}

KeccakOf(op, trace) == trace.keccak \cap PresentEntities(op)

tracerResultParserV06(op, trace) ==
    LET callStack == parseCallStack(trace.calls)
    IN  /\ trace.callsFromEntryPoint # <<>>
        /\ ~ illegalCallV06(callStack)
        /\ ~ illegalNonZeroValueCall(callStack)
        /\ levelsOf(trace, "account") # {}
        /\ \A e \in Entities : levelsOf(trace, e) # {} =>
             LET level == trace.callsFromEntryPoint[Min(levelsOf(trace, e))]
             IN  ~ breaksRules(op, e, level, KeccakOf(op, trace), callStack,
                               bannedV06(op[e], level))

tracerResultParserV07(op, trace) ==
    LET callStack == parseCallStack(trace.calls)
    IN  /\ trace.callsFromEntryPoint # <<>>
        /\ ~ illegalCallV07(callStack)
        /\ ~ illegalNonZeroValueCall(callStack)
        /\ levelsOf(trace, "account") # {}
        /\ \A e \in Entities : levelsOf(trace, e) # {} =>
             LET level == trace.callsFromEntryPoint[Min(levelsOf(trace, e))]
             IN  ~ breaksRules(op, e, level, KeccakOf(op, trace), callStack,
                               bannedV07(op[e], level))

\* The contracts that the trace refers to.
contractAddresses(trace) ==
    UNION {{x.address : x \in level.contractSize} : level \in ToSet(trace.callsFromEntryPoint)}

\* Mutant: the reads of every level.
storageMapOfAll(trace) ==
    UNION {level.reads : level \in ToSet(trace.callsFromEntryPoint)}

\* What was read of each contract in the first level that accessed it.
storageMap(trace) ==
    LET levels == trace.callsFromEntryPoint
        first(i, address) ==
            \A j \in 1..(i - 1) : \A access \in Accessed(levels[j]) : access.address # address
    IN  UNION {{r \in levels[i].reads : first(i, r.address)} : i \in DOMAIN levels}
=============================================================================
