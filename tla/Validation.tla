----------------------------- MODULE Validation -----------------------------
(***************************************************************************)
(* The validations of an operation by src/rpc/validation/SafeValidator.ts  *)
(* and UnsafeValidator.ts: first when it arrives, then before it is        *)
(* bundled, with the hash of the code that the first one referred to.      *)
(*                                                                         *)
(* External are the node, which simulates the validation and shows it to   *)
(* the collector, the entry point, and the contracts.  These run one of    *)
(* Programs in a trace: any of its instructions, in any order, with what   *)
(* an instruction takes from the stack pushed just before it.              *)
(***************************************************************************)
EXTENDS TraceParser

CONSTANTS
    Operations,       \* that may be validated
    Programs,         \* sets of instructions
    Modes,            \* "safe", "unsafe", or "tenderly", which cannot trace
    Windows,          \* what an account or a paymaster may answer
    importedTracer,   \* the collector that v0.6 is traced with
    expirationCheck,  \* of the configuration
    maxUint48,        \* 2^48 - 1, beyond every time
    MaxSteps,         \* instructions in one trace
    MaxNow,
    Unknown           \* the node did not answer

Instruction ==
    [opcode : STRING, to : Addresses \cup {""}, method : STRING, value : {0, 1},
     slot : Slot, short : BOOLEAN, oog : BOOLEAN]

\* What ends a contract's run has actions of its own.  CREATE2 is the only way
\* to create a contract, and never the entry point.
Ordinary(i) ==
    /\ i.opcode \notin Returning \cup {"STOP", "CREATE", "SELFDESTRUCT"}
    /\ i.opcode \in Calls \cup ExtCode => i.to # ""
    /\ i.opcode = "CREATE2" => i.to # "entryPoint"

\* Validation data: a validUntil of 0 is for ever.
Window == [signed : BOOLEAN, validAfter : Nat, validUntil : Nat]

ASSUME ValidationAssumption ==
    /\ Operations \subseteq Operation
    /\ \A p \in Programs : p \subseteq Instruction /\ \A i \in p : Ordinary(i)
    /\ Modes \subseteq {"safe", "unsafe", "tenderly"}
    /\ Windows \subseteq Window
    /\ importedTracer \in {"V06", "V07"}
    /\ expirationCheck \in BOOLEAN
    /\ {maxUint48, MaxSteps, MaxNow} \subseteq Nat /\ maxUint48 > MaxNow + 30

VARIABLES
    op, mode, window,    \* what is validated, and how: they never change
    program,             \* what its contracts may do
    frames,              \* the contracts that run, below the entry point
    calling,             \* the entities that the entry point has yet to call
    written,             \* the places that no longer have their first value
    deployed,            \* the sender has code
    hashed,              \* the entities whose slots have been computed
    steps,               \* instructions that were run
    previous,            \* the last of them
    broken,              \* the rules that the contracts have broken
    ran,                 \* the contracts whose code they ran or looked at
    mistakable,          \* the rules whose calls others can be taken for
    trace,               \* the collector's
    phase,
    referenced,          \* what the first validation says of the code
    upgraded,            \* the contracts whose code has been changed
    upgradedBefore,      \* those among them before the first validation's end
    upgradedWhenCompared,  \* and when the second one compared the hashes
    clock,
    accepted             \* when the operation was found to be valid

evm == <<frames, calling, written, deployed, hashed, steps, previous, broken, ran, mistakable>>
fixed == <<op, mode, window, program>>
validator ==
    <<referenced, upgraded, upgradedBefore, upgradedWhenCompared, clock, accepted>>
vars == <<fixed, evm, trace, phase, validator>>

-----------------------------------------------------------------------------
(* The simulation, and what the collector is shown of it.                  *)

\* v0.6 is simulated by the entry point itself, v0.7 by code that the entry
\* point runs for a contract of the bundler.
EntryPointDepth == IF op.version = "v0.6" THEN 1 ELSE 3

step(c, s) ==
    IF op.version = "v0.6" /\ importedTracer = "V06" THEN stepV06(c, s) ELSE stepV07(c, s)

Plain(opcode) ==
    [opcode |-> opcode, to |-> "", method |-> "", value |-> 0, short |-> FALSE, oog |-> FALSE,
     slot |-> [of |-> "nobody", base |-> "address", offset |-> 0]]

Call(to, method) == [Plain("CALL") EXCEPT !.to = to, !.method = method]

HasCode(address) ==
    address \notin {"nobody", "precompile", ""} /\ (address = "account" => deployed)

\* An instruction of a contract, below so many others.
Shown(i, owner, below) ==
    [opcode |-> i.opcode, depth |-> EntryPointDepth + below, address |-> i.to,
     method |-> i.method, slot |-> i.slot, owner |-> owner, short |-> i.short,
     oog |-> i.oog, data |-> "", hasCode |-> HasCode(i.to),
     value |-> IF <<owner, i.slot>> \in written THEN 1 ELSE 0]

Pushes(opcode) ==
    opcode \in ExtCode \cup Returning \cup {"SLOAD", "SSTORE", "KECCAK256", "BALANCE"}

Seen(c, i, owner, below) ==
    LET pushed == IF Pushes(i.opcode) THEN step(c, Shown(Plain("PUSH"), owner, below)) ELSE c
    IN  step(pushed, Shown(i, owner, below))

Entering(type, from, i) ==
    [type |-> type, from |-> from, to |-> i.to, method |-> i.method, value |-> i.value]

StartedTrace ==
    IF op.version = "v0.6" THEN NoTrace
    ELSE enter(enter(NoTrace, Entering("CALL", "simulations",
                                       Call("entryPoint", "delegateAndRevert"))),
               Entering("DELEGATECALL", "entryPoint",
                        Call("simulation", "simulateValidationLast")))

Frame(code, owner) ==
    [code |-> code, owner |-> owner, written |-> written, deployed |-> deployed]

PresentInOrder ==
    (IF op.factory = "absent" THEN <<>> ELSE <<"factory">>)
        \o <<"account">> \o (IF op.paymaster = "absent" THEN <<>> ELSE <<"paymaster">>)

\* The entry point calls the next entity, a factory through its SenderCreator.
CallEntity ==
    /\ phase = "tracing" /\ frames = <<>> /\ calling # <<>>
    /\ Head(calling) # "factory" => deployed
    /\ LET e == Head(calling)
           call == Call(IF e = "factory" THEN "creator" ELSE e, MethodOf[e])
           create == Call("factory", "")
           called == enter(Seen(trace, call, "entryPoint", 0), Entering("CALL", "entryPoint", call))
       IN  IF e = "factory"
           THEN /\ frames' = <<Frame("creator", "creator"), Frame("factory", "factory")>>
                /\ trace' = enter(Seen(called, create, "creator", 1),
                                  Entering("CALL", "creator", create))
           ELSE frames' = <<Frame(e, e)>> /\ trace' = called
    /\ UNCHANGED <<fixed, calling, written, deployed, hashed, steps, previous, broken, ran,
                   mistakable, phase, validator>>

Running == Last(frames)
Entity == Head(calling)

\* An entity runs, and not something that it called.
EntityRuns == Len(frames) = (IF Entity = "factory" THEN 2 ELSE 1)

-----------------------------------------------------------------------------
(* The rules, said of what the contracts do.                               *)

Banned(opcode) ==
    \/ opcode \in {"TIMESTAMP", "ORIGIN"}
    \/ opcode \in {"TLOAD", "TSTORE"} /\ op.version = "v0.7"
    \/ opcode \in {"BALANCE", "SELFBALANCE"} /\ ~ (op.version = "v0.7" /\ isStaked(op[Entity]))

Belongs(slot, e) ==
    /\ slot.of = e
    /\ slot.base = "address" => slot.offset = 0
    /\ slot.base = "keccak" => slot.offset < 128

MayAccess(opcode, slot, owner) ==
    \/ owner \in {"account", "entryPoint"}
    \/ /\ Belongs(slot, "account")
       /\ op.factory = "absent" \/ (Entity = "account" /\ isStaked(op.factory))
    \/ /\ isStaked(op[Entity])
       /\ \/ opcode = "SLOAD" \/ owner = Entity
          \/ Belongs(slot, "account") \/ Belongs(slot, Entity)

\* Which rules are broken by running i after the instruction before it.  GAS is
\* for a call; CALLER has a name of its own, because it begins like one.
BrokenBy(i) ==
    LET follows == IF Pushes(i.opcode) THEN "PUSH" ELSE i.opcode
        broke ==
          [OP011 |-> Banned(i.opcode),
           OP012 |-> previous.opcode = "GAS" /\ follows \notin Calls \cup {"CALLER"},
           GasBeforeCaller |-> previous.opcode = "GAS" /\ follows = "CALLER",
           OP020 |-> i.oog,
           OP031 |-> i.opcode = "CREATE2" /\ ~ (Entity = "factory" /\ ~ deployed),
           OP041 |-> i.opcode \in Calls \cup ExtCode /\ i.to = "nobody",
           OP052 |-> i.opcode \in Calls /\ i.to = "entryPoint"
                     /\ i.method \notin {"0x", "depositTo"},
           OP054 |-> previous.opcode \in ExtCode /\ previous.to = "entryPoint"
                     /\ ~ (previous.opcode = "EXTCODESIZE" /\ follows = "ISZERO"),
           OP061 |-> i.opcode \in Calls /\ i.to # "entryPoint" /\ i.value # 0,
           STO   |-> i.opcode \in {"SLOAD", "SSTORE"}
                     /\ ~ MayAccess(i.opcode, i.slot, Running.owner)]
    IN  {rule \in DOMAIN broke : broke[rule]}

\* The parser looks for the simulation's call of the entry point, and for the
\* paymaster's validation, by name: i may be taken for one.
TakenFor(i) ==
    IF i.opcode \notin Calls THEN {}
    ELSE IF i.to = "entryPoint" /\ i.method = "delegateAndRevert" THEN {"OP052"}
    ELSE IF i.to = "paymaster" /\ i.method = MethodOf["paymaster"] THEN {"EREP050"}
    ELSE {}

-----------------------------------------------------------------------------

\* A slot that is found by a hash is known once it has been computed; the
\* entry point is called for deposits; only an entity creates contracts.
CanRun(i) ==
    /\ i.opcode \in {"SLOAD", "SSTORE"} /\ i.slot.base = "keccak" => i.slot.of \in hashed
    /\ Running.code = "entryPoint" => i.opcode = "SSTORE"
    /\ i.opcode = "CREATE2" => EntityRuns
    /\ Running.code \in Entities \cup {"token", "entryPoint"}

\* What the simulation makes of a frame that ends in a failure.
Reverted(c) ==
    /\ trace' = exit(c, "REVERT", "")
    /\ written' = Running.written
    /\ deployed' = Running.deployed
    /\ frames' = Front(frames)
    /\ phase' = IF EntityRuns THEN "failed" ELSE phase

Execute(i) ==
    LET c == Seen(trace, i, Running.owner, Len(frames))
        owner == IF i.opcode = "DELEGATECALL" THEN Running.owner ELSE i.to
    IN  /\ phase = "tracing" /\ frames # <<>> /\ steps < MaxSteps
        /\ CanRun(i)
        /\ steps' = steps + 1
        /\ previous' = i
        /\ broken' = broken \cup BrokenBy(i)
        /\ mistakable' = mistakable \cup TakenFor(i)
        /\ ran' = IF i.opcode \in Calls \cup ExtCode /\ HasCode(i.to) THEN ran \cup {i.to} ELSE ran
        /\ hashed' = IF i.opcode = "KECCAK256" /\ i.short THEN hashed \cup {i.to} ELSE hashed
        /\ IF i.oog THEN Reverted(c)
           ELSE /\ frames' = IF i.opcode \in Calls THEN Append(frames, Frame(i.to, owner))
                             ELSE frames
                /\ trace' = CASE i.opcode \in Calls ->
                                   enter(c, Entering(i.opcode, Running.owner, i))
                              [] i.opcode = "CREATE2" ->
                                   exit(enter(c, Entering(i.opcode, Running.owner, i)),
                                        "RETURN", "")
                              [] OTHER -> c
                /\ written' = IF i.opcode = "SSTORE"
                              THEN written \cup {<<Running.owner, i.slot>>} ELSE written
                /\ deployed' = (deployed \/ (i.opcode = "CREATE2" /\ Entity = "factory"))
                /\ UNCHANGED phase
        /\ UNCHANGED <<fixed, calling, validator>>

\* A contract returns, a paymaster's perhaps with a context, which the entry
\* point gets from the paymaster that it called.
Return ==
    /\ phase = "tracing" /\ frames # <<>>
    /\ \E opcode \in {"STOP", "RETURN"}, data \in {"", "context"} :
        LET runs == Running.code \notin {"nobody", "precompile"}
            i == Plain(opcode)
            c == IF runs THEN Seen(trace, i, Running.owner, Len(frames)) ELSE trace
            kept == data = "context" /\ Entity = "paymaster" /\ EntityRuns
        IN  /\ data = "context" => Running.code = "paymaster" /\ opcode = "RETURN"
            /\ ~ runs \/ Running.code = "creator" => opcode = "RETURN"
            /\ trace' = exit(c, "RETURN", data)
            /\ previous' = IF runs THEN i ELSE previous
            /\ broken' = broken
                 \cup (IF runs THEN BrokenBy(i) ELSE {})
                 \cup (IF kept /\ ~ isStaked(op.paymaster) THEN {"EREP050"} ELSE {})
    /\ frames' = Front(frames)
    /\ calling' = IF Len(frames) = 1 THEN Tail(calling) ELSE calling
    /\ UNCHANGED <<fixed, written, deployed, hashed, steps, ran, mistakable, phase, validator>>

Revert ==
    /\ phase = "tracing" /\ frames # <<>>
    /\ Running.code \in Entities \cup {"token"}
    /\ Reverted(Seen(trace, Plain("REVERT"), Running.owner, Len(frames)))
    /\ previous' = Plain("REVERT")
    /\ broken' = broken \cup BrokenBy(Plain("REVERT"))
    /\ UNCHANGED <<fixed, calling, hashed, steps, ran, mistakable, validator>>

\* The factory did not create the sender.
NoSender ==
    /\ phase = "tracing" /\ frames = <<>> /\ calling # <<>>
    /\ Entity # "factory" /\ ~ deployed
    /\ phase' = "failed"
    /\ UNCHANGED <<fixed, evm, trace, validator>>

-----------------------------------------------------------------------------
(* The validator.                                                          *)

parseValidationData(data) ==
    [data EXCEPT !.validUntil = IF data.validUntil = 0 THEN maxUint48 ELSE data.validUntil]

\* Mutant: the time of the account alone.
mergeAccountData ==
    LET account == parseValidationData(window.account)
    IN  [signed |-> account.signed, validAfter |-> account.validAfter,
         validUntil |-> account.validUntil]

mergeValidationData ==
    LET account == parseValidationData(window.account)
        paymaster == parseValidationData(window.paymaster)
    IN  [signed |-> account.signed /\ paymaster.signed,
         validAfter |-> Max({account.validAfter, paymaster.validAfter}),
         validUntil |-> Min({account.validUntil, paymaster.validUntil})]

inTimeSafe ==
    /\ mergeValidationData.signed
    /\ mergeValidationData.validAfter =< clock - 5
    /\ mergeValidationData.validUntil >= clock + 30

inTimeUnsafe ==
    /\ mergeValidationData.signed
    /\ \/ op.version = "v0.6" /\ ~ expirationCheck
       \/ /\ mergeValidationData.validAfter =< clock
          /\ mergeValidationData.validUntil >= clock + 5

\* What the node shows the collector at the end of the simulation.
FinishedTrace ==
    LET result == Plain(IF op.version = "v0.6" THEN "REVERT" ELSE "RETURN")
        c == Seen(trace, result, "entryPoint", 0)
    IN  IF op.version = "v0.6" THEN c ELSE exit(exit(c, "RETURN", ""), "REVERT", "")

Parsed(c) ==
    IF op.version = "v0.6" THEN tracerResultParserV06(op, c) ELSE tracerResultParserV07(op, c)

\* debug_traceCall has answered.
Traced ==
    /\ phase = "tracing" /\ frames = <<>> /\ calling = <<>>
    /\ trace' = FinishedTrace
    /\ phase' = IF trace'.thrown \/ Last(trace'.calls).type # "REVERT" THEN "invalid"
                ELSE IF op.version = "v0.7" /\ ~ inTimeSafe THEN "untimely"
                ELSE IF ~ Parsed(trace') THEN "illegal"
                ELSE "hashing"
    /\ accepted' = IF phase' = "hashing" /\ op.version = "v0.7" THEN accepted \cup {clock}
                   ELSE accepted
    /\ UNCHANGED <<fixed, evm, referenced, upgraded, upgradedBefore, upgradedWhenCompared, clock>>

\* What getCodeHashes may answer.
codeHashes(addresses) == {Unknown, upgraded \cap addresses}

Cleared ==
    /\ trace' = NoTrace /\ previous' = Plain("") /\ steps' = 0
    /\ written' = {} /\ hashed' = {} /\ broken' = {} /\ mistakable' = {}
    /\ UNCHANGED <<frames, calling, deployed, ran>>

\* getCodeHashes has answered, and the operation is accepted.
Hashed ==
    /\ phase = "hashing"
    /\ \E hash \in codeHashes(contractAddresses(trace)) :
           referenced' = [hash |-> hash, addresses |-> contractAddresses(trace)]
    /\ upgradedBefore' = upgraded
    /\ phase' = IF op.version = "v0.6" /\ ~ inTimeSafe THEN "untimely" ELSE "accepted"
    /\ accepted' = IF op.version = "v0.6" /\ inTimeSafe THEN accepted \cup {clock} ELSE accepted
    /\ Cleared
    /\ UNCHANGED <<fixed, upgraded, upgradedWhenCompared, clock>>

\* The second validation: the code first.
Rechecked ==
    /\ phase = "accepted" /\ mode = "safe"
    /\ IF referenced.addresses = {} THEN phase' = "retracing"
       ELSE \E hash \in codeHashes(referenced.addresses) :
               phase' = IF hash = referenced.hash THEN "retracing" ELSE "changed"
    /\ upgradedWhenCompared' = upgraded
    /\ UNCHANGED <<fixed, evm, trace, referenced, upgraded, upgradedBefore, clock, accepted>>

\* Then a trace, of the code as it is by now, that may say anything.
Retraced ==
    /\ phase = "retracing"
    /\ \/ phase' = "illegal again" /\ UNCHANGED accepted
       \/ /\ phase' = IF inTimeSafe THEN "accepted again" ELSE "untimely"
          /\ accepted' = IF inTimeSafe THEN accepted \cup {clock} ELSE accepted
    /\ UNCHANGED <<fixed, evm, trace, referenced, upgraded, upgradedBefore,
                   upgradedWhenCompared, clock>>

\* Without a trace, the first time and the second.
ValidatedUnsafely ==
    /\ mode # "safe"
    /\ phase \in {"simulating", "accepted"}
    /\ phase' \in {"failed", IF ~ inTimeUnsafe THEN "untimely"
                             ELSE IF phase = "simulating" THEN "accepted" ELSE "accepted again"}
    /\ accepted' = IF phase' \in {"accepted", "accepted again"} THEN accepted \cup {clock}
                   ELSE accepted
    /\ UNCHANGED <<fixed, evm, trace, referenced, upgraded, upgradedBefore,
                   upgradedWhenCompared, clock>>

-----------------------------------------------------------------------------

Init ==
    /\ op \in Operations /\ mode \in Modes /\ program \in Programs
    /\ window \in [account : Windows, paymaster : Windows]
    /\ mode # "safe" => program = {}
    /\ frames = <<>> /\ calling = PresentInOrder
    /\ written = {} /\ hashed = {} /\ broken = {} /\ ran = {} /\ mistakable = {}
    /\ deployed = (op.factory = "absent")
    /\ steps = 0 /\ previous = Plain("")
    /\ trace = StartedTrace
    /\ phase = IF mode = "safe" THEN "tracing" ELSE "simulating"
    /\ referenced = Unknown
    /\ upgraded = {} /\ upgradedBefore = {} /\ upgradedWhenCompared = {}
    /\ clock = 100 /\ accepted = {}

\* A block, between two calls of the node, changes the code of a contract.
Upgrade ==
    /\ phase \in {"hashing", "accepted", "retracing"} /\ mode = "safe"
    /\ \E address \in ran : upgraded' = upgraded \cup {address}
    /\ UNCHANGED <<fixed, evm, trace, phase, referenced, upgradedBefore, upgradedWhenCompared,
                   clock, accepted>>

Wait ==
    /\ phase \in {"hashing", "accepted", "retracing"} /\ clock < MaxNow
    /\ clock' = clock + 10
    /\ UNCHANGED <<fixed, evm, trace, phase, referenced, upgraded, upgradedBefore,
                   upgradedWhenCompared, accepted>>

Next ==
    \/ CallEntity
    \/ \E i \in program : Execute(i)
    \/ Return
    \/ Revert
    \/ NoSender
    \/ Traced
    \/ Hashed
    \/ Rechecked
    \/ Retraced
    \/ ValidatedUnsafely
    \/ Upgrade
    \/ Wait

Spec == Init /\ [][Next]_vars

-----------------------------------------------------------------------------

Phases ==
    {"tracing", "simulating", "hashing", "accepted", "retracing", "accepted again",
     "failed", "invalid", "untimely", "illegal", "changed", "illegal again"}

TypeOK ==
    /\ phase \in Phases
    /\ \A i \in DOMAIN trace.callsFromEntryPoint :
         /\ trace.callsFromEntryPoint[i].topLevelMethodSig \in {MethodOf[e] : e \in Entities}
         /\ \A x \in trace.callsFromEntryPoint[i].contractSize : x.address \in Addresses
    /\ trace.keccak \subseteq Entities
    /\ written \subseteq Addresses \X Slot
    /\ referenced # Unknown => referenced.addresses \subseteq Addresses
    /\ accepted \subseteq Nat

\* The collector sees the contracts' code: v0.6 with the one written for it.
Seeing == op.version = "v0.7" \/ importedTracer = "V06"

\* What the parser cannot tell: GAS before CALLER, whose name contains CALL; and a
\* call into the entry point, or a context, once a contract has itself called a
\* function of the name that it looks for.
Indistinct == {"GasBeforeCaller"} \cup mistakable

\* An operation whose contracts broke a rule of validation is not let through,
\* whichever contract did it, however deep, and in which of the entities' turns.
RulesEnforced == phase = "hashing" => broken \subseteq Indistinct

\* One whose contracts kept to the rules is not refused because of its trace.
NoFalseAlarm ==
    phase \in {"illegal", "invalid"} =>
        broken \ {"GasBeforeCaller"} # {} \/ "EREP050" \in mistakable

\* The trace decides exactly: what breaks a rule is refused, and nothing else, but
\* for what the parser cannot tell.
VerdictExact == Seeing => RulesEnforced /\ NoFalseAlarm

\* What the storage map says of a place is what was there before the operation,
\* although entities write what later ones read: "slot value, just prior this
\* operation".
StorageMapTrue == phase = "hashing" => \A r \in storageMap(trace) : r.value = 0

\* On the chain the operation is valid from the time it was accepted, and by
\* safe mode from five seconds before it, until the margin is over: 30 seconds
\* in safe mode, 5 otherwise, when the times are looked at.
AcceptedInTime ==
    \A t \in accepted, w \in {window.account, window.paymaster} :
        /\ w.signed
        /\ mode = "safe" \/ op.version = "v0.7" \/ expirationCheck =>
            LET from == IF mode = "safe" THEN t - 5 ELSE t
                until == IF mode = "safe" THEN t + 30 ELSE t + 5
            IN  w.validAfter =< from /\ (w.validUntil # 0 => w.validUntil >= until)

\* When the hashes are compared, an operation that is accepted again has the code
\* that was hashed, in every contract that its entities ran or looked at, if the
\* node told the hashes.  Code that changes between that and the second trace is
\* not compared any more.
CodeChangeNoticed ==
    phase = "accepted again" /\ mode = "safe" /\ referenced.hash # Unknown =>
        (upgradedWhenCompared \ upgradedBefore) \cap ran = {}

\* "exit() is not called on top-level return/revent, so we reconstruct it from
\* opcode": the answer of a simulation that did not fail is found.
TopLevelReconstructed == phase # "invalid"
=============================================================================
