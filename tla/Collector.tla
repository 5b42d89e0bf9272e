------------------------------ MODULE Collector ------------------------------
(***************************************************************************)
(* The tracers of src/rpc/validation/BundlerCollectorTracerV06.ts and      *)
(* BundlerCollectorTracerV07.ts: what they keep of the calls and opcodes   *)
(* that the node shows them while it simulates a validation.               *)
(*                                                                         *)
(* The two differ in the depth at which they expect the entry point's own  *)
(* code.  An opcode comes with its operands: an address, a storage slot or *)
(* the entity that begins what is hashed.  Gas, logs and the data of calls *)
(* are left out, as are opcodes that no rule tells apart.                  *)
(***************************************************************************)
EXTENDS Naturals, SequencesExt

Calls == {"CALL", "CALLCODE", "DELEGATECALL", "STATICCALL"}
ExtCode == {"EXTCODESIZE", "EXTCODEHASH", "EXTCODECOPY"}

\* Opcodes that are not counted, by names that stand for their kind.
Unimportant == {"PUSH", "ISZERO"}

\* Opcodes whose name contains CALL.
NamedCall == Calls \cup {"CALLER"}

\* bundlerCollectorTracer().  thrown: a callback threw, and the node fails.
NoTrace ==
    [callsFromEntryPoint |-> <<>>, keccak |-> {}, calls |-> <<>>,
     lastOp |-> "", lastThreeOpcodes |-> <<>>, thrown |-> FALSE]

\* TopLevelCallInfo.  A read keeps the value that was found.
Level(methodSig) ==
    [topLevelMethodSig |-> methodSig, opcodes |-> EmptyBag, reads |-> {}, writes |-> {},
     contractSize |-> {}, extCodeAccessInfo |-> {}, oog |-> FALSE]

enter(c, frame) ==
    [c EXCEPT !.calls = Append(@, [type |-> frame.type, from |-> frame.from, to |-> frame.to,
                                   method |-> frame.method, value |-> frame.value])]

\* It is not called for the outermost frame.
exit(c, type, data) ==
    [c EXCEPT !.calls = Append(@, [type |-> type, data |-> data])]

-----------------------------------------------------------------------------

lastThree(c, s) ==
    LET all == Append(c.lastThreeOpcodes, [opcode |-> s.opcode, address |-> s.address])
    IN  IF Len(all) > 3 THEN Tail(all) ELSE all

\* [OP-051] The opcode before was an EXTCODE, and this is not the idiom that
\* asks whether an address has code.
withExtCodeAccess(level, recent) ==
    LET before == recent[Len(recent) - 1]
        hasCode == /\ Len(recent) = 3
                   /\ recent[2].opcode = "EXTCODESIZE"
                   /\ recent[3].opcode = "ISZERO"
    IN  IF Len(recent) > 1 /\ before.opcode \in ExtCode /\ ~ hasCode
        THEN [level EXCEPT !.extCodeAccessInfo = @ \cup {before.address}]
        ELSE level

\* Mutant: code that is run for the caller is not noted.
withCalleesSize(level, s) ==
    IF /\ s.opcode \in (Calls \cup ExtCode) \ {"DELEGATECALL"}
       /\ s.address # "precompile"
       /\ \A x \in level.contractSize : x.address # s.address
    THEN [level EXCEPT !.contractSize = @ \cup {[address |-> s.address, empty |-> ~ s.hasCode]}]
    ELSE level

\* [OP-041] An address is noted as it was when it was accessed first.
withContractSize(level, s) ==
    IF /\ s.opcode \in Calls \cup ExtCode
       /\ s.address # "precompile"
       /\ \A x \in level.contractSize : x.address # s.address
    THEN [level EXCEPT !.contractSize = @ \cup {[address |-> s.address, empty |-> ~ s.hasCode]}]
    ELSE level

\* Mutant: GAS counts whatever follows it.
withEveryOpcode(level, lastOp, s) ==
    LET counted == IF s.opcode \in Unimportant THEN {} ELSE {s.opcode}
    IN  [level EXCEPT !.opcodes = @ (+) SetToBag(counted)]

\* [OP-012] GAS counts once it is known that no call follows it.
withOpcode(level, lastOp, s) ==
    LET gas == IF lastOp = "GAS" /\ s.opcode \notin NamedCall THEN {"GAS"} ELSE {}
        counted == IF s.opcode \in Unimportant \cup {"GAS"} THEN {} ELSE {s.opcode}
    IN  [level EXCEPT !.opcodes = (@ (+) SetToBag(gas)) (+) SetToBag(counted)]

\* A value is read before it is written, or not at all.
withAccess(level, s) ==
    LET place == [address |-> s.owner, slot |-> s.slot]
        known == \/ place \in level.writes
                 \/ \E r \in level.reads : r.address = s.owner /\ r.slot = s.slot
    IN  CASE s.opcode = "SLOAD" ->
               IF known THEN level
               ELSE [level EXCEPT !.reads = @ \cup
                        {[address |-> s.owner, slot |-> s.slot, value |-> s.value]}]
          [] s.opcode = "SSTORE" -> [level EXCEPT !.writes = @ \cup {place}]
          [] OTHER -> level

\* An opcode of the entry point's own code: a call starts a level.
topLevel(c, s) ==
    [c EXCEPT !.lastOp = "",
              !.callsFromEntryPoint = IF s.opcode \in {"CALL", "STATICCALL"}
                                      THEN Append(@, Level(s.method)) ELSE @]

\* An opcode of the contracts that the entry point called.
belowTop(c, s, recent) ==
    LET n == Len(c.callsFromEntryPoint)
        level == c.callsFromEntryPoint[n]
        sized == withContractSize(withExtCodeAccess(level, recent), s)
    IN  [c EXCEPT !.lastOp = s.opcode,
                  !.keccak = IF s.opcode = "KECCAK256" /\ s.short THEN @ \cup {s.address} ELSE @,
                  !.callsFromEntryPoint[n] = withAccess(withOpcode(sized, c.lastOp, s), s)]

\* The current level is undefined before the first one.
needsLevel(top, s) ==
    s.oog \/ (s.depth > top /\ s.opcode \notin Unimportant \cup {"GAS"})

Returning == {"RETURN", "REVERT"}

\* step() with the entry point at depth top.  Returning forgets the last opcodes.
stepFrom(top, c, s) ==
    LET n == Len(c.callsFromEntryPoint)
        recent == IF s.opcode \in Returning THEN <<>> ELSE lastThree(c, s)
        noted == [c EXCEPT
            !.lastThreeOpcodes = recent,
            !.callsFromEntryPoint = IF s.oog THEN [@ EXCEPT ![n].oog = TRUE] ELSE @,
            !.calls = IF s.depth = top /\ s.opcode \in Returning
                      THEN Append(@, [type |-> s.opcode, data |-> s.data]) ELSE @]
    IN  IF s.depth < top \/ c.thrown THEN c
        ELSE IF n = 0 /\ needsLevel(top, s) THEN [c EXCEPT !.thrown = TRUE]
        ELSE IF s.depth = top THEN topLevel(noted, s)
        ELSE IF n = 0 THEN [noted EXCEPT !.lastOp = s.opcode]
        ELSE belowTop(noted, s, recent)

\* The two collectors.
stepV06(c, s) == stepFrom(1, c, s)
stepV07(c, s) == stepFrom(3, c, s)
=============================================================================
