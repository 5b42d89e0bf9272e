--------------------------- MODULE MempoolProofs ---------------------------
(***************************************************************************)
(* For any operations, limits and number of calls of bundle() at a time.   *)
(*                                                                         *)
(* The variables keep their types, no operation is outstanding twice, or   *)
(* while it is being processed or submitted; where a sender's operations   *)
(* agree about deploying it no rivals are outstanding together, and an     *)
(* add() with a rival of its nonce key that is refused removes nothing.    *)
(*                                                                         *)
(* What process() hands to a bundle has one entry point, fits its gas and  *)
(* asks no paymaster for more than its deposit; neighbours of one sender   *)
(* go in the order of their nonces.                                        *)
(*                                                                         *)
(* With one call of bundle() at a time every operation is in one store,    *)
(* once.  However many calls there are, what they, the bundles handed to   *)
(* the executor and the loops over results hold of an operation is in the  *)
(* processing store: as many copies, unless something throws.  Hence the   *)
(* status of a submitted operation stays, and no operation is in two       *)
(* transactions that the monitor follows, unless it was sent again while   *)
(* one was replaced after AA95.                                            *)
(***************************************************************************)
EXTENDS Mempool, OutstandingProofs

\* A run that is about an operation still has it at the head of its list, and
\* it reads a deposit only for a paymaster.
RunsInv ==
    \A r \in Runners :
        /\ run[r].pc \in {"validating", "reading", "decided"} => run[r].rest # <<>>
        /\ run[r].pc = "reading" => userOp[Head(run[r].rest)].paymaster # NoEntity

IInv == TypeOK /\ RunsInv /\ StoresDisjoint

-----------------------------------------------------------------------------
(* Constants.                                                              *)

LEMMA FieldTypes ==
    ASSUME NEW o \in Ops
    PROVE  /\ Sender(o) \in Senders
           /\ userOp[o].entryPoint \in EntryPoints
           /\ userOp[o].gas \in Nat /\ userOp[o].prefund \in Nat
           /\ userOp[o].paymaster \in Entities \cup {NoEntity}
           /\ userOp[o].factory \in Entities \cup {NoEntity}
           /\ EntitiesOf(o) \subseteq Entities
BY OpsAssumption DEF Sender, Senders, EntryPoints, Entities, Field, EntitiesOf

LEMMA NewRunType == NewRun \in RunType
<1>1. <<>> \in Seq(Ops) /\ <<>> \in Seq(Seq(Ops))
  OBVIOUS
<1> QED BY <1>1 DEF NewRun, RunType, Unread

-----------------------------------------------------------------------------
(* The stores.                                                             *)

LEMMA AddKeeps ==
    ASSUME NEW o \in Ops, NEW out \in Seq(Ops), NEW busy
    PROVE  /\ OutstandingAfterAdd(o, out, busy) \in Seq(Ops)
           /\ IsInjective(out) /\ ToSet(out) \cap busy = {} =>
                /\ IsInjective(OutstandingAfterAdd(o, out, busy))
                /\ ToSet(OutstandingAfterAdd(o, out, busy)) \cap busy = {}
<1> DEFINE rem == Remaining(o, out)
<1>1. /\ rem \in Seq(Ops) /\ ToSet(rem) \subseteq ToSet(out)
      /\ IsInjective(out) => IsInjective(rem)
  BY RemoveFirstProperties DEF Remaining
<1>2. Replaceable(o, out, busy) => o \notin ToSet(out) \cup busy
  BY DEF Replaceable
<1> HIDE DEF rem
<1>3. /\ Append(rem, o) \in Seq(Ops)
      /\ ToSet(Append(rem, o)) = ToSet(rem) \cup {o}
      /\ IsInjective(rem) /\ o \notin ToSet(rem) => IsInjective(Append(rem, o))
  BY <1>1, AppendElements
<1> QED BY <1>1, <1>2, <1>3 DEF OutstandingAfterAdd, rem

LEMMA StatusKept ==
    ASSUME TypeOK, NEW o \in Ops, NEW out, NEW busy
    PROVE  StatusAfterAdd(o, out, busy) \in [Ops -> Statuses]
BY DEF TypeOK, StatusAfterAdd, Statuses

LEMMA SubmittedElements ==
    ASSUME NEW s \in Seq(Entry)
    PROVE  SubmittedOps(s) = {e.op : e \in ToSet(s)}
BY SequenceElements DEF SubmittedOps

LEMMA RemoveSubmitted ==
    ASSUME submitted \in Seq(Entry), NEW o
    PROVE  /\ removeSubmitted(o) \in Seq(Entry)
           /\ SubmittedOps(removeSubmitted(o)) \subseteq SubmittedOps(submitted)
<1> DEFINE I == {i \in 1..Len(submitted) : submitted[i].op = o}
           k == Min(I)
<1>1. CASE I = {}
  BY <1>1 DEF removeSubmitted, RemoveFirstMatch
<1>2. CASE I # {}
  <2>1. k \in I
    <3>1. I \in SUBSET Nat
      OBVIOUS
    <3> HIDE DEF I
    <3> QED BY <1>2, <3>1, FirstPosition
  <2>2. removeSubmitted(o) = RemoveAt(submitted, k)
    BY <1>2 DEF removeSubmitted, RemoveFirstMatch, SelectInSeq
  <2>3. k \in 1..Len(submitted)
    BY <2>1
  <2> HIDE DEF k
  <2>4. /\ removeSubmitted(o) \in Seq(Entry)
        /\ ToSet(removeSubmitted(o)) \subseteq ToSet(submitted)
    BY <2>2, <2>3, RemoveAtProperties, RemoveAtElements
  <2> QED BY <2>4, SubmittedElements
<1> QED BY <1>1, <1>2

LEMMA AppendSubmitted ==
    ASSUME NEW s \in Seq(Entry), NEW e \in Entry
    PROVE  /\ Append(s, e) \in Seq(Entry)
           /\ SubmittedOps(Append(s, e)) = SubmittedOps(s) \cup {e.op}
<1>1. Append(s, e) \in Seq(Entry) /\ ToSet(Append(s, e)) = ToSet(s) \cup {e}
  BY AppendElements
<1> QED BY <1>1, SubmittedElements

-----------------------------------------------------------------------------
(* process().                                                              *)

LEMMA IterateType ==
    ASSUME NEW s \in RunType
    PROVE  /\ Iterate(s) \in RunType
           /\ Iterate(s).pc \in {"validating", "decided", "returned"}
           /\ Iterate(s).rest = s.rest
           /\ Iterate(s).pc # "returned" => s.rest # <<>>
<1>1. CASE LoopEnds(s)
  BY <1>1 DEF Iterate, RunType
<1>2. CASE ~ LoopEnds(s)
  <2>1. s.rest # <<>> /\ s.rest \in Seq(Ops)
    BY <1>2 DEF LoopEnds, RunType
  <2>2. Head(s.rest) \in Ops
    BY <2>1, HeadTailProperties
  <2>3. s.gasUsed + userOp[Head(s.rest)].gas \in Nat
    BY <2>2, FieldTypes DEF RunType
  <2> QED BY <1>2, <2>1, <2>3, MempoolAssumption DEF Iterate, RunType
<1> QED BY <1>1, <1>2

\* What a step of process() does to run r and to the outstanding store.
LEMMA ContinueKeeps ==
    ASSUME TypeOK, RunsInv, NEW r \in Runners, NEW s \in RunType,
           NEW out \in Seq(Ops), Continue(r, s, out)
    PROVE  /\ run' \in [Runners -> RunType]
           /\ RunsInv'
           /\ outstanding' \in Seq(Ops)
           /\ ToSet(outstanding') \subseteq ToSet(out)
           /\ IsInjective(out) => IsInjective(outstanding')
<1>1. run' = [run EXCEPT ![r] = Iterate(s)]
  BY DEF Continue
<1>2. run' \in [Runners -> RunType]
  BY <1>1, IterateType DEF TypeOK
<1>3. RunsInv'
  <2> SUFFICES ASSUME NEW q \in Runners
               PROVE  /\ run'[q].pc \in {"validating", "reading", "decided"} =>
                             run'[q].rest # <<>>
                      /\ run'[q].pc = "reading" =>
                             userOp[Head(run'[q].rest)].paymaster # NoEntity
    BY DEF RunsInv
  <2>1. CASE q = r
    <3>1. run'[q] = Iterate(s)
      BY <1>1, <2>1 DEF TypeOK
    <3> QED BY <3>1, IterateType
  <2>2. CASE q # r
    BY <1>1, <2>2 DEF RunsInv, TypeOK
  <2> QED BY <2>1, <2>2
<1>4. outstanding' = out \/ \E e : outstanding' = RemoveFirst(out, e)
  BY DEF Continue, OutstandingAfterScreen
<1>5. /\ outstanding' \in Seq(Ops)
      /\ ToSet(outstanding') \subseteq ToSet(out)
      /\ IsInjective(out) => IsInjective(outstanding')
  BY <1>4, RemoveFirstProperties
<1> QED BY <1>2, <1>3, <1>5

LEMMA StartedType ==
    ASSUME TypeOK, NEW now \in BOOLEAN,
           NEW bundles \in Seq(Seq(Ops))
    PROVE  Started(now, bundles) \in RunType
<1>1. {Sender(o) : o \in ToSet(outstanding)} \subseteq Senders
  BY FieldTypes, SequenceElements DEF TypeOK
<1>2. V8Sort(outstanding) \in Seq(Ops)
  BY SortProperties DEF TypeOK, Ordered
<1> QED BY <1>1, <1>2, NewRunType DEF Started, RunType

\* The head of a run's list.
LEMMA CurrentOp ==
    ASSUME TypeOK, RunsInv, NEW r \in Runners,
           run[r].pc \in {"validating", "reading", "decided"}
    PROVE  /\ run[r] \in RunType
           /\ run[r].rest \in Seq(Ops) /\ run[r].rest # <<>>
           /\ Head(run[r].rest) \in Ops
           /\ Tail(run[r].rest) \in Seq(Ops)
<1>1. run[r] \in RunType /\ run[r].rest \in Seq(Ops) /\ run[r].rest # <<>>
  BY DEF TypeOK, RunsInv, RunType
<1> QED BY <1>1, HeadTailProperties

LEMMA SettleType ==
    ASSUME NEW s \in RunType, s.rest # <<>>, NEW deposit \in Nat
    PROVE  /\ Settle(s, deposit) \in RunType
           /\ Settle(s, deposit).pc = "decided"
           /\ Settle(s, deposit).rest = s.rest
<1> DEFINE o == Head(s.rest)
           p == userOp[o].paymaster
<1>1. s.rest \in Seq(Ops)
  BY DEF RunType
<1>2. o \in Ops
  BY <1>1, HeadTailProperties
<1>3. userOp[o].prefund \in Nat /\ p \in Entities \cup {NoEntity} /\ Sender(o) \in Senders
  BY <1>2, FieldTypes
<1>4. s.paymasterDeposit \in [Entities -> Nat \cup {Unread}]
      /\ s.stakedEntityCount \in [Entities -> Nat]
  BY DEF RunType
<1> HIDE DEF o
<1>5. CASE p # NoEntity /\ deposit < userOp[o].prefund
  <2>1. Deposit(s.paymasterDeposit, p, deposit) \in [Entities -> Nat \cup {Unread}]
    BY <1>4 DEF Deposit
  <2>2. Settle(s, deposit) =
            [s EXCEPT !.pc = "decided", !.skip = TRUE,
                      !.paymasterDeposit = Deposit(@, p, deposit)]
    BY <1>5 DEF Settle, o
  <2> QED BY <2>1, <2>2 DEF RunType
<1>6. CASE ~ (p # NoEntity /\ deposit < userOp[o].prefund)
  <2> DEFINE deposits == Deposit(s.paymasterDeposit, p, deposit - userOp[o].prefund)
             counts == [e \in Entities |->
                           s.stakedEntityCount[e] + (IF e = p THEN 1 ELSE 0)
                               + (IF e = userOp[o].factory THEN 1 ELSE 0)]
             senders == s.senders \cup {Sender(o)}
  <2>1. deposits \in [Entities -> Nat \cup {Unread}]
    <3>1. CASE p = NoEntity
      BY <1>4, <3>1 DEF Deposit, Entities
    <3>2. CASE deposit >= userOp[o].prefund
      <4>1. deposit - userOp[o].prefund \in Nat
        BY <1>3, <3>2
      <4> QED BY <1>4, <4>1 DEF Deposit
    <3> QED BY <1>3, <1>6, <3>1, <3>2
  <2>2. counts \in [Entities -> Nat]
    BY <1>4
  <2>3. senders \subseteq Senders
    BY <1>3 DEF RunType
  <2>4. Settle(s, deposit) =
            [s EXCEPT !.pc = "decided", !.skip = FALSE,
                      !.paymasterDeposit = deposits,
                      !.stakedEntityCount = counts, !.senders = senders]
    BY <1>6 DEF Settle, Counted, o
  <2> HIDE DEF deposits, counts, senders
  <2> QED BY <2>1, <2>2, <2>3, <2>4 DEF RunType
<1> QED BY <1>5, <1>6

\* Once a run has continued, only the stores it has not written are left.
LEMMA AfterContinue ==
    ASSUME IInv, NEW r \in Runners, NEW s \in RunType, NEW out \in Seq(Ops),
           Continue(r, s, out),
           IsInjective(out), ToSet(out) \cap Busy(processing', submitted) = {},
           processing' \in Seq(Ops),
           UNCHANGED <<submitted, status, reputation, sending, todo, blockVars>>
    PROVE  IInv'
<1>1. /\ run' \in [Runners -> RunType] /\ RunsInv'
      /\ outstanding' \in Seq(Ops) /\ ToSet(outstanding') \subseteq ToSet(out)
      /\ IsInjective(outstanding')
  BY ContinueKeeps DEF IInv
<1>2. TypeOK'
  BY <1>1 DEF IInv, TypeOK, blockVars, aa95Vars
<1>3. Busy(processing, submitted)' = Busy(processing', submitted)
  BY DEF Busy
<1>4. StoresDisjoint'
  BY <1>1, <1>3 DEF StoresDisjoint
<1> QED BY <1>1, <1>2, <1>4 DEF IInv

\* Steps that only decide about the current operation, or send the bundles.
LEMMA AfterDecision ==
    ASSUME IInv, NEW r \in Runners, NEW s \in RunType,
           s.pc \in {"validating", "reading", "decided"} => s.rest # <<>>,
           s.pc = "reading" => userOp[Head(s.rest)].paymaster # NoEntity,
           run' = [run EXCEPT ![r] = s],
           outstanding' \in Seq(Ops), IsInjective(outstanding'),
           ToSet(outstanding') \subseteq ToSet(outstanding),
           sending' \in Seq(Bundle),
           UNCHANGED <<processing, submitted, status, reputation, todo, blockVars>>
    PROVE  IInv'
<1>1. TypeOK'
  BY DEF IInv, TypeOK, blockVars, aa95Vars
<1>2. RunsInv'
  <2> SUFFICES ASSUME NEW q \in Runners
               PROVE  /\ run'[q].pc \in {"validating", "reading", "decided"} =>
                             run'[q].rest # <<>>
                      /\ run'[q].pc = "reading" =>
                             userOp[Head(run'[q].rest)].paymaster # NoEntity
    BY DEF RunsInv
  <2>1. CASE q = r
    BY <2>1 DEF IInv, TypeOK
  <2>2. CASE q # r
    BY <2>2 DEF IInv, RunsInv, TypeOK
  <2> QED BY <2>1, <2>2
<1>3. Busy(processing, submitted)' = Busy(processing, submitted)
  BY DEF Busy
<1>4. StoresDisjoint'
  BY <1>3 DEF IInv, StoresDisjoint
<1> QED BY <1>1, <1>2, <1>4 DEF IInv

LEMMA ProcessKeeps ==
    ASSUME IInv, NEW r \in Runners, bundle(r) \/ Process(r)
    PROVE  IInv'
<1> USE DEF IInv
<1>0. /\ outstanding \in Seq(Ops) /\ processing \in Seq(Ops) /\ sending \in Seq(Bundle)
      /\ run[r] \in RunType
      /\ IsInjective(outstanding)
      /\ ToSet(outstanding) \cap Busy(processing, submitted) = {}
  BY DEF TypeOK, StoresDisjoint
<1>1. CASE bundle(r)
  <2>1. PICK now \in BOOLEAN : Continue(r, Started(now, <<>>), outstanding)
    BY <1>1 DEF bundle
  <2>2. Started(now, <<>>) \in RunType
    <3>1. <<>> \in Seq(Seq(Ops))
      OBVIOUS
    <3> QED BY <3>1, StartedType
  <2>3. UNCHANGED <<processing, submitted, status, reputation, sending, todo, blockVars>>
    BY <1>1 DEF bundle
  <2> QED BY <1>0, <2>1, <2>2, <2>3, AfterContinue
<1>2. CASE ValidationFailed(r)
  <2>1. [run[r] EXCEPT !.pc = "decided"] \in RunType
    BY <1>0 DEF RunType
  <2>2. run[r].rest # <<>>
    BY <1>2 DEF ValidationFailed, RunsInv
  <2>3. run' = [run EXCEPT ![r] = [run[r] EXCEPT !.pc = "decided"]]
    BY <1>2 DEF ValidationFailed, TypeOK
  <2>4. /\ outstanding' \in Seq(Ops) /\ IsInjective(outstanding')
        /\ ToSet(outstanding') \subseteq ToSet(outstanding)
    BY <1>0, <1>2, RemoveFirstProperties DEF ValidationFailed
  <2>5. UNCHANGED <<processing, submitted, status, reputation, sending, todo, blockVars>>
    BY <1>2 DEF ValidationFailed
  <2> DEFINE t == [run[r] EXCEPT !.pc = "decided"]
  <2>6. t.rest # <<>> /\ t.pc = "decided"
    BY <1>0, <2>2 DEF RunType
  <2> HIDE DEF t
  <2> QED BY <1>0, <2>1, <2>3, <2>4, <2>5, <2>6, AfterDecision DEF t
<1>3. CASE StorageClash(r)
  <2> DEFINE t == [run[r] EXCEPT !.pc = "decided"]
  <2>1. /\ t \in RunType /\ t.pc = "decided" /\ t.rest # <<>>
        /\ run' = [run EXCEPT ![r] = t]
    BY <1>0, <1>3 DEF StorageClash, RunsInv, RunType
  <2>2. UNCHANGED <<outstanding, processing, submitted, status, reputation,
                    sending, todo, blockVars>>
    BY <1>3 DEF StorageClash
  <2> HIDE DEF t
  <2> QED BY <1>0, <2>1, <2>2, AfterDecision
<1>4. CASE ValidationPassed(r)
  <2> DEFINE p == userOp[Head(run[r].rest)].paymaster
  <2>1. /\ run[r].rest # <<>> /\ Head(run[r].rest) \in Ops
        /\ p \in Entities \cup {NoEntity}
    BY <1>4, CurrentOp, FieldTypes DEF ValidationPassed
  <2>2. UNCHANGED <<outstanding, processing, submitted, status, reputation,
                    sending, todo, blockVars>>
    BY <1>4 DEF ValidationPassed
  <2>3. CASE p = NoEntity
    <3>1. run' = [run EXCEPT ![r] = Settle(run[r], 0)]
      BY <1>4, <2>3 DEF ValidationPassed, TypeOK
    <3> QED BY <1>0, <2>1, <2>2, <3>1, SettleType, AfterDecision
  <2>4. CASE p # NoEntity /\ run[r].paymasterDeposit[p] = Unread
    <3> DEFINE t == [run[r] EXCEPT !.pc = "reading"]
    <3>1. t \in RunType /\ t.pc = "reading" /\ t.rest = run[r].rest
      BY <1>0 DEF RunType
    <3>2. run' = [run EXCEPT ![r] = t]
      BY <1>4, <2>4 DEF ValidationPassed, TypeOK
    <3> HIDE DEF t
    <3> QED BY <1>0, <2>1, <2>2, <2>4, <3>1, <3>2, AfterDecision
  <2>5. CASE p # NoEntity /\ run[r].paymasterDeposit[p] # Unread
    <3>1. run' = [run EXCEPT ![r] = Settle(run[r], run[r].paymasterDeposit[p])]
      BY <1>4, <2>5 DEF ValidationPassed, TypeOK
    <3>2. run[r].paymasterDeposit[p] \in Nat
      BY <1>0, <2>1, <2>5 DEF RunType
    <3> QED BY <1>0, <2>1, <2>2, <3>1, <3>2, SettleType, AfterDecision
  <2> QED BY <2>3, <2>4, <2>5
<1>5. CASE BalanceRead(r)
  <2> DEFINE p == userOp[Head(run[r].rest)].paymaster
  <2>1. run[r].rest # <<>> /\ p \in Entities
    BY <1>5, CurrentOp, FieldTypes DEF BalanceRead, RunsInv
  <2>2. balanceOf[p] \in Nat
    BY <2>1, MempoolAssumption
  <2>3. run' = [run EXCEPT ![r] = Settle(run[r], balanceOf[p])]
    BY <1>5 DEF BalanceRead, TypeOK
  <2>4. UNCHANGED <<outstanding, processing, submitted, status, reputation,
                    sending, todo, blockVars>>
    BY <1>5 DEF BalanceRead
  <2> HIDE DEF p
  <2> QED BY <1>0, <2>1, <2>2, <2>3, <2>4, SettleType, AfterDecision
<1>6. CASE Skip(r)
  <2> DEFINE t == [run[r] EXCEPT !.rest = Tail(@)]
  <2>1. Tail(run[r].rest) \in Seq(Ops)
    BY <1>6, CurrentOp DEF Skip
  <2>2. t \in RunType
    BY <1>0, <2>1 DEF RunType
  <2>3. Continue(r, t, outstanding)
    BY <1>6 DEF Skip
  <2>4. UNCHANGED <<processing, submitted, status, reputation, sending, todo, blockVars>>
    BY <1>6 DEF Skip
  <2> HIDE DEF t
  <2> QED BY <1>0, <2>2, <2>3, <2>4, AfterContinue
<1>7. CASE Take(r)
  <2> DEFINE o == Head(run[r].rest)
             t == [run[r] EXCEPT !.rest = Tail(@), !.result = Append(@, o)]
             out == RemoveFirst(outstanding, o)
  <2>1. Tail(run[r].rest) \in Seq(Ops) /\ o \in Ops
    BY <1>7, CurrentOp DEF Take
  <2>2. Append(run[r].result, o) \in Seq(Ops)
    BY <1>0, <2>1 DEF RunType
  <2>3. t \in RunType
    BY <1>0, <2>1, <2>2 DEF RunType
  <2>4. Continue(r, t, out) /\ processing' = Append(processing, o)
    BY <1>7 DEF Take
  <2>5. UNCHANGED <<submitted, status, reputation, sending, todo, blockVars>>
    BY <1>7 DEF Take
  <2> HIDE DEF t, o
  <2>6. /\ out \in Seq(Ops) /\ IsInjective(out)
        /\ ToSet(out) = ToSet(outstanding) \ {o}
    BY <1>0, RemoveFirstProperties
  <2>7. processing' \in Seq(Ops) /\ ToSet(processing') = ToSet(processing) \cup {o}
    BY <1>0, <2>1, <2>4, AppendElements
  <2>8. ToSet(out) \cap Busy(processing', submitted) = {}
    BY <1>0, <2>6, <2>7 DEF Busy
  <2> HIDE DEF out
  <2> QED BY <2>3, <2>4, <2>5, <2>6, <2>7, <2>8, AfterContinue
<1>8. CASE ProcessAgain(r)
  <2> DEFINE b == Append(run[r].bundles, run[r].result)
  <2>1. b \in Seq(Seq(Ops))
    BY <1>0 DEF RunType
  <2>2. Continue(r, Started(FALSE, b), outstanding)
    BY <1>8 DEF ProcessAgain
  <2>3. UNCHANGED <<processing, submitted, status, reputation, sending, todo, blockVars>>
    BY <1>8 DEF ProcessAgain
  <2> HIDE DEF b
  <2>4. Started(FALSE, b) \in RunType
    BY <2>1, <2>2, StartedType
  <2> QED BY <1>0, <2>2, <2>3, <2>4, AfterContinue
<1>9. CASE SendBundles(r)
  <2> DEFINE bs == ToBundle(run[r])
             new == [i \in DOMAIN bs |-> Handed(bs[i])]
  <2>1. bs \in Seq(Seq(Ops))
    BY <1>0 DEF ToBundle, RunType
  <2>2. ASSUME NEW b \in Seq(Ops) PROVE Handed(b) \in Bundle
    <3>1. {userOp[o].entryPoint : o \in ToSet(b)} \subseteq EntryPoints
      BY SequenceElements, FieldTypes
    <3> QED BY <3>1 DEF Handed, Bundle
  <2>3. sending' = sending \o new
    BY <1>9 DEF SendBundles
  <2> HIDE DEF bs
  <2>4. new \in Seq(Bundle)
    BY <2>1, <2>2
  <2> HIDE DEF new
  <2>5. sending' \in Seq(Bundle)
    BY <1>0, <2>3, <2>4
  <2>6. NewRun.pc = "idle"
    BY DEF NewRun
  <2>7. run' = [run EXCEPT ![r] = NewRun]
        /\ UNCHANGED <<outstanding, processing, submitted, status, reputation,
                       todo, blockVars>>
    BY <1>9 DEF SendBundles
  <2> QED BY <1>0, <2>5, <2>6, <2>7, NewRunType, AfterDecision
<1>10. CASE BalanceThrows(r)
  <2>1. NewRun.pc = "idle"
    BY DEF NewRun
  <2>2. run' = [run EXCEPT ![r] = NewRun]
        /\ UNCHANGED <<outstanding, processing, submitted, status, reputation,
                       sending, todo, blockVars>>
    BY <1>10 DEF BalanceThrows
  <2> QED BY <1>0, <2>1, <2>2, NewRunType, AfterDecision
<1> QED BY <1>1, <1>2, <1>3, <1>4, <1>5, <1>6, <1>7, <1>8, <1>9, <1>10 DEF Process

-----------------------------------------------------------------------------
(* The executor's answers and the loops over their results.                *)

\* A step that changes neither the stores, nor a run, nor a status.
LEMMA AfterQuietStep ==
    ASSUME IInv, UNCHANGED <<stores, status, reputation, run>>,
           sending' \in Seq(Bundle), todo' \in Seq(Task),
           phase' \in {"idle", "refresh", "gas_price", "stuck"},
           polled' \in SUBSET Seq(Ops), stalled' \in BOOLEAN,
           watching' \in SUBSET Ops,
           resending' \in SUBSET Seq(Ops), overtaken' \in SUBSET Ops
    PROVE  IInv'
<1>1. TypeOK'
  BY DEF IInv, TypeOK, stores
<1>2. RunsInv' /\ StoresDisjoint'
  BY DEF IInv, RunsInv, StoresDisjoint, Busy, SubmittedOps, stores
<1> QED BY <1>1, <1>2 DEF IInv

Kinds == {"success", "failure", "resubmit", "none", "underpriced", "included",
          "reverted", "dropped", "replaced"}

LEMMA BundleType ==
    ASSUME IInv, NEW i \in DOMAIN sending
    PROVE  /\ sending \in Seq(Bundle) /\ i \in 1..Len(sending)
           /\ sending[i] \in Bundle
           /\ sending[i].ops \in Seq(Ops) /\ sending[i].left \subseteq EntryPoints
<1>1. sending \in Seq(Bundle)
  BY DEF IInv, TypeOK
<1>2. i \in 1..Len(sending) /\ sending[i] \in Bundle
  BY <1>1
<1> QED BY <1>1, <1>2 DEF Bundle

LEMMA AnswerKeeps ==
    ASSUME IInv, NEW i \in DOMAIN sending, NEW ep,
           NEW kindOf, \A k \in DOMAIN sending[i].ops : kindOf[k] \in Kinds,
           NEW tx \in Seq(Ops), Answer(i, ep, kindOf, tx)
    PROVE  IInv'
<1>1. /\ sending \in Seq(Bundle) /\ i \in 1..Len(sending) /\ sending[i] \in Bundle
      /\ sending[i].ops \in Seq(Ops) /\ sending[i].left \subseteq EntryPoints
  BY BundleType
<1>2. \A k \in DOMAIN sending[i].ops : sending[i].ops[k] \in Ops
  BY <1>1
<1> DEFINE ops == sending[i].ops
           task == [k \in DOMAIN ops |->
                       [kind |-> IF k \in Ours(sending[i], ep) THEN kindOf[k]
                                 ELSE "none",
                        op |-> ops[k], tx |-> tx]]
<1>3. \A k \in DOMAIN ops : task[k] \in Task
  BY <1>2 DEF Task, Kinds
<1>4. task \in Seq(Task)
  <2>1. DOMAIN ops = 1..Len(ops) /\ Len(ops) \in Nat
    BY <1>1
  <2> HIDE DEF ops
  <2>2. task \in [1..Len(ops) -> Task]
    BY <1>3, <2>1
  <2> HIDE DEF task
  <2> QED BY <2>1, <2>2
<1>5. todo' = task
  BY DEF Answer
<1>6. sending' \in Seq(Bundle)
  <2>1. RemoveAt(sending, i) \in Seq(Bundle)
    BY <1>1, RemoveAtProperties
  <2>2. [sending EXCEPT ![i].left = @ \ {ep}] \in Seq(Bundle)
    <3>1. [sending[i] EXCEPT !.left = @ \ {ep}] \in Bundle
      BY <1>1 DEF Bundle
    <3> QED BY <1>1, <3>1
  <2> QED BY <2>1, <2>2 DEF Answer
<1> HIDE DEF task
<1> QED BY <1>4, <1>5, <1>6, AfterQuietStep
        DEF Answer, IInv, TypeOK, blockVars, aa95Vars, stores

LEMMA SelectionType ==
    ASSUME NEW s \in Seq(Ops), NEW P \in SUBSET (DOMAIN s), NEW n \in Nat,
           NEW f \in Selections(P, n)
    PROVE  [j \in 1..n |-> s[f[j]]] \in Seq(Ops)
<1>1. f \in [1..n -> P]
  BY DEF Selections
<1>2. [j \in 1..n |-> s[f[j]]] \in [1..n -> Ops]
  BY <1>1
<1> QED BY <1>2

LEMMA SendKeeps ==
    ASSUME IInv, NEW i \in DOMAIN sending, NEW ep, SendToExecutor(i, ep)
    PROVE  IInv'
<1> DEFINE ops == sending[i].ops
           P == Ours(sending[i], ep)
<1>0. /\ ops \in Seq(Ops) /\ P \in SUBSET (DOMAIN ops) /\ <<>> \in Seq(Ops)
      /\ DOMAIN ops = 1..Len(ops) /\ Len(ops) \in Nat
  <2>1. ops \in Seq(Ops)
    BY BundleType
  <2> HIDE DEF ops
  <2>2. P \in SUBSET (DOMAIN ops)
    BY DEF Ours, ops
  <2> QED BY <2>1, <2>2
<1>1. CASE ParametersFailed(i, ep)
  BY <1>0, <1>1, AnswerKeeps DEF ParametersFailed, Kinds
<1>2. CASE AllFailed(i, ep)
  BY <1>0, <1>2, AnswerKeeps DEF AllFailed, Kinds
<1>3. CASE Submitted(i, ep)
  <2>0. PICK n \in 1..Len(ops) : \E f \in Selections(P, n) :
            Answer(i, ep,
                   [k \in DOMAIN ops |->
                       IF \E j \in 1..n : f[j] = k THEN "success" ELSE "failure"],
                   [j \in 1..n |-> ops[f[j]]])
    BY <1>3 DEF Submitted
  <2>1. PICK f \in Selections(P, n) :
            Answer(i, ep,
                   [k \in DOMAIN ops |->
                       IF \E j \in 1..n : f[j] = k THEN "success" ELSE "failure"],
                   [j \in 1..n |-> ops[f[j]]])
    BY <2>0
  <2>2. [j \in 1..n |-> ops[f[j]]] \in Seq(Ops)
    <3>1. n \in Nat
      BY <1>0
    <3> HIDE DEF ops, P
    <3> QED BY <1>0, <2>1, <3>1, SelectionType
  <2> DEFINE kinds == [k \in DOMAIN ops |->
                       IF \E j \in 1..n : f[j] = k THEN "success" ELSE "failure"]
             tx == [j \in 1..n |-> ops[f[j]]]
  <2>3. \A k \in DOMAIN ops : kinds[k] \in Kinds
    BY DEF Kinds
  <2>4. Answer(i, ep, kinds, tx)
    BY <2>1
  <2> HIDE DEF kinds, tx
  <2> QED BY <2>2, <2>3, <2>4, AnswerKeeps DEF tx
<1>4. CASE InsufficientFunds(i, ep)
  <2>0. PICK n \in 1..Len(ops) : \E f \in Selections(P, n) :
            Answer(i, ep,
                   [k \in DOMAIN ops |->
                       IF \E j \in 1..n : f[j] = k THEN "resubmit" ELSE "none"],
                   <<>>)
    BY <1>4 DEF InsufficientFunds
  <2>1. PICK f \in Selections(P, n) :
            Answer(i, ep,
                   [k \in DOMAIN ops |->
                       IF \E j \in 1..n : f[j] = k THEN "resubmit" ELSE "none"],
                   <<>>)
    BY <2>0
  <2> QED BY <1>0, <2>1, AnswerKeeps DEF Kinds
<1>5. CASE BundleThrows(i, ep)
  BY <1>0, <1>5, AnswerKeeps DEF BundleThrows, Kinds
<1> QED BY <1>1, <1>2, <1>3, <1>4, <1>5 DEF SendToExecutor

LEMMA LoopKeeps ==
    ASSUME IInv, Loop
    PROVE  IInv'
<1> DEFINE t == Head(todo)
<1>0. /\ todo # <<>> /\ todo' = Tail(todo)
  BY DEF Loop, Iteration, NoResult, markSubmitted, Reject, Resubmit,
         ResubmitConflicting, Included, Reverted, Dropped, replaceSubmitted
<1>1. t \in Task /\ todo' \in Seq(Task) /\ t.op \in Ops /\ t.tx \in Seq(Ops)
  <2>1. t \in Task /\ todo' \in Seq(Task)
    BY <1>0, HeadTailProperties DEF IInv, TypeOK
  <2> QED BY <2>1 DEF Task
<1> DEFINE o == t.op
           entry == [op |-> o, tx |-> t.tx]
<1>2. entry \in Entry /\ entry.op = o
  BY <1>1 DEF Entry
<1>3. /\ outstanding \in Seq(Ops) /\ processing \in Seq(Ops) /\ submitted \in Seq(Entry)
      /\ status \in [Ops -> Statuses]
      /\ IsInjective(outstanding)
      /\ ToSet(outstanding) \cap Busy(processing, submitted) = {}
  BY DEF IInv, TypeOK, StoresDisjoint
<1>4. /\ RemoveFirst(processing, o) \in Seq(Ops)
      /\ ToSet(RemoveFirst(processing, o)) \subseteq ToSet(processing)
      /\ removeSubmitted(o) \in Seq(Entry)
      /\ SubmittedOps(removeSubmitted(o)) \subseteq SubmittedOps(submitted)
  BY <1>3, RemoveFirstProperties, RemoveSubmitted
<1> HIDE DEF t

\* What is enough: the other stores only lose operations of the two, and the
\* outstanding store is the old one, or what add() makes of it.
<1>5. SUFFICES
        /\ processing' \in Seq(Ops) /\ submitted' \in Seq(Entry)
        /\ Busy(processing', submitted') \subseteq Busy(processing, submitted)
        /\ \/ outstanding' = outstanding
           \/ outstanding' = OutstandingAfterAdd(o, outstanding,
                                                 Busy(processing', submitted'))
        /\ status' \in [Ops -> Statuses]
        /\ watching' \in SUBSET Ops
        /\ UNCHANGED <<reputation, run, sending, phase, polled, stalled, aa95Vars>>
  <2> DEFINE busy == Busy(processing', submitted')
  <2> SUFFICES ASSUME processing' \in Seq(Ops), submitted' \in Seq(Entry),
                      busy \subseteq Busy(processing, submitted),
                      \/ outstanding' = outstanding
                      \/ outstanding' = OutstandingAfterAdd(o, outstanding, busy),
                      status' \in [Ops -> Statuses],
                      watching' \in SUBSET Ops,
                      UNCHANGED <<reputation, run, sending, phase, polled, stalled, aa95Vars>>
               PROVE  IInv'
    OBVIOUS
  <2>1. Busy(processing, submitted)' = busy
    BY DEF Busy, SubmittedOps
  <2> HIDE DEF busy
  <2>2. /\ outstanding' \in Seq(Ops) /\ IsInjective(outstanding')
        /\ ToSet(outstanding') \cap busy = {}
    BY <1>1, <1>3, AddKeeps
  <2>3. TypeOK'
    BY <1>1, <2>2 DEF IInv, TypeOK, aa95Vars
  <2>4. RunsInv'
    BY DEF IInv, RunsInv
  <2>5. StoresDisjoint'
    BY <2>1, <2>2 DEF StoresDisjoint
  <2> QED BY <2>3, <2>4, <2>5 DEF IInv
<1>6. CASE NoResult
  BY <1>3, <1>6 DEF NoResult, stores, blockVars, IInv, TypeOK
<1>7. CASE markSubmitted
  <2>1. UNCHANGED <<outstanding, reputation, run, sending, blockVars>>
        /\ status' = [status EXCEPT ![o] = "submitted"]
    BY <1>7 DEF markSubmitted, t
  <2>2. CASE o \in ToSet(processing)
    <3>1. processing' = RemoveFirst(processing, o) /\ submitted' = Append(submitted, entry)
      BY <1>7, <2>2 DEF markSubmitted, t
    <3>2. submitted' \in Seq(Entry)
          /\ SubmittedOps(submitted') = SubmittedOps(submitted) \cup {o}
      BY <1>2, <1>3, <3>1, AppendSubmitted
    <3>3. Busy(processing', submitted') \subseteq Busy(processing, submitted)
      BY <1>4, <2>2, <3>1, <3>2 DEF Busy
    <3> QED BY <1>1, <1>3, <1>4, <2>1, <3>1, <3>2, <3>3
            DEF blockVars, IInv, TypeOK, Statuses
  <2>3. CASE o \notin ToSet(processing)
    <3>1. UNCHANGED <<processing, submitted>>
      BY <1>7, <2>3 DEF markSubmitted, t
    <3> QED BY <1>1, <1>3, <2>1, <3>1 DEF blockVars, IInv, TypeOK, Statuses
  <2> QED BY <2>2, <2>3
<1>8. CASE Reject
  BY <1>1, <1>3, <1>4, <1>8 DEF Reject, t, Busy, blockVars, IInv, TypeOK, Statuses
<1>9. CASE Resubmit
  <2>1. /\ processing' = RemoveFirst(processing, o)
        /\ outstanding' = OutstandingAfterAdd(o, outstanding, Busy(processing', submitted))
        /\ status' = StatusAfterAdd(o, outstanding, Busy(processing', submitted))
        /\ UNCHANGED <<submitted, reputation, run, sending, blockVars>>
    BY <1>9 DEF Resubmit, t
  <2>2. status' \in [Ops -> Statuses]
    BY <1>1, <2>1, StatusKept DEF IInv
  <2>3. Busy(processing', submitted') \subseteq Busy(processing, submitted)
    BY <1>4, <2>1 DEF Busy
  <2> QED BY <1>3, <1>4, <2>1, <2>2, <2>3 DEF blockVars, IInv, TypeOK
<1>10. CASE ResubmitConflicting
  <2>1. /\ submitted' = removeSubmitted(o)
        /\ outstanding' = OutstandingAfterAdd(o, outstanding, Busy(processing, submitted'))
        /\ status' = StatusAfterAdd(o, outstanding, Busy(processing, submitted'))
        /\ UNCHANGED <<processing, reputation, run, sending, blockVars>>
    BY <1>10 DEF ResubmitConflicting, t
  <2>2. status' \in [Ops -> Statuses]
    BY <1>1, <2>1, StatusKept DEF IInv
  <2>3. Busy(processing', submitted') \subseteq Busy(processing, submitted)
    BY <1>4, <2>1 DEF Busy
  <2> QED BY <1>3, <1>4, <2>1, <2>2, <2>3 DEF blockVars, IInv, TypeOK
<1>11. CASE Included
  BY <1>1, <1>3, <1>4, <1>11 DEF Included, t, Busy, blockVars, IInv, TypeOK, Statuses
<1>12. CASE Reverted
  BY <1>1, <1>3, <1>4, <1>12 DEF Reverted, t, Busy, IInv, TypeOK
<1>13. CASE Dropped
  BY <1>1, <1>3, <1>4, <1>13 DEF Dropped, t, Busy, blockVars, IInv, TypeOK
<1>14. CASE replaceSubmitted
  <2>1. UNCHANGED <<outstanding, processing, reputation, run, sending, blockVars>>
    BY <1>14 DEF replaceSubmitted
  <2>2. CASE o \in SubmittedOps(submitted)
    <3>1. /\ submitted' = Append(removeSubmitted(o), entry)
          /\ status' = [status EXCEPT ![o] = "submitted"]
      BY <1>14, <2>2 DEF replaceSubmitted, t
    <3>2. submitted' \in Seq(Entry)
          /\ SubmittedOps(submitted') = SubmittedOps(removeSubmitted(o)) \cup {o}
      BY <1>2, <1>4, <3>1, AppendSubmitted
    <3>3. Busy(processing', submitted') \subseteq Busy(processing, submitted)
      BY <1>4, <2>1, <2>2, <3>2 DEF Busy
    <3> QED BY <1>1, <1>3, <2>1, <3>1, <3>2, <3>3
            DEF blockVars, IInv, TypeOK, Statuses
  <2>3. CASE o \notin SubmittedOps(submitted)
    <3>1. UNCHANGED <<submitted, status>>
      BY <1>14, <2>3 DEF replaceSubmitted, t
    <3> QED BY <1>1, <1>3, <2>1, <3>1 DEF blockVars, IInv, TypeOK
  <2> QED BY <2>2, <2>3
<1> QED BY <1>6, <1>7, <1>8, <1>9, <1>10, <1>11, <1>12, <1>13, <1>14 DEF Loop

-----------------------------------------------------------------------------
(* handleBlock, the watchers and the requests.                             *)

LEMMA TransactionsType ==
    ASSUME submitted \in Seq(Entry)
    PROVE  Transactions \subseteq Seq(Ops)
<1>1. ASSUME NEW i \in 1..Len(submitted) PROVE submitted[i].tx \in Seq(Ops)
  <2>1. submitted[i] \in Entry
    OBVIOUS
  <2> QED BY <2>1 DEF Entry
<1> QED BY <1>1 DEF Transactions

LEMMA TasksType ==
    ASSUME NEW tx \in Seq(Ops), NEW newTx \in Seq(Ops), NEW kindOf,
           \A k \in DOMAIN tx : kindOf[k] \in Kinds
    PROVE  [k \in DOMAIN tx |-> [kind |-> kindOf[k], op |-> tx[k], tx |-> newTx]]
               \in Seq(Task)
<1> DEFINE tasks == [k \in DOMAIN tx |->
                        [kind |-> kindOf[k], op |-> tx[k], tx |-> newTx]]
<1>1. DOMAIN tx = 1..Len(tx) /\ Len(tx) \in Nat
  OBVIOUS
<1>2. \A k \in DOMAIN tx : tasks[k] \in Task
  <2>1. \A k \in DOMAIN tx : tx[k] \in Ops
    OBVIOUS
  <2> QED BY <2>1 DEF Task, Kinds
<1>3. tasks \in [1..Len(tx) -> Task]
  BY <1>1, <1>2
<1> HIDE DEF tasks
<1>4. tasks \in Seq(Task)
  BY <1>1, <1>3
<1> QED BY <1>4 DEF tasks

LEMMA EachType ==
    ASSUME NEW kind \in Kinds, NEW tx \in Seq(Ops), NEW newTx \in Seq(Ops),
           Each(kind, tx, newTx)
    PROVE  todo' \in Seq(Task)
<1> DEFINE kindOf == [k \in DOMAIN tx |->
                         IF newTx = <<>> \/ tx[k] \in ToSet(newTx) THEN kind
                         ELSE "dropped"]
<1>1. \A k \in DOMAIN tx : kindOf[k] \in Kinds
  BY DEF Kinds
<1>2. todo' = [k \in DOMAIN tx |->
                  [kind |-> kindOf[k], op |-> tx[k], tx |-> newTx]]
  BY DEF Each
<1> HIDE DEF kindOf
<1> QED BY <1>1, <1>2, TasksType

LEMMA BlocksKeeps ==
    ASSUME IInv, Blocks
    PROVE  IInv'
<1>0. /\ sending \in Seq(Bundle) /\ todo \in Seq(Task)
      /\ phase \in {"idle", "refresh", "gas_price", "stuck"}
      /\ polled \in SUBSET Seq(Ops) /\ stalled \in BOOLEAN
      /\ watching \in SUBSET Ops /\ submitted \in Seq(Entry)
      /\ resending \in SUBSET Seq(Ops) /\ overtaken \in SUBSET Ops
      /\ Transactions \subseteq Seq(Ops)
      /\ <<>> \in Seq(Ops)
  BY TransactionsType DEF IInv, TypeOK
<1>1. CASE handleBlock
  BY <1>0, <1>1, AfterQuietStep DEF handleBlock, aa95Vars
<1>2. ASSUME NEW tx \in polled \cup resending, refreshTransactionStatus(tx)
      PROVE  IInv'
  <2>1. todo' \in Seq(Task)
    <3>1. tx \in Seq(Ops)
      BY <1>0
    <3> QED BY <1>0, <1>2, <3>1, EachType DEF refreshTransactionStatus, Kinds
  <2>2. /\ UNCHANGED <<stores, status, reputation, run, sending, phase, watching>>
        /\ polled' = polled \ {tx} /\ stalled' = stalled /\ overtaken' = overtaken
        /\ resending' \in SUBSET Seq(Ops)
    BY <1>0, <1>2 DEF refreshTransactionStatus, Settled
  <2> QED BY <1>0, <2>1, <2>2, AfterQuietStep
<1>3. ASSUME NEW tx \in polled \cup resending, replaceTransaction(tx)
      PROVE  IInv'
  <2>0. tx \in Seq(Ops)
    BY <1>0
  <2>1. todo' \in Seq(Task)
    <3>1. CASE todo' = todo
      BY <1>0, <3>1
    <3>2. CASE Each("dropped", tx, <<>>)
      BY <1>0, <2>0, <3>2, EachType DEF Kinds
    <3>3. CASE \E n \in 1..Len(tx) : \E f \in Selections(DOMAIN tx, n) :
                   Each("replaced", tx, [j \in 1..n |-> tx[f[j]]])
      <4>1. PICK n \in 1..Len(tx) : \E f \in Selections(DOMAIN tx, n) :
                   Each("replaced", tx, [j \in 1..n |-> tx[f[j]]])
        BY <3>3
      <4>2. PICK f \in Selections(DOMAIN tx, n) :
                   Each("replaced", tx, [j \in 1..n |-> tx[f[j]]])
        BY <4>1
      <4>3. [j \in 1..n |-> tx[f[j]]] \in Seq(Ops)
        BY <2>0, SelectionType
      <4> DEFINE newTx == [j \in 1..n |-> tx[f[j]]]
      <4>4. newTx \in Seq(Ops) /\ Each("replaced", tx, newTx)
        BY <4>2, <4>3
      <4> HIDE DEF newTx
      <4> QED BY <2>0, <4>4, EachType DEF Kinds
    <3> QED BY <1>3, <3>1, <3>2, <3>3 DEF replaceTransaction
  <2>2. /\ UNCHANGED <<stores, status, reputation, run, sending, phase, watching>>
        /\ polled' = polled \ {tx} /\ stalled' = stalled
        /\ resending' = resending \ {tx}
        /\ overtaken' = overtaken \/ overtaken' = overtaken \cup Overtaken(tx)
    BY <1>3 DEF replaceTransaction, Settled
  <2>3. overtaken' \in SUBSET Ops
    <3>1. ToSet(tx) \subseteq Ops
      BY <2>0, SequenceElements
    <3> QED BY <1>0, <2>2, <3>1 DEF Overtaken
  <2> QED BY <1>0, <2>1, <2>2, <2>3, AfterQuietStep
<1>4. ASSUME NEW tx \in polled \cup resending, HandlerThrows(tx)
      PROVE  IInv'
  BY <1>0, <1>4, AfterQuietStep DEF HandlerThrows, Settled
<1>5. CASE GasPriceStage
  BY <1>0, <1>5, AfterQuietStep DEF GasPriceStage, NextStage, aa95Vars
<1>6. CASE StuckStage
  BY <1>0, <1>6, AfterQuietStep DEF StuckStage, NextStage, aa95Vars
<1>7. CASE HandlingEnds
  BY <1>0, <1>7, AfterQuietStep DEF HandlingEnds, NextStage, aa95Vars
<1>8. ASSUME NEW tx \in Transactions, handleTransactionUnderPriced(tx)
      PROVE  IInv'
  <2> DEFINE kindOf == [k \in DOMAIN tx |->
                 IF [op |-> tx[k], tx |-> tx] \in ToSet(submitted)
                 THEN "underpriced" ELSE "none"]
  <2>1. todo' = [k \in DOMAIN tx |->
                    [kind |-> kindOf[k], op |-> tx[k], tx |-> tx]]
    BY <1>8 DEF handleTransactionUnderPriced
  <2>2. \A k \in DOMAIN tx : kindOf[k] \in Kinds
    BY DEF Kinds
  <2> HIDE DEF kindOf
  <2>3. todo' \in Seq(Task)
    BY <1>0, <2>1, <2>2, TasksType
  <2>4. UNCHANGED <<stores, status, reputation, run, sending, blockVars>>
    BY <1>8 DEF handleTransactionUnderPriced
  <2> QED BY <1>0, <2>3, <2>4, AfterQuietStep DEF blockVars, aa95Vars
<1>9. ASSUME NEW o \in watching, checkFrontrun(o)
      PROVE  IInv'
  <2>1. /\ UNCHANGED <<stores, reputation, run, sending, todo, phase, polled, stalled,
                       aa95Vars>>
        /\ watching' = watching \ {o}
        /\ \E s \in {"included", "rejected"} : status' = [status EXCEPT ![o] = s]
    BY <1>9 DEF checkFrontrun
  <2>2. TypeOK'
    BY <2>1 DEF IInv, TypeOK, Statuses, stores, aa95Vars
  <2>3. RunsInv' /\ StoresDisjoint'
    BY <2>1 DEF IInv, RunsInv, StoresDisjoint, Busy, SubmittedOps, stores
  <2> QED BY <2>2, <2>3 DEF IInv
<1> QED BY <1>1, <1>2, <1>3, <1>4, <1>5, <1>6, <1>7, <1>8, <1>9 DEF Blocks

LEMMA RequestsKeeps ==
    ASSUME IInv, Requests
    PROVE  IInv'
<1>0. /\ outstanding \in Seq(Ops) /\ IsInjective(outstanding)
      /\ ToSet(outstanding) \cap Busy(processing, submitted) = {}
  BY DEF IInv, TypeOK, StoresDisjoint
<1>1. ASSUME NEW o \in Ops, add(o)
      PROVE  IInv'
  <2>1. /\ outstanding' = OutstandingAfterAdd(o, outstanding,
                                              Busy(processing, submitted))
        /\ status' = StatusAfterAdd(o, outstanding, Busy(processing, submitted))
        /\ UNCHANGED <<processing, submitted, reputation, run, sending, todo,
                       blockVars>>
    BY <1>1 DEF add
  <2>2. /\ outstanding' \in Seq(Ops) /\ IsInjective(outstanding')
        /\ ToSet(outstanding') \cap Busy(processing, submitted) = {}
    BY <1>0, <2>1, AddKeeps
  <2>3. status' \in [Ops -> Statuses]
    BY <2>1, StatusKept DEF IInv
  <2>4. Busy(processing, submitted)' = Busy(processing, submitted)
    BY <2>1 DEF Busy
  <2>5. TypeOK'
    BY <2>1, <2>2, <2>3 DEF IInv, TypeOK, blockVars, aa95Vars
  <2>6. RunsInv' /\ StoresDisjoint'
    BY <2>1, <2>2, <2>4 DEF IInv, RunsInv, StoresDisjoint
  <2> QED BY <2>5, <2>6 DEF IInv
<1>2. CASE clear
  <2>1. /\ outstanding' = <<>>
        /\ UNCHANGED <<processing, submitted, status, reputation, run, sending,
                       todo, blockVars>>
    BY <1>2 DEF clear
  <2>2. TypeOK'
    BY <2>1 DEF IInv, TypeOK, blockVars, aa95Vars
  <2>3. IsInjective(outstanding') /\ ToSet(outstanding') = {}
    BY <2>1 DEF IsInjective, ToSet
  <2>4. RunsInv' /\ StoresDisjoint'
    BY <2>1, <2>3 DEF IInv, RunsInv, StoresDisjoint
  <2> QED BY <2>2, <2>4 DEF IInv
<1>3. ASSUME NEW e \in Entities, ReputationChanges(e)
      PROVE  IInv'
  <2>1. /\ UNCHANGED <<outstanding, processing, submitted, status, run, sending,
                       todo, blockVars>>
        /\ \E s \in {"ok", "throttled", "banned"} :
               reputation' = [reputation EXCEPT ![e] = s]
    BY <1>3 DEF ReputationChanges
  <2>2. TypeOK'
    BY <2>1 DEF IInv, TypeOK, blockVars, aa95Vars
  <2>3. RunsInv' /\ StoresDisjoint'
    BY <2>1 DEF IInv, RunsInv, StoresDisjoint, Busy, SubmittedOps
  <2> QED BY <2>2, <2>3 DEF IInv
<1> QED BY <1>1, <1>2, <1>3 DEF Requests

-----------------------------------------------------------------------------
(* The theorems.                                                           *)

LEMMA InitIInv ==
    ASSUME Init
    PROVE  IInv
<1>1. TypeOK
  <2>1. run \in [Runners -> RunType]
    BY NewRunType DEF Init
  <2>2. status \in [Ops -> Statuses]
        /\ reputation \in [Entities -> {"ok", "throttled", "banned"}]
    BY DEF Init, Statuses
  <2>3. /\ <<>> \in Seq(Ops) /\ <<>> \in Seq(Entry) /\ <<>> \in Seq(Bundle)
        /\ <<>> \in Seq(Task)
    OBVIOUS
  <2> QED BY <2>1, <2>2, <2>3 DEF Init, TypeOK
<1>2. RunsInv
  BY DEF Init, RunsInv, NewRun
<1>3. StoresDisjoint
  <2>1. IsInjective(outstanding) /\ ToSet(outstanding) = {}
    BY DEF Init, IsInjective, ToSet
  <2> QED BY <2>1 DEF StoresDisjoint
<1> QED BY <1>1, <1>2, <1>3 DEF IInv

LEMMA NextIInv ==
    ASSUME IInv, [Next]_vars
    PROVE  IInv'
<1>1. CASE Requests
  BY <1>1, RequestsKeeps
<1>2. CASE Bundling
  BY <1>2, ProcessKeeps, SendKeeps DEF Bundling
<1>3. CASE Loop
  BY <1>3, LoopKeeps
<1>4. CASE Blocks
  BY <1>4, BlocksKeeps
<1>5. CASE UNCHANGED vars
  <2>1. TypeOK'
    BY <1>5 DEF IInv, TypeOK, vars
  <2>2. RunsInv' /\ StoresDisjoint'
    BY <1>5 DEF IInv, RunsInv, StoresDisjoint, Busy, SubmittedOps, vars
  <2> QED BY <2>1, <2>2 DEF IInv
<1> QED BY <1>1, <1>2, <1>3, <1>4, <1>5 DEF Next

\* In every state the variables have their types; above all, the deposit of a
\* paymaster that shouldSkip keeps between operations never becomes negative,
\* and the head of a list that process() works on is always there.
THEOREM TypeCorrect == Spec => []TypeOK
<1>1. Init => IInv
  BY InitIInv
<1>2. IInv /\ [Next]_vars => IInv'
  BY NextIInv
<1>3. IInv => TypeOK
  BY DEF IInv
<1> QED BY <1>1, <1>2, <1>3, PTL DEF Spec

\* However many calls of bundle() interleave with requests, answers of the
\* executor and blocks, no operation is outstanding twice, or outstanding
\* while it is also processed or submitted, even if awaits throw.
THEOREM Disjoint == Spec => []StoresDisjoint
<1>1. Init => IInv
  BY InitIInv
<1>2. IInv /\ [Next]_vars => IInv'
  BY NextIInv
<1>3. IInv => StoresDisjoint
  BY DEF IInv
<1> QED BY <1>1, <1>2, <1>3, PTL DEF Spec

-----------------------------------------------------------------------------
(* What the steps of the program may do to the outstanding store.          *)

Fewer ==
    /\ outstanding' \in Seq(Ops) /\ ToSet(outstanding') \subseteq ToSet(outstanding)
    /\ \A o \in Ops : status'[o] = "not_found" => status[o] = "not_found"

Added == \E o \in Ops : \E busy \in SUBSET Ops :
             /\ outstanding' = OutstandingAfterAdd(o, outstanding, busy)
             /\ status' = StatusAfterAdd(o, outstanding, busy)

LEMMA BusyOps ==
    ASSUME NEW proc \in Seq(Ops), NEW subm \in Seq(Entry)
    PROVE  Busy(proc, subm) \in SUBSET Ops
<1>1. ToSet(proc) \subseteq Ops
  BY SequenceElements
<1>2. SubmittedOps(subm) \subseteq Ops
  <2>1. \A i \in 1..Len(subm) : subm[i] \in Entry
    OBVIOUS
  <2>2. \A e \in Entry : e.op \in Ops
    BY DEF Entry
  <2> QED BY <2>1, <2>2 DEF SubmittedOps
<1> QED BY <1>1, <1>2 DEF Busy

LEMMA RequestsMove ==
    ASSUME IInv, Requests
    PROVE  Fewer \/ Added
<1>1. outstanding \in Seq(Ops) /\ processing \in Seq(Ops) /\ submitted \in Seq(Entry)
  BY DEF IInv, TypeOK
<1>2. ASSUME NEW o \in Ops, add(o)
      PROVE  Added
  BY <1>1, <1>2, BusyOps DEF add, Added
<1>3. CASE clear
  <2>1. outstanding' = <<>> /\ ToSet(<<>>) = {}
    BY <1>3 DEF clear, ToSet
  <2>2. status' = status /\ <<>> \in Seq(Ops)
    BY <1>3 DEF clear
  <2> QED BY <2>1, <2>2 DEF Fewer
<1>4. ASSUME NEW e \in Entities, ReputationChanges(e)
      PROVE  Fewer
  BY <1>1, <1>4 DEF ReputationChanges, Fewer
<1> QED BY <1>2, <1>3, <1>4 DEF Requests

LEMMA RunsMove ==
    ASSUME IInv, NEW r \in Runners, bundle(r) \/ Process(r)
    PROVE  Fewer
<1>1. outstanding \in Seq(Ops)
  BY DEF IInv, TypeOK
<1>0. status' = status
  BY DEF bundle, Process, Skip, ProcessAgain, ValidationFailed, Take, StorageClash,
         ValidationPassed, BalanceRead, BalanceThrows, SendBundles
<1>2. ASSUME NEW out \in Seq(Ops), ToSet(out) \subseteq ToSet(outstanding),
             NEW s, Continue(r, s, out)
      PROVE  Fewer
  <2>1. outstanding' = out \/ \E e : outstanding' = RemoveFirst(out, e)
    BY <1>2 DEF Continue, OutstandingAfterScreen
  <2>2. outstanding' \in Seq(Ops) /\ ToSet(outstanding') \subseteq ToSet(out)
    BY <2>1, RemoveFirstProperties
  <2> QED BY <1>0, <1>2, <2>2 DEF Fewer
<1>3. CASE bundle(r) \/ Skip(r) \/ ProcessAgain(r)
  <2>1. \E s : Continue(r, s, outstanding)
    BY <1>3 DEF bundle, Skip, ProcessAgain
  <2> QED BY <1>1, <1>2, <2>1
<1>4. CASE ValidationFailed(r)
  BY <1>0, <1>1, <1>4, RemoveFirstProperties DEF ValidationFailed, Fewer
<1>5. CASE Take(r)
  <2>1. PICK e, s : Continue(r, s, RemoveFirst(outstanding, e))
    BY <1>5 DEF Take
  <2> QED BY <1>1, <1>2, <2>1, RemoveFirstProperties
<1>6. CASE \/ StorageClash(r) \/ ValidationPassed(r) \/ BalanceRead(r)
           \/ BalanceThrows(r) \/ SendBundles(r)
  BY <1>0, <1>1, <1>6 DEF StorageClash, ValidationPassed, BalanceRead, BalanceThrows,
                    SendBundles, Fewer
<1> QED BY <1>3, <1>4, <1>5, <1>6 DEF Process

LEMMA OthersMove ==
    ASSUME IInv,
           \/ \E i \in DOMAIN sending : \E ep \in sending[i].left : SendToExecutor(i, ep)
           \/ Blocks
    PROVE  Fewer
<1>1. outstanding \in Seq(Ops) /\ status \in [Ops -> Statuses]
  BY DEF IInv, TypeOK
<1>2. ASSUME NEW i \in DOMAIN sending, NEW ep, SendToExecutor(i, ep)
      PROVE  UNCHANGED <<outstanding, status>>
  BY <1>2 DEF SendToExecutor, ParametersFailed, AllFailed, Submitted,
              InsufficientFunds, BundleThrows, Answer
<1>3. ASSUME Blocks
      PROVE  Fewer
  <2>1. CASE handleBlock \/ GasPriceStage \/ StuckStage \/ HandlingEnds
    BY <1>1, <2>1 DEF handleBlock, GasPriceStage, StuckStage, HandlingEnds, NextStage,
                      stores, Fewer
  <2>2. ASSUME NEW tx \in polled \cup resending,
               \/ refreshTransactionStatus(tx)
               \/ replaceTransaction(tx)
               \/ HandlerThrows(tx)
        PROVE  Fewer
    BY <1>1, <2>2 DEF refreshTransactionStatus, replaceTransaction, HandlerThrows,
                      Settled, stores, Fewer
  <2>3. ASSUME NEW tx \in Transactions, handleTransactionUnderPriced(tx)
        PROVE  Fewer
    BY <1>1, <2>3 DEF handleTransactionUnderPriced, stores, Fewer
  <2>4. ASSUME NEW o \in watching, checkFrontrun(o)
        PROVE  Fewer
    BY <1>1, <2>4 DEF checkFrontrun, stores, Fewer
  <2> QED BY <1>3, <2>1, <2>2, <2>3, <2>4 DEF Blocks
<1> QED BY <1>1, <1>2, <1>3 DEF Fewer

LEMMA LoopMoves ==
    ASSUME IInv, Loop
    PROVE  Fewer \/ Added
<1>1. /\ outstanding \in Seq(Ops) /\ processing \in Seq(Ops)
      /\ submitted \in Seq(Entry) /\ todo \in Seq(Task)
      /\ status \in [Ops -> Statuses]
  BY DEF IInv, TypeOK
<1>2. CASE Resubmit
  <2>1. Head(todo).op \in Ops
    <3>1. Head(todo) \in Task
      BY <1>1, <1>2, HeadTailProperties DEF Resubmit, Iteration
    <3> QED BY <3>1 DEF Task
  <2>2. RemoveFirst(processing, Head(todo).op) \in Seq(Ops)
    BY <1>1, RemoveFirstProperties
  <2> QED BY <1>1, <1>2, <2>1, <2>2, BusyOps DEF Resubmit, Added
<1>3. CASE ResubmitConflicting
  <2>1. Head(todo).op \in Ops
    <3>1. Head(todo) \in Task
      BY <1>1, <1>3, HeadTailProperties DEF ResubmitConflicting, Iteration
    <3> QED BY <3>1 DEF Task
  <2>2. removeSubmitted(Head(todo).op) \in Seq(Entry)
    BY <1>1, RemoveSubmitted
  <2> QED BY <1>1, <1>3, <2>1, <2>2, BusyOps DEF ResubmitConflicting, Added
<1>4. CASE \/ NoResult \/ markSubmitted \/ Reject \/ Included \/ Reverted
           \/ Dropped \/ replaceSubmitted
  <2>1. outstanding' = outstanding
    BY <1>4 DEF NoResult, markSubmitted, Reject, Included, Reverted, Dropped,
                replaceSubmitted, stores
  <2>2. \/ status' = status
        \/ \E s \in {"submitted", "rejected", "included"} : \E e :
               status' = [status EXCEPT ![e] = s]
    BY <1>4 DEF NoResult, markSubmitted, Reject, Included, Reverted, Dropped,
                replaceSubmitted
  <2>3. \A o \in Ops : status'[o] = "not_found" => status[o] = "not_found"
    BY <1>1, <2>2
  <2> QED BY <1>1, <2>1, <2>3 DEF Fewer
<1> QED BY <1>2, <1>3, <1>4 DEF Loop

-----------------------------------------------------------------------------
(* The theorems.                                                           *)

OutstandingInv ==
    IInv /\ ToSet(outstanding) \subseteq Known /\ AddInv(ToSet(outstanding), Known)

LEMMA InitOutstandingInv ==
    ASSUME Init
    PROVE  OutstandingInv
<1>1. ToSet(outstanding) = {}
  BY DEF Init, ToSet
<1>2. Cardinality({}) = 0
  BY FS_EmptySet
<1>3. \A o \in Ops : OfSender({}, o) = {} /\ OfKey({}, o) = {}
  BY DEF OfSender, OfKey
<1>4. AddInv({}, Known)
  BY <1>2, <1>3, AddAssumption DEF AddInv, NoRivals, Limited
<1> QED BY <1>1, <1>4, InitIInv DEF OutstandingInv

\* Sets of operations: that of any outstanding store is finite.
LEMMA OpsFinite ==
    ASSUME NEW s \in Seq(Ops), IsInjective(s)
    PROVE  IsFiniteSet(ToSet(s)) /\ ToSet(s) \subseteq Ops
<1>1. ToSet(s) \subseteq Ops
  BY SequenceElements
<1>2. CASE ToSet(s) = {}
  BY <1>2, FS_EmptySet
<1>3. ASSUME NEW o \in ToSet(s)
      PROVE  IsFiniteSet(ToSet(s))
  BY <1>1, LimitsCount
<1> QED BY <1>1, <1>2, <1>3

LEMMA NextOutstandingInv ==
    ASSUME OutstandingInv, [Next]_vars
    PROVE  OutstandingInv'
<1>1. IInv /\ IInv'
  BY NextIInv DEF OutstandingInv
<1>2. /\ outstanding \in Seq(Ops) /\ IsInjective(outstanding)
      /\ AddInv(ToSet(outstanding), Known) /\ ToSet(outstanding) \subseteq Known
      /\ IsFiniteSet(ToSet(outstanding)) /\ Known \in SUBSET Ops
      /\ status \in [Ops -> Statuses]
  <2>1. outstanding \in Seq(Ops) /\ IsInjective(outstanding)
    BY DEF OutstandingInv, IInv, TypeOK, StoresDisjoint
  <2> QED BY <2>1, OpsFinite DEF OutstandingInv, IInv, TypeOK, Known
<1>3. Fewer \/ Added
  <2>1. CASE UNCHANGED vars
    BY <1>2, <2>1 DEF vars, Fewer
  <2>2. CASE Next
    BY <1>1, <2>2, RequestsMove, RunsMove, OthersMove, LoopMoves DEF Next, Bundling
  <2> QED BY <2>1, <2>2
<1>4. ToSet(outstanding') \subseteq Known' /\ AddInv(ToSet(outstanding'), Known')
  <2>1. CASE Fewer
    <3>1. ToSet(outstanding') \in SUBSET ToSet(outstanding) /\ Known \in SUBSET Known'
      BY <2>1 DEF Fewer, Known
    <3> QED BY <1>2, <3>1, FewerOps
  <2>2. CASE Added
    <3>1. PICK o \in Ops : \E busy \in SUBSET Ops :
             /\ outstanding' = OutstandingAfterAdd(o, outstanding, busy)
             /\ status' = StatusAfterAdd(o, outstanding, busy)
      BY <2>2 DEF Added
    <3>2. PICK busy \in SUBSET Ops :
             /\ outstanding' = OutstandingAfterAdd(o, outstanding, busy)
             /\ status' = StatusAfterAdd(o, outstanding, busy)
      BY <3>1
    <3>3. Known' = IF Accepted(o, outstanding, busy) THEN Known \cup {o} ELSE Known
      BY <1>2, <3>2 DEF Known, StatusAfterAdd
    <3>4. AddInv(ToSet(outstanding'), Known')
      BY <1>2, <3>2, <3>3, AddKeepsAddInv
    <3>5. ToSet(outstanding') \subseteq Known'
      <4>1. /\ Remaining(o, outstanding) \in Seq(Ops)
            /\ ToSet(Remaining(o, outstanding)) \subseteq ToSet(outstanding)
        BY <1>2, RemainingOps
      <4>2. ToSet(Append(Remaining(o, outstanding), o))
                = ToSet(Remaining(o, outstanding)) \cup {o}
        BY <4>1, AppendElements
      <4>3. CASE Accepted(o, outstanding, busy)
        BY <1>2, <3>2, <3>3, <4>1, <4>2, <4>3 DEF Accepted, OutstandingAfterAdd
      <4>4. CASE ~ Accepted(o, outstanding, busy)
        BY <1>2, <3>2, <3>3, <4>1, <4>4 DEF Accepted, OutstandingAfterAdd
      <4> QED BY <4>3, <4>4
    <3> QED BY <3>4, <3>5
  <2> QED BY <1>3, <2>1, <2>2
<1>5. AddInv(ToSet(outstanding), Known)' = AddInv(ToSet(outstanding'), Known')
  BY DEF AddInv, NoRivals, Limited
<1> QED BY <1>1, <1>4, <1>5 DEF OutstandingInv

\* add() never leaves two rivals outstanding, although it removes the first it finds
\* only, and although resubmissions go through it unvalidated.  The exception is a
\* sender whose operations of one nonce disagree about deploying it: there the one
\* that is replaced may hide another rival.
THEOREM RivalsExcluded == Spec => []UniqueNonceOutstanding
<1>1. Init => OutstandingInv
  BY InitOutstandingInv
<1>2. OutstandingInv /\ [Next]_vars => OutstandingInv'
  BY NextOutstandingInv
<1>3. OutstandingInv => UniqueNonceOutstanding
  <2> SUFFICES ASSUME OutstandingInv,
                      NEW i \in DOMAIN outstanding, NEW j \in DOMAIN outstanding,
                      Conflicts(outstanding[i], outstanding[j]),
                      ~ Disputed(Sender(outstanding[i]), Known)
               PROVE  i = j
    BY DEF UniqueNonceOutstanding
  <2>1. /\ outstanding \in Seq(Ops) /\ IsInjective(outstanding)
        /\ NoRivals(ToSet(outstanding), Known)
    BY DEF OutstandingInv, IInv, TypeOK, StoresDisjoint, AddInv
  <2>2. /\ i \in 1..Len(outstanding) /\ j \in 1..Len(outstanding)
        /\ outstanding[i] \in ToSet(outstanding)
        /\ outstanding[j] \in ToSet(outstanding)
    BY <2>1, SequenceElements
  <2>3. outstanding[i] = outstanding[j]
    BY <2>1, <2>2 DEF NoRivals
  <2> QED BY <2>1, <2>2, <2>3, SequenceElements
<1> QED BY <1>1, <1>2, <1>3, PTL DEF Spec

\* An add() that finds a rival of its own nonce key and is refused has removed
\* nothing: what is refused is refused before the rival is removed, because no such
\* replacement is over the limits that are looked at afterwards.
THEOREM RefusalHarmless == Spec => []RejectedAddIsHarmless
<1>1. Init => OutstandingInv
  BY InitOutstandingInv
<1>2. OutstandingInv /\ [Next]_vars => OutstandingInv'
  BY NextOutstandingInv
<1>3. OutstandingInv => RejectedAddIsHarmless
  <2> SUFFICES ASSUME OutstandingInv, NEW busy \in {Busy(processing, submitted)},
                      NEW o \in Ops, NEW i \in DOMAIN outstanding,
                      oldUserOp(o, outstanding) = i,
                      userOp[outstanding[i]].nonceKey = userOp[o].nonceKey,
                      ~ Accepted(o, outstanding, busy)
               PROVE  OutstandingAfterAdd(o, outstanding, busy) = outstanding
    BY DEF RejectedAddIsHarmless
  <2>1. /\ outstanding \in Seq(Ops) /\ IsInjective(outstanding)
        /\ Limited(ToSet(outstanding)) /\ i \in 1..Len(outstanding)
    BY DEF OutstandingInv, IInv, TypeOK, StoresDisjoint, AddInv
  <2>2. WithinLimits(o, Remaining(o, outstanding))
    BY <2>1, ReplacementFits
  <2> QED BY <2>2 DEF Accepted, OutstandingAfterAdd
<1> QED BY <1>1, <1>2, <1>3, PTL DEF Spec

-----------------------------------------------------------------------------
(* Sums over a bundle.                                                     *)

GasOf(b) == Sum(LAMBDA o : userOp[o].gas, b)

PrefundOf(b, p) ==
    Sum(LAMBDA o : IF userOp[o].paymaster = p THEN userOp[o].prefund ELSE 0, b)

Gas(b) == [i \in 1..Len(b) |-> userOp[b[i]].gas]

Prefund(b, p) ==
    [i \in 1..Len(b) |-> IF userOp[b[i]].paymaster = p THEN userOp[b[i]].prefund ELSE 0]

LEMMA GasIsSum ==
    ASSUME NEW b \in Seq(Ops)
    PROVE  /\ Gas(b) \in Terms(Len(b))
           /\ \E h : Summing(h, Len(b), Gas(b)) /\ GasOf(b) = h[1..Len(b)]
<1> DEFINE Body(g) == [T \in SUBSET DOMAIN b |->
                          IF T = {} THEN 0
                          ELSE g[T \ {Max(T)}] + userOp[b[Max(T)]].gas]
           h == CHOOSE g : g = Body(g)
           n == Len(b)
<1>0. GasOf(b) = h[DOMAIN b]
  BY DEF GasOf, Sum, FoldLeft, MapThenFoldSet
<1>1. n \in Nat /\ DOMAIN b = 1..n /\ Gas(b) \in Terms(n)
  BY FieldTypes DEF Gas, Terms
<1>2. \A g : g = Body(g) <=> Summing(g, n, Gas(b))
  <2>1. \A T \in SUBSET (1..n) : T # {} => Gas(b)[Max(T)] = userOp[b[Max(T)]].gas
    BY <1>1, LastPosition DEF Gas
  <2> HIDE DEF n
  <2> QED BY <1>1, <2>1 DEF Summing
<1>3. \E g : g = Body(g)
  <2> HIDE DEF Body, n
  <2> QED BY <1>1, <1>2, SumExists
<1>4. h = Body(h)
  <2> HIDE DEF Body
  <2> QED BY <1>3
<1>5. Summing(h, n, Gas(b))
  <2> HIDE DEF Body, h
  <2> QED BY <1>2, <1>4
<1> HIDE DEF h
<1> QED BY <1>0, <1>1, <1>5

LEMMA PrefundIsSum ==
    ASSUME NEW b \in Seq(Ops), NEW p
    PROVE  /\ Prefund(b, p) \in Terms(Len(b))
           /\ \E h : Summing(h, Len(b), Prefund(b, p)) /\ PrefundOf(b, p) = h[1..Len(b)]
<1> DEFINE Part(o) == IF userOp[o].paymaster = p THEN userOp[o].prefund ELSE 0
           Body(g) == [T \in SUBSET DOMAIN b |->
                          IF T = {} THEN 0
                          ELSE g[T \ {Max(T)}]
                               + (IF userOp[b[Max(T)]].paymaster = p
                                  THEN userOp[b[Max(T)]].prefund ELSE 0)]
           h == CHOOSE g : g = Body(g)
           n == Len(b)
<1>0. PrefundOf(b, p) = h[DOMAIN b]
  BY DEF PrefundOf, Sum, FoldLeft, MapThenFoldSet
<1>1. n \in Nat /\ DOMAIN b = 1..n /\ Prefund(b, p) \in Terms(n)
  BY FieldTypes DEF Prefund, Terms
<1>2. \A g : g = Body(g) <=> Summing(g, n, Prefund(b, p))
  <2>1. \A T \in SUBSET (1..n) : T # {} => Prefund(b, p)[Max(T)] = Part(b[Max(T)])
    BY <1>1, LastPosition DEF Prefund
  <2> HIDE DEF n
  <2> QED BY <1>1, <2>1 DEF Summing
<1>3. \E g : g = Body(g)
  <2> HIDE DEF Body, n
  <2> QED BY <1>1, <1>2, SumExists
<1>4. h = Body(h)
  <2> HIDE DEF Body
  <2> QED BY <1>3
<1>5. Summing(h, n, Prefund(b, p))
  <2> HIDE DEF Body, h
  <2> QED BY <1>2, <1>4
<1> HIDE DEF h
<1> QED BY <1>0, <1>1, <1>5

LEMMA GasAppended ==
    ASSUME NEW b \in Seq(Ops), NEW o \in Ops
    PROVE  /\ GasOf(b) \in Nat
           /\ GasOf(Append(b, o)) = GasOf(b) + userOp[o].gas
<1> DEFINE c == Append(b, o)
           n == Len(b)
           m == Len(c)
<1>1. /\ n \in Nat /\ m \in Nat /\ m = n + 1
      /\ c \in Seq(Ops) /\ c[m] = o /\ \A i \in 1..n : c[i] = b[i]
  BY AppendProperties
<1> HIDE DEF c
<1>2. PICK h : Summing(h, n, Gas(b)) /\ GasOf(b) = h[1..n]
  BY GasIsSum
<1>3. PICK g : Summing(g, m, Gas(c)) /\ GasOf(c) = g[1..m]
  BY <1>1, GasIsSum
<1>4. Gas(b) \in Terms(n) /\ Gas(c) \in Terms(m)
  BY <1>1, GasIsSum
<1>5. (\A i \in 1..n : Gas(c)[i] = Gas(b)[i]) /\ Gas(c)[m] = userOp[o].gas
  BY <1>1 DEF Gas
<1> HIDE DEF n, m
<1> DEFINE f == Gas(b)
           e == Gas(c)
<1>6. g[1..m] = h[1..n] + e[m] /\ h[1..n] \in Nat
  <2>1. /\ n \in Nat /\ f \in Terms(n) /\ Summing(h, n, f)
        /\ e \in Terms(m) /\ Summing(g, m, e)
        /\ \A i \in 1..n : e[i] = f[i]
    BY <1>1, <1>2, <1>3, <1>4, <1>5
  <2> HIDE DEF f, e
  <2>2. g[1..m] = h[1..n] + e[m]
    BY <1>1, <2>1, SumAppended
  <2>3. n \in 0..n /\ \A k \in 0..n : h[1..k] \in Nat
    BY <2>1, SumSteps
  <2> QED BY <2>2, <2>3
<1> QED BY <1>2, <1>3, <1>5, <1>6 DEF c

LEMMA PrefundAppended ==
    ASSUME NEW b \in Seq(Ops), NEW o \in Ops, NEW p
    PROVE  /\ PrefundOf(b, p) \in Nat
           /\ PrefundOf(Append(b, o), p) =
                  PrefundOf(b, p) + IF userOp[o].paymaster = p THEN userOp[o].prefund ELSE 0
<1> DEFINE c == Append(b, o)
           n == Len(b)
           m == Len(c)
<1>1. /\ n \in Nat /\ m \in Nat /\ m = n + 1
      /\ c \in Seq(Ops) /\ c[m] = o /\ \A i \in 1..n : c[i] = b[i]
  BY AppendProperties
<1> HIDE DEF c
<1>2. PICK h : Summing(h, n, Prefund(b, p)) /\ PrefundOf(b, p) = h[1..n]
  BY PrefundIsSum
<1>3. PICK g : Summing(g, m, Prefund(c, p)) /\ PrefundOf(c, p) = g[1..m]
  BY <1>1, PrefundIsSum
<1>4. Prefund(b, p) \in Terms(n) /\ Prefund(c, p) \in Terms(m)
  BY <1>1, PrefundIsSum
<1>5. /\ \A i \in 1..n : Prefund(c, p)[i] = Prefund(b, p)[i]
      /\ Prefund(c, p)[m] = IF userOp[o].paymaster = p THEN userOp[o].prefund ELSE 0
  BY <1>1 DEF Prefund
<1> HIDE DEF n, m
<1> DEFINE f == Prefund(b, p)
           e == Prefund(c, p)
<1>6. g[1..m] = h[1..n] + e[m] /\ h[1..n] \in Nat
  <2>1. /\ n \in Nat /\ f \in Terms(n) /\ Summing(h, n, f)
        /\ e \in Terms(m) /\ Summing(g, m, e)
        /\ \A i \in 1..n : e[i] = f[i]
    BY <1>1, <1>2, <1>3, <1>4, <1>5
  <2> HIDE DEF f, e
  <2>2. g[1..m] = h[1..n] + e[m]
    BY <1>1, <2>1, SumAppended
  <2>3. n \in 0..n /\ \A k \in 0..n : h[1..k] \in Nat
    BY <2>1, SumSteps
  <2> QED BY <2>2, <2>3
<1> QED BY <1>2, <1>3, <1>5, <1>6 DEF c

LEMMA NothingSummed ==
    GasOf(<<>>) = 0 /\ \A p : PrefundOf(<<>>, p) = 0
<1>1. <<>> \in Seq(Ops) /\ Len(<<>>) = 0 /\ 0 \in Nat
  OBVIOUS
<1>2. GasOf(<<>>) = 0
  <2>1. PICK h : Summing(h, 0, Gas(<<>>)) /\ GasOf(<<>>) = h[1..0]
    BY <1>1, GasIsSum
  <2>2. Gas(<<>>) \in Terms(0)
    BY <1>1, GasIsSum
  <2> QED BY <1>1, <2>1, <2>2, SumSteps
<1>3. ASSUME NEW p
      PROVE  PrefundOf(<<>>, p) = 0
  <2>1. PICK h : Summing(h, 0, Prefund(<<>>, p)) /\ PrefundOf(<<>>, p) = h[1..0]
    BY <1>1, PrefundIsSum
  <2>2. Prefund(<<>>, p) \in Terms(0)
    BY <1>1, PrefundIsSum
  <2> QED BY <1>1, <2>1, <2>2, SumSteps
<1> QED BY <1>2, <1>3

-----------------------------------------------------------------------------
(* What a step of the program does to a call of bundle().                  *)

\* From s to t, both the state of one call.
ProcessStep(s, t) ==
    LET p == userOp[Head(s.rest)].paymaster
    IN  \/ t = NewRun
        \/ \E now \in BOOLEAN : t = Iterate(Started(now, <<>>))
        \/ s.pc = "returned" /\ t = Iterate(Started(FALSE, Append(s.bundles, s.result)))
        \/ /\ s.pc = "validating"
           /\ \/ t = [s EXCEPT !.pc = "decided"]
              \/ p = NoEntity /\ t = Settle(s, 0)
              \/ /\ p # NoEntity /\ s.paymasterDeposit[p] = Unread
                 /\ t = [s EXCEPT !.pc = "reading"]
              \/ /\ p # NoEntity /\ s.paymasterDeposit[p] # Unread
                 /\ t = Settle(s, s.paymasterDeposit[p])
        \/ s.pc = "reading" /\ t = Settle(s, balanceOf[p])
        \/ /\ s.pc = "decided"
           /\ \/ s.skip /\ t = Iterate([s EXCEPT !.rest = Tail(@)])
              \/ /\ ~ s.skip
                 /\ t = Iterate([s EXCEPT !.rest = Tail(@),
                                          !.result = Append(@, Head(s.rest))])

LEMMA ProcessSteps ==
    ASSUME IInv, NEW r \in Runners, bundle(r) \/ Process(r)
    PROVE  \E t : run' = [run EXCEPT ![r] = t] /\ ProcessStep(run[r], t)
<1> DEFINE s == run[r]
           p == userOp[Head(s.rest)].paymaster
<1>0. run \in [Runners -> RunType] /\ s \in RunType
  BY DEF IInv, TypeOK
<1>1. CASE bundle(r)
  BY <1>1 DEF bundle, Continue, ProcessStep
<1>2. CASE ValidationFailed(r)
  <2>1. s.pc = "validating" /\ run' = [run EXCEPT ![r] = [s EXCEPT !.pc = "decided"]]
    BY <1>0, <1>2 DEF ValidationFailed
  <2> QED BY <2>1 DEF ProcessStep
<1>3. CASE StorageClash(r)
  <2>1. s.pc = "validating" /\ run' = [run EXCEPT ![r] = [s EXCEPT !.pc = "decided"]]
    BY <1>0, <1>3 DEF StorageClash
  <2> QED BY <2>1 DEF ProcessStep
<1>4. CASE ValidationPassed(r)
  <2>1. /\ s.pc = "validating"
        /\ run' = [run EXCEPT ![r] =
               IF p = NoEntity THEN Settle(s, 0)
               ELSE IF s.paymasterDeposit[p] = Unread THEN [s EXCEPT !.pc = "reading"]
               ELSE Settle(s, s.paymasterDeposit[p])]
    BY <1>0, <1>4 DEF ValidationPassed
  <2> QED BY <2>1 DEF ProcessStep
<1>5. CASE BalanceRead(r)
  <2>1. s.pc = "reading" /\ run' = [run EXCEPT ![r] = Settle(s, balanceOf[p])]
    BY <1>0, <1>5 DEF BalanceRead
  <2> QED BY <2>1 DEF ProcessStep
<1>6. CASE BalanceThrows(r)
  BY <1>6 DEF BalanceThrows, ProcessStep
<1>7. CASE Skip(r)
  BY <1>7 DEF Skip, Continue, ProcessStep
<1>8. CASE Take(r)
  BY <1>8 DEF Take, Continue, ProcessStep
<1>9. CASE ProcessAgain(r)
  BY <1>9 DEF ProcessAgain, Continue, ProcessStep
<1>10. CASE SendBundles(r)
  BY <1>10 DEF SendBundles, ProcessStep
<1> QED BY <1>1, <1>2, <1>3, <1>4, <1>5, <1>6, <1>7, <1>8, <1>9, <1>10 DEF Process

LEMMA RunsUnchanged ==
    ASSUME Requests \/ Loop \/ Blocks \/ UNCHANGED vars
           \/ \E i \in DOMAIN sending : \E ep \in sending[i].left : SendToExecutor(i, ep)
    PROVE  run' = run
<1>1. CASE Requests
  BY <1>1 DEF Requests, add, clear, ReputationChanges
<1>2. CASE Loop
  BY <1>2 DEF Loop, NoResult, markSubmitted, Reject, Resubmit, ResubmitConflicting,
              Included, Reverted, Dropped, replaceSubmitted
<1>3. CASE Blocks
  BY <1>3 DEF Blocks, handleBlock, refreshTransactionStatus, replaceTransaction,
              HandlerThrows, Settled, GasPriceStage, StuckStage, HandlingEnds, NextStage,
              handleTransactionUnderPriced, checkFrontrun
<1>4. CASE UNCHANGED vars
  BY <1>4 DEF vars
<1>5. ASSUME NEW i \in DOMAIN sending, NEW ep \in sending[i].left, SendToExecutor(i, ep)
      PROVE  run' = run
  BY <1>5 DEF SendToExecutor, ParametersFailed, AllFailed, Submitted, InsufficientFunds,
              BundleThrows, Answer
<1> QED BY <1>1, <1>2, <1>3, <1>4, <1>5

-----------------------------------------------------------------------------
(* The invariant of a call of bundle().                                    *)

AdmissibleBundle(b) ==
    /\ Len(b) > 1 => GasOf(b) =< maxGasPerBundle
    /\ safeMode => \A p \in Entities : PrefundOf(b, p) =< balanceOf[p]
    /\ safeMode /\ enforceUniqueSendersPerBundle => SendersOnce(b)

SendersOf(b) == {Sender(o) : o \in ToSet(b)}

AtOp(s) == s.pc \in {"validating", "reading", "decided"}

\* What the deposit kept for p still has to cover.
Taken(s, p) ==
    PrefundOf(s.result, p)
        + IF s.pc = "decided" /\ ~ s.skip /\ userOp[Head(s.rest)].paymaster = p
          THEN userOp[Head(s.rest)].prefund ELSE 0

\* A deposit is kept from its first reading on, less what has been taken.
DepositsKept(s) ==
    \A p \in Entities :
        IF s.paymasterDeposit[p] = Unread THEN Taken(s, p) = 0
        ELSE s.paymasterDeposit[p] + Taken(s, p) =< balanceOf[p]

\* Between two operations of the loop, the senders are those of the result.
SendersKept(s) ==
    enforceUniqueSendersPerBundle =>
        /\ SendersOf(s.result) \subseteq s.senders
        /\ s.pc \in {"validating", "reading"} => Sender(Head(s.rest)) \notin s.senders
        /\ s.pc = "decided" /\ ~ s.skip =>
               /\ Sender(Head(s.rest)) \notin SendersOf(s.result)
               /\ Sender(Head(s.rest)) \in s.senders

RunInv(s) ==
    /\ NeighboursInOrder(s.rest)
    /\ \A b \in ToSet(s.bundles) : AdmissibleBundle(b)
    /\ AdmissibleBundle(s.result)
    /\ AtOp(s) =>
         /\ s.rest # <<>>
         /\ GasOf(s.result) + userOp[Head(s.rest)].gas =< s.gasUsed
         /\ s.result # <<>> => s.gasUsed =< maxGasPerBundle
    /\ s.pc \in {"validating", "reading"} => safeMode /\ s.skip
    /\ s.pc = "reading" =>
           LET p == userOp[Head(s.rest)].paymaster
           IN  p # NoEntity /\ s.paymasterDeposit[p] = Unread
    /\ safeMode => DepositsKept(s) /\ SendersKept(s)

\* The same when the loop is about to look at its next operation.
CoveredBetween(s) ==
    \A p \in Entities :
        IF s.paymasterDeposit[p] = Unread THEN PrefundOf(s.result, p) = 0
        ELSE s.paymasterDeposit[p] + PrefundOf(s.result, p) =< balanceOf[p]

SendersBetween(s) ==
    enforceUniqueSendersPerBundle => SendersOf(s.result) \subseteq s.senders

Between(s) ==
    /\ NeighboursInOrder(s.rest)
    /\ \A b \in ToSet(s.bundles) : AdmissibleBundle(b)
    /\ AdmissibleBundle(s.result)
    /\ GasOf(s.result) =< s.gasUsed
    /\ safeMode => CoveredBetween(s) /\ SendersBetween(s)

LEMMA RunFields ==
    ASSUME NEW s \in RunType
    PROVE  /\ s.rest \in Seq(Ops) /\ s.result \in Seq(Ops) /\ s.bundles \in Seq(Seq(Ops))
           /\ s.gasUsed \in Nat /\ s.skip \in BOOLEAN /\ s.senders \subseteq Senders
           /\ s.paymasterDeposit \in [Entities -> Nat \cup {Unread}]
           /\ GasOf(s.result) \in Nat
           /\ \A p : PrefundOf(s.result, p) \in Nat
           /\ SendersOf(s.result) = {Sender(s.result[i]) : i \in 1..Len(s.result)}
           /\ s.rest # <<>> => /\ Head(s.rest) \in Ops /\ Tail(s.rest) \in Seq(Ops)
                               /\ userOp[Head(s.rest)].gas \in Nat
                               /\ userOp[Head(s.rest)].prefund \in Nat
                               /\ userOp[Head(s.rest)].paymaster \in Entities \cup {NoEntity}
<1>1. /\ s.rest \in Seq(Ops) /\ s.result \in Seq(Ops) /\ s.bundles \in Seq(Seq(Ops))
      /\ s.gasUsed \in Nat /\ s.skip \in BOOLEAN /\ s.senders \subseteq Senders
      /\ s.paymasterDeposit \in [Entities -> Nat \cup {Unread}]
  BY DEF RunType
<1>2. s.rest # <<>> => Head(s.rest) \in Ops /\ Tail(s.rest) \in Seq(Ops)
  BY <1>1, HeadTailProperties
<1>3. SendersOf(s.result) = {Sender(s.result[i]) : i \in 1..Len(s.result)}
  BY <1>1, SequenceElements DEF SendersOf
<1>4. ASSUME Ops # {}
      PROVE  GasOf(s.result) \in Nat /\ \A p : PrefundOf(s.result, p) \in Nat
  BY <1>1, <1>4, GasAppended, PrefundAppended
<1>5. ASSUME Ops = {}
      PROVE  s.result = <<>>
  BY <1>1, <1>5
<1>6. GasOf(s.result) \in Nat /\ \A p : PrefundOf(s.result, p) \in Nat
  BY <1>4, <1>5, NothingSummed
<1> QED BY <1>1, <1>2, <1>3, <1>6, FieldTypes

LEMMA NothingPending ==
    ASSUME NEW s \in RunType, NEW t, t.result = s.result,
           t.pc # "decided" \/ t.skip, NEW p
    PROVE  Taken(t, p) = PrefundOf(s.result, p)
<1>1. Taken(t, p) = PrefundOf(s.result, p) + 0
  BY DEF Taken
<1>2. PrefundOf(s.result, p) \in Nat
  BY RunFields
<1> QED BY <1>1, <1>2

LEMMA IterateKeeps ==
    ASSUME NEW s \in RunType, Between(s)
    PROVE  RunInv(Iterate(s))
<1> DEFINE t == Iterate(s)
           o == Head(s.rest)
<1>1. CASE LoopEnds(s)
  <2>1. t = [s EXCEPT !.pc = "returned"]
    BY <1>1 DEF Iterate
  <2>2. /\ t.pc = "returned" /\ t.rest = s.rest /\ t.bundles = s.bundles
        /\ t.result = s.result /\ t.senders = s.senders
        /\ t.paymasterDeposit = s.paymasterDeposit
    BY <2>1 DEF RunType
  <2> HIDE DEF t
  <2>3. \A p : Taken(t, p) = PrefundOf(s.result, p)
    BY <2>2, NothingPending
  <2>4. ASSUME safeMode PROVE DepositsKept(t) /\ SendersKept(t)
    BY <2>2, <2>3, <2>4 DEF Between, CoveredBetween, SendersBetween, DepositsKept, SendersKept
  <2>5. ~ AtOp(t) /\ ~ (t.pc \in {"validating", "reading"}) /\ t.pc # "reading"
    BY <2>2 DEF AtOp
  <2>6. /\ NeighboursInOrder(t.rest) /\ AdmissibleBundle(t.result)
        /\ \A b \in ToSet(t.bundles) : AdmissibleBundle(b)
    BY <2>2 DEF Between
  <2> HIDE DEF t
  <2>7. RunInv(t)
    BY <2>4, <2>5, <2>6 DEF RunInv
  <2> QED BY <2>7 DEF t
<1>2. CASE ~ LoopEnds(s)
  <2>1. s.rest # <<>> /\ (s.gasUsed + userOp[o].gas =< maxGasPerBundle \/ s.result = <<>>)
    <3>1. s.rest # <<>> /\ (~ (s.gasUsed + userOp[o].gas > maxGasPerBundle) \/ s.result = <<>>)
      BY <1>2 DEF LoopEnds
    <3> QED BY <3>1, RunFields, MempoolAssumption
  <2>2. t = [s EXCEPT !.gasUsed = @ + userOp[o].gas,
                      !.pc = IF safeMode /\ ~ Screened(o, s) THEN "validating"
                             ELSE "decided",
                      !.skip = safeMode]
    BY <1>2 DEF Iterate
  <2>3. /\ t.pc = IF safeMode /\ ~ Screened(o, s) THEN "validating" ELSE "decided"
        /\ t.rest = s.rest /\ t.bundles = s.bundles
        /\ t.result = s.result /\ t.senders = s.senders
        /\ t.paymasterDeposit = s.paymasterDeposit
        /\ t.gasUsed = s.gasUsed + userOp[o].gas /\ t.skip = safeMode
    BY <2>2 DEF RunType
  <2> HIDE DEF t
  <2>4. safeMode => \A p : Taken(t, p) = PrefundOf(s.result, p)
    BY <2>3, NothingPending
  <2>5. GasOf(t.result) + userOp[o].gas =< t.gasUsed
    BY <2>1, <2>3, RunFields DEF Between
  <2>6. safeMode => DepositsKept(t) /\ SendersKept(t)
    BY <2>3, <2>4 DEF Between, CoveredBetween, SendersBetween, DepositsKept, SendersKept, Screened
  <2>7. t.rest # <<>> /\ (t.result # <<>> => t.gasUsed =< maxGasPerBundle)
    BY <2>1, <2>3
  <2>8. t.pc \in {"validating", "reading"} => safeMode /\ t.skip
    BY <2>3
  <2>9. t.pc # "reading"
    BY <2>3
  <2>10. /\ NeighboursInOrder(t.rest) /\ AdmissibleBundle(t.result)
         /\ \A b \in ToSet(t.bundles) : AdmissibleBundle(b)
    BY <2>3 DEF Between
  <2>11. o = Head(t.rest)
    BY <2>3
  <2> HIDE DEF o
  <2>12. RunInv(t)
    BY <2>5, <2>6, <2>7, <2>8, <2>9, <2>10, <2>11 DEF RunInv
  <2> QED BY <2>12 DEF t
<1> QED BY <1>1, <1>2

LEMMA EmptyBundle == AdmissibleBundle(<<>>) /\ SendersOf(<<>>) = {} /\ GasOf(<<>>) = 0
<1>1. Len(<<>>) = 0 /\ ToSet(<<>>) = {}
  BY DEF ToSet
<1>2. SendersOnce(<<>>)
  BY DEF SendersOnce
<1> QED BY <1>1, <1>2, NothingSummed, MempoolAssumption DEF AdmissibleBundle, SendersOf

LEMMA NewRunInv == RunInv(NewRun)
<1>1. /\ NewRun.pc = "idle" /\ NewRun.rest = <<>> /\ NewRun.bundles = <<>>
      /\ NewRun.result = <<>> /\ NewRun.senders = {}
      /\ \A e \in Entities : NewRun.paymasterDeposit[e] = Unread
  BY DEF NewRun
<1>2. NeighboursInOrder(<<>>) /\ ToSet(<<>>) = {}
  BY DEF NeighboursInOrder, ToSet
<1>3. \A p : Taken(NewRun, p) = 0
  BY <1>1, NothingSummed DEF Taken
<1> QED BY <1>1, <1>2, <1>3, EmptyBundle DEF RunInv, AtOp, DepositsKept, SendersKept

LEMMA StartedBetween ==
    ASSUME TypeOK, NEW now \in BOOLEAN, NEW bundles \in Seq(Seq(Ops)),
           \A b \in ToSet(bundles) : AdmissibleBundle(b)
    PROVE  Between(Started(now, bundles))
<1> DEFINE s == Started(now, bundles)
<1>1. /\ s.rest = V8Sort(outstanding) /\ s.bundles = bundles /\ s.result = <<>>
      /\ s.gasUsed = 0 /\ s.senders = {}
      /\ \A e \in Entities : s.paymasterDeposit[e] = Unread
  BY DEF Started, NewRun
<1>2. NeighboursInOrder(V8Sort(outstanding))
  BY SortProperties DEF TypeOK, Ordered
<1> HIDE DEF s
<1>3. CoveredBetween(s)
  BY <1>1, NothingSummed DEF CoveredBetween
<1>4. SendersBetween(s) /\ AdmissibleBundle(s.result) /\ GasOf(s.result) =< s.gasUsed
  BY <1>1, EmptyBundle DEF SendersBetween
<1>5. NeighboursInOrder(s.rest) /\ \A b \in ToSet(s.bundles) : AdmissibleBundle(b)
  BY <1>1, <1>2
<1>6. Between(s)
  BY <1>3, <1>4, <1>5 DEF Between
<1> QED BY <1>6 DEF s

LEMMA TailInOrder ==
    ASSUME NEW s \in Seq(Ops), s # <<>>, NeighboursInOrder(s)
    PROVE  NeighboursInOrder(Tail(s))
<1>1. /\ Tail(s) \in Seq(Ops) /\ Len(Tail(s)) = Len(s) - 1
      /\ \A i \in 1..Len(Tail(s)) : Tail(s)[i] = s[i + 1]
  BY HeadTailProperties
<1> QED BY <1>1 DEF NeighboursInOrder

LEMMA SkipBetween ==
    ASSUME NEW s \in RunType, RunInv(s), s.pc = "decided", s.skip
    PROVE  Between([s EXCEPT !.rest = Tail(@)])
<1> DEFINE t == [s EXCEPT !.rest = Tail(@)]
<1>1. /\ t.rest = Tail(s.rest) /\ t.bundles = s.bundles /\ t.result = s.result
      /\ t.gasUsed = s.gasUsed /\ t.senders = s.senders
      /\ t.paymasterDeposit = s.paymasterDeposit
  BY DEF RunType
<1> HIDE DEF t
<1>2. s.rest # <<>> /\ NeighboursInOrder(Tail(s.rest))
  BY RunFields, TailInOrder DEF RunInv, AtOp
<1>3. GasOf(s.result) =< s.gasUsed
  BY <1>2, RunFields DEF RunInv, AtOp
<1>4. \A p : Taken(s, p) = PrefundOf(s.result, p)
  BY NothingPending
<1> QED BY <1>1, <1>2, <1>3, <1>4 DEF Between, CoveredBetween, SendersBetween, RunInv, DepositsKept, SendersKept

LEMMA TakeBetween ==
    ASSUME NEW s \in RunType, RunInv(s), s.pc = "decided", ~ s.skip
    PROVE  Between([s EXCEPT !.rest = Tail(@), !.result = Append(@, Head(s.rest))])
<1> DEFINE o == Head(s.rest)
           b == Append(s.result, o)
           t == [s EXCEPT !.rest = Tail(@), !.result = Append(@, Head(s.rest))]
<1>1. /\ t.rest = Tail(s.rest) /\ t.bundles = s.bundles /\ t.result = b
      /\ t.gasUsed = s.gasUsed /\ t.senders = s.senders
      /\ t.paymasterDeposit = s.paymasterDeposit
  BY DEF RunType
<1> HIDE DEF t
<1>2. s.rest # <<>> /\ NeighboursInOrder(Tail(s.rest))
  BY RunFields, TailInOrder DEF RunInv, AtOp
<1>3. o \in Ops /\ s.result \in Seq(Ops)
  BY <1>2, RunFields
<1> HIDE DEF o
<1>4. /\ b \in Seq(Ops) /\ Len(b) = Len(s.result) + 1 /\ b[Len(s.result) + 1] = o
      /\ \A i \in 1..Len(s.result) : b[i] = s.result[i]
      /\ ToSet(b) = ToSet(s.result) \cup {o}
  BY <1>3, AppendProperties, AppendElements
<1>5. /\ GasOf(b) = GasOf(s.result) + userOp[o].gas
      /\ \A p : PrefundOf(b, p) = Taken(s, p) /\ PrefundOf(b, p) \in Nat
  <2>1. GasOf(b) = GasOf(s.result) + userOp[o].gas
    BY <1>3, GasAppended
  <2>2. ASSUME NEW p PROVE PrefundOf(b, p) = Taken(s, p) /\ PrefundOf(b, p) \in Nat
    <3> DEFINE before == s.result
    <3>1. before \in Seq(Ops) /\ b = Append(before, o)
      BY <1>3
    <3> HIDE DEF before, b
    <3>2. /\ PrefundOf(b, p) =
                PrefundOf(before, p) + IF userOp[o].paymaster = p THEN userOp[o].prefund ELSE 0
      BY <1>3, <3>1, PrefundAppended
    <3>3. PrefundOf(b, p) \in Nat
      BY <1>3, <1>4, PrefundAppended
    <3> QED BY <3>2, <3>3 DEF Taken, o, before
  <2> QED BY <2>1, <2>2
<1> HIDE DEF b
<1>6. GasOf(b) =< s.gasUsed
  BY <1>2, <1>5 DEF RunInv, AtOp, o
<1>7. Len(b) > 1 => GasOf(b) =< maxGasPerBundle
  <2>1. ASSUME Len(b) > 1
        PROVE  GasOf(b) =< maxGasPerBundle
    <3>1. s.result # <<>>
      BY <1>3, <1>4, <2>1
    <3>2. s.gasUsed =< maxGasPerBundle
      BY <3>1 DEF RunInv, AtOp
    <3> QED BY <1>2, <1>3, <1>5, <1>6, <3>2, RunFields, MempoolAssumption DEF o
  <2> QED BY <2>1
<1>8. ASSUME safeMode, NEW p \in Entities
      PROVE  /\ IF s.paymasterDeposit[p] = Unread THEN PrefundOf(b, p) = 0
                ELSE s.paymasterDeposit[p] + PrefundOf(b, p) =< balanceOf[p]
             /\ PrefundOf(b, p) =< balanceOf[p]
  <2>1. IF s.paymasterDeposit[p] = Unread THEN PrefundOf(b, p) = 0
        ELSE s.paymasterDeposit[p] + PrefundOf(b, p) =< balanceOf[p]
    BY <1>5, <1>8 DEF RunInv, DepositsKept
  <2>2. s.paymasterDeposit[p] \in Nat \cup {Unread} /\ balanceOf[p] \in Nat
    BY RunFields, MempoolAssumption
  <2>3. PrefundOf(b, p) \in Nat
    BY <1>5
  <2> QED BY <2>1, <2>2, <2>3
<1>9. ASSUME safeMode, enforceUniqueSendersPerBundle
      PROVE  SendersOf(b) \subseteq s.senders /\ SendersOnce(b)
  <2>1. /\ SendersOf(s.result) \subseteq s.senders /\ SendersOnce(s.result)
        /\ Sender(o) \notin SendersOf(s.result) /\ Sender(o) \in s.senders
    BY <1>9 DEF RunInv, SendersKept, AdmissibleBundle, o
  <2>2. SendersOf(b) = SendersOf(s.result) \cup {Sender(o)}
    BY <1>4 DEF SendersOf
  <2>3. ASSUME NEW i \in 1..Len(s.result)
        PROVE  Sender(b[i]) # Sender(o) /\ b[i] = s.result[i]
    <3>1. Sender(s.result[i]) \in SendersOf(s.result)
      BY RunFields
    <3> QED BY <1>4, <2>1, <3>1
  <2>4. SendersOnce(b)
    <3>1. /\ DOMAIN b = 1..(Len(s.result) + 1) /\ DOMAIN s.result = 1..Len(s.result)
          /\ Len(s.result) \in Nat
      BY <1>3, <1>4
    <3> DEFINE n == Len(s.result)
    <3>2. \A i \in DOMAIN b : i \in 1..n \/ i = n + 1
      BY <3>1
    <3> HIDE DEF n
    <3> QED BY <1>4, <2>1, <2>3, <3>1, <3>2 DEF SendersOnce, n
  <2> QED BY <2>1, <2>2, <2>4
<1>10. AdmissibleBundle(b)
  BY <1>7, <1>8, <1>9 DEF AdmissibleBundle
<1>11. \A x \in ToSet(t.bundles) : AdmissibleBundle(x)
  BY <1>1 DEF RunInv
<1>12. safeMode => CoveredBetween(t)
  BY <1>1, <1>8 DEF CoveredBetween
<1>13. safeMode => SendersBetween(t)
  BY <1>1, <1>9 DEF SendersBetween
<1>14. NeighboursInOrder(t.rest) /\ AdmissibleBundle(t.result) /\ GasOf(t.result) =< t.gasUsed
  BY <1>1, <1>2, <1>6, <1>10
<1>15. Between(t)
  BY <1>11, <1>12, <1>13, <1>14 DEF Between
<1> QED BY <1>15 DEF t

\* shouldSkip from the paymaster's deposit on.
LEMMA SettleKeeps ==
    ASSUME NEW s \in RunType, RunInv(s), s.pc \in {"validating", "reading"},
           NEW deposit \in Nat,
           LET p == userOp[Head(s.rest)].paymaster
           IN  p # NoEntity => deposit = IF s.paymasterDeposit[p] = Unread
                                         THEN balanceOf[p] ELSE s.paymasterDeposit[p]
    PROVE  RunInv(Settle(s, deposit))
<1> DEFINE o == Head(s.rest)
           p == userOp[o].paymaster
           t == Settle(s, deposit)
           enough == ~ (p # NoEntity /\ deposit < userOp[o].prefund)
<1>1. /\ s.rest # <<>> /\ safeMode
      /\ GasOf(s.result) + userOp[o].gas =< s.gasUsed
      /\ s.result # <<>> => s.gasUsed =< maxGasPerBundle
      /\ NeighboursInOrder(s.rest) /\ AdmissibleBundle(s.result)
      /\ \A b \in ToSet(s.bundles) : AdmissibleBundle(b)
      /\ DepositsKept(s) /\ SendersKept(s)
  BY DEF RunInv, AtOp
<1>2. userOp[o].prefund \in Nat /\ p \in Entities \cup {NoEntity} /\ NoEntity \notin Entities
  BY <1>1, RunFields DEF Entities
<1>3. /\ t.pc = "decided" /\ t.rest = s.rest /\ t.bundles = s.bundles
      /\ t.result = s.result /\ t.gasUsed = s.gasUsed
      /\ t.skip = ~ enough
      /\ t.senders = IF enough THEN s.senders \cup {Sender(o)} ELSE s.senders
      /\ t.paymasterDeposit =
             Deposit(s.paymasterDeposit, p, IF enough THEN deposit - userOp[o].prefund
                                            ELSE deposit)
  <2>1. CASE enough
    <3>1. t = Counted(s, deposit)
      BY <2>1 DEF Settle
    <3> HIDE DEF t, enough
    <3> QED BY <2>1, <3>1 DEF Counted, RunType
  <2>2. CASE ~ enough
    <3>1. t = [s EXCEPT !.pc = "decided", !.skip = TRUE,
                        !.paymasterDeposit = Deposit(@, p, deposit)]
      BY <2>2 DEF Settle
    <3> HIDE DEF t, enough
    <3> QED BY <2>2, <3>1 DEF RunType
  <2> QED BY <2>1, <2>2
<1> HIDE DEF t
<1>4. ASSUME NEW q \in Entities
      PROVE  IF t.paymasterDeposit[q] = Unread THEN Taken(t, q) = 0
             ELSE t.paymasterDeposit[q] + Taken(t, q) =< balanceOf[q]
  <2>1. /\ PrefundOf(s.result, q) \in Nat /\ balanceOf[q] \in Nat
        /\ s.paymasterDeposit[q] \in Nat \cup {Unread}
    BY RunFields, MempoolAssumption
  <2>2. IF s.paymasterDeposit[q] = Unread THEN PrefundOf(s.result, q) = 0
        ELSE s.paymasterDeposit[q] + PrefundOf(s.result, q) =< balanceOf[q]
    <3>1. Taken(s, q) = PrefundOf(s.result, q)
      BY NothingPending
    <3> QED BY <1>1, <3>1 DEF DepositsKept
  <2>3. Taken(t, q) = PrefundOf(s.result, q)
                        + IF enough /\ p = q THEN userOp[o].prefund ELSE 0
    BY <1>3 DEF Taken
  <2>4. t.paymasterDeposit[q] =
            IF q = p THEN (IF enough THEN deposit - userOp[o].prefund ELSE deposit)
            ELSE s.paymasterDeposit[q]
    BY <1>3 DEF Deposit
  <2>5. CASE q # p
    BY <2>1, <2>2, <2>3, <2>4, <2>5
  <2>6. CASE q = p
    <3>1. p # NoEntity
      BY <1>2, <2>6
    <3>2. deposit + PrefundOf(s.result, q) =< balanceOf[q]
      BY <2>1, <2>2, <2>6, <3>1
    <3>3. CASE enough
      <4>1. deposit >= userOp[o].prefund
        BY <1>2, <3>1, <3>3
      <4>2. t.paymasterDeposit[q] = deposit - userOp[o].prefund
            /\ Taken(t, q) = PrefundOf(s.result, q) + userOp[o].prefund
        BY <2>3, <2>4, <2>6, <3>3
      <4> QED BY <1>2, <2>1, <3>2, <4>1, <4>2 DEF Unread
    <3>4. CASE ~ enough
      <4>2. t.paymasterDeposit[q] = deposit /\ Taken(t, q) = PrefundOf(s.result, q) + 0
        BY <2>3, <2>4, <2>6, <3>4
      <4> QED BY <2>1, <3>2, <4>2 DEF Unread
    <3> QED BY <3>3, <3>4
  <2> QED BY <2>5, <2>6
<1>5. DepositsKept(t)
  BY <1>4 DEF DepositsKept
<1>6. SendersKept(t)
  <2> SUFFICES ASSUME enforceUniqueSendersPerBundle
               PROVE  /\ SendersOf(t.result) \subseteq t.senders
                      /\ enough => /\ Sender(o) \notin SendersOf(s.result)
                                   /\ Sender(o) \in t.senders
    BY <1>3 DEF SendersKept
  <2>1. SendersOf(s.result) \subseteq s.senders /\ Sender(o) \notin s.senders
    BY <1>1 DEF SendersKept
  <2> HIDE DEF enough
  <2> QED BY <1>3, <2>1
<1>7. RunInv(t)
  <2>1. /\ NeighboursInOrder(t.rest) /\ AdmissibleBundle(t.result)
        /\ \A b \in ToSet(t.bundles) : AdmissibleBundle(b)
        /\ t.rest # <<>> /\ GasOf(t.result) + userOp[Head(t.rest)].gas =< t.gasUsed
        /\ t.result # <<>> => t.gasUsed =< maxGasPerBundle
        /\ ~ (t.pc \in {"validating", "reading"}) /\ t.pc # "reading"
    BY <1>1, <1>3
  <2> QED BY <1>5, <1>6, <2>1 DEF RunInv
<1> QED BY <1>7 DEF t

LEMMA ProcessStepKeeps ==
    ASSUME TypeOK, NEW s \in RunType, RunInv(s), NEW t, ProcessStep(s, t)
    PROVE  RunInv(t)
<1> DEFINE p == userOp[Head(s.rest)].paymaster
<1>0. s.bundles \in Seq(Seq(Ops)) /\ s.result \in Seq(Ops)
  BY RunFields
<1>1. CASE t = NewRun
  BY <1>1, NewRunInv
<1>2. ASSUME NEW now \in BOOLEAN, t = Iterate(Started(now, <<>>))
      PROVE  RunInv(t)
  <2>1. <<>> \in Seq(Seq(Ops)) /\ ToSet(<<>>) = {}
    BY DEF ToSet
  <2> QED BY <1>2, <2>1, StartedType, StartedBetween, IterateKeeps
<1>3. CASE s.pc = "returned" /\ t = Iterate(Started(FALSE, Append(s.bundles, s.result)))
  <2> DEFINE b == Append(s.bundles, s.result)
  <2>1. b \in Seq(Seq(Ops)) /\ ToSet(b) = ToSet(s.bundles) \cup {s.result}
    BY <1>0, AppendElements
  <2>2. \A x \in ToSet(b) : AdmissibleBundle(x)
    BY <2>1 DEF RunInv
  <2> HIDE DEF b
  <2>3. Started(FALSE, b) \in RunType /\ Between(Started(FALSE, b))
    BY <2>1, <2>2, StartedType, StartedBetween
  <2>4. t = Iterate(Started(FALSE, b))
    BY <1>3 DEF b
  <2> QED BY <2>3, <2>4, IterateKeeps
<1>4. CASE s.pc = "validating" /\ t = [s EXCEPT !.pc = "decided"]
  <2>1. /\ t.pc = "decided" /\ t.rest = s.rest /\ t.bundles = s.bundles
        /\ t.result = s.result /\ t.gasUsed = s.gasUsed /\ t.skip = s.skip
        /\ t.senders = s.senders /\ t.paymasterDeposit = s.paymasterDeposit
    BY <1>4 DEF RunType
  <2>2. AtOp(s) /\ AtOp(t) /\ safeMode /\ s.skip
    BY <1>4, <2>1 DEF RunInv, AtOp
  <2>3. \A q : Taken(t, q) = PrefundOf(s.result, q) /\ Taken(s, q) = PrefundOf(s.result, q)
    BY <2>1, <2>2, NothingPending
  <2>4. DepositsKept(t) /\ SendersKept(t)
    BY <2>1, <2>2, <2>3 DEF RunInv, DepositsKept, SendersKept
  <2>5. /\ NeighboursInOrder(t.rest) /\ AdmissibleBundle(t.result)
        /\ \A b \in ToSet(t.bundles) : AdmissibleBundle(b)
        /\ t.rest # <<>> /\ GasOf(t.result) + userOp[Head(t.rest)].gas =< t.gasUsed
        /\ t.result # <<>> => t.gasUsed =< maxGasPerBundle
        /\ ~ (t.pc \in {"validating", "reading"}) /\ t.pc # "reading"
    BY <2>1, <2>2 DEF RunInv
  <2> QED BY <2>4, <2>5 DEF RunInv
<1>5. CASE s.pc = "validating" /\ p = NoEntity /\ t = Settle(s, 0)
  BY <1>5, SettleKeeps
<1>6. CASE /\ s.pc = "validating" /\ p # NoEntity /\ s.paymasterDeposit[p] = Unread
           /\ t = [s EXCEPT !.pc = "reading"]
  <2>1. /\ t.pc = "reading" /\ t.rest = s.rest /\ t.bundles = s.bundles
        /\ t.result = s.result /\ t.gasUsed = s.gasUsed /\ t.skip = s.skip
        /\ t.senders = s.senders /\ t.paymasterDeposit = s.paymasterDeposit
    BY <1>6 DEF RunType
  <2>2. AtOp(s) /\ AtOp(t) /\ safeMode /\ s.skip
    BY <1>6, <2>1 DEF RunInv, AtOp
  <2>3. \A q : Taken(t, q) = PrefundOf(s.result, q) /\ Taken(s, q) = PrefundOf(s.result, q)
    BY <2>1, <2>2, NothingPending
  <2>4. DepositsKept(t) /\ SendersKept(t)
    BY <1>6, <2>1, <2>2, <2>3 DEF RunInv, DepositsKept, SendersKept
  <2>5. /\ NeighboursInOrder(t.rest) /\ AdmissibleBundle(t.result)
        /\ \A b \in ToSet(t.bundles) : AdmissibleBundle(b)
        /\ t.rest # <<>> /\ GasOf(t.result) + userOp[Head(t.rest)].gas =< t.gasUsed
        /\ t.result # <<>> => t.gasUsed =< maxGasPerBundle
        /\ t.skip
    BY <2>1, <2>2 DEF RunInv
  <2>6. Head(t.rest) = Head(s.rest)
    BY <2>1
  <2> QED BY <1>6, <2>1, <2>2, <2>4, <2>5, <2>6 DEF RunInv
<1>7. CASE /\ s.pc = "validating" /\ p # NoEntity /\ s.paymasterDeposit[p] # Unread
           /\ t = Settle(s, s.paymasterDeposit[p])
  <2>1. s.rest # <<>>
    BY <1>7 DEF RunInv, AtOp
  <2>2. p \in Entities
    BY <1>7, <2>1, RunFields
  <2>3. s.paymasterDeposit[p] \in Nat
    BY <1>7, <2>2, RunFields
  <2> QED BY <1>7, <2>3, SettleKeeps
<1>8. CASE s.pc = "reading" /\ t = Settle(s, balanceOf[p])
  <2>1. s.rest # <<>> /\ p # NoEntity /\ s.paymasterDeposit[p] = Unread
    BY <1>8 DEF RunInv, AtOp
  <2>2. p \in Entities
    BY <2>1, RunFields
  <2>3. balanceOf[p] \in Nat
    BY <2>2, MempoolAssumption
  <2> QED BY <1>8, <2>1, <2>3, SettleKeeps
<1>9. CASE s.pc = "decided" /\ s.skip /\ t = Iterate([s EXCEPT !.rest = Tail(@)])
  <2>1. Tail(s.rest) \in Seq(Ops)
    BY <1>9, RunFields DEF RunInv, AtOp
  <2>2. [s EXCEPT !.rest = Tail(@)] \in RunType
    BY <2>1 DEF RunType
  <2> QED BY <1>9, <2>2, SkipBetween, IterateKeeps
<1>10. CASE /\ s.pc = "decided" /\ ~ s.skip
            /\ t = Iterate([s EXCEPT !.rest = Tail(@), !.result = Append(@, Head(s.rest))])
  <2>1. Tail(s.rest) \in Seq(Ops) /\ Head(s.rest) \in Ops
    BY <1>10, RunFields DEF RunInv, AtOp
  <2>2. Append(s.result, Head(s.rest)) \in Seq(Ops)
    BY <1>0, <2>1
  <2>3. [s EXCEPT !.rest = Tail(@), !.result = Append(@, Head(s.rest))] \in RunType
    BY <2>1, <2>2 DEF RunType
  <2> QED BY <1>10, <2>3, TakeBetween, IterateKeeps
<1> QED BY <1>1, <1>2, <1>3, <1>4, <1>5, <1>6, <1>7, <1>8, <1>9, <1>10 DEF ProcessStep

-----------------------------------------------------------------------------
(* The theorems about process().                                           *)

ProcessInv == IInv /\ \A r \in Runners : RunInv(run[r])

LEMMA NextProcessInv ==
    ASSUME ProcessInv, [Next]_vars
    PROVE  ProcessInv'
<1>1. IInv'
  BY NextIInv DEF ProcessInv
<1>2. CASE run' = run
  BY <1>1, <1>2 DEF ProcessInv
<1>3. ASSUME NEW r \in Runners, bundle(r) \/ Process(r)
      PROVE  \A q \in Runners : RunInv(run'[q])
  <2>1. PICK t : run' = [run EXCEPT ![r] = t] /\ ProcessStep(run[r], t)
    BY <1>3, ProcessSteps DEF ProcessInv
  <2>2. TypeOK /\ run \in [Runners -> RunType] /\ RunInv(run[r])
    BY DEF ProcessInv, IInv, TypeOK
  <2>3. RunInv(t)
    BY <2>1, <2>2, ProcessStepKeeps
  <2> QED BY <2>1, <2>2, <2>3 DEF ProcessInv
<1>4. run' = run \/ \E r \in Runners : bundle(r) \/ Process(r)
  BY RunsUnchanged DEF Next, Bundling
<1> QED BY <1>1, <1>2, <1>3, <1>4 DEF ProcessInv

LEMMA ProcessInvAlways == Spec => []ProcessInv
<1>1. Init => ProcessInv
  <2> SUFFICES ASSUME Init PROVE ProcessInv
    OBVIOUS
  <2>1. \A r \in Runners : run[r] = NewRun
    BY DEF Init
  <2> QED BY <2>1, InitIInv, NewRunInv DEF ProcessInv
<1>2. ProcessInv /\ [Next]_vars => ProcessInv'
  BY NextProcessInv
<1> QED BY <1>1, <1>2, PTL DEF Spec

\* Whatever is skipped, rejected or read anew between the awaits, and however
\* many calls run at once, every bundle that process() is filling or has
\* returned is within the gas limit (unless it is a single operation), is
\* covered by its paymasters' deposits, and has no sender twice if that is
\* asked for: the checks are made of single operations, before they are taken.
THEOREM Admissible == Spec => []BundlesAdmissible
<1>1. ProcessInv => BundlesAdmissible
  <2> SUFFICES ASSUME ProcessInv, NEW b \in Bundles
               PROVE  AdmissibleBundle(b)
    BY DEF BundlesAdmissible, BundlesWithinGas, PaymastersCovered, SendersOncePerBundle,
           AdmissibleBundle, GasOf, PrefundOf
  <2>1. PICK r \in Runners : b \in ToSet(Append(run[r].bundles, run[r].result))
    BY DEF Bundles
  <2>2. run[r] \in RunType /\ RunInv(run[r])
    BY DEF ProcessInv, IInv, TypeOK
  <2>3. run[r].bundles \in Seq(Seq(Ops)) /\ run[r].result \in Seq(Ops)
    BY <2>2 DEF RunType
  <2>4. b \in ToSet(run[r].bundles) \cup {run[r].result}
    BY <2>1, <2>3, AppendElements
  <2> QED BY <2>2, <2>4 DEF RunInv
<1> QED BY <1>1, ProcessInvAlways, PTL

\* A call of process() considers neighbours of one sender by key and nonce, however
\* the operations came, were resubmitted and lie among those of other senders: what
\* the comparator says of one sender is respected wherever it is asked, although the
\* sort cannot order a list for which the answers are inconsistent.
THEOREM SenderInOrder == Spec => []ConsideredInOrder
<1>1. ProcessInv => ConsideredInOrder
  <2> SUFFICES ASSUME ProcessInv, NEW r \in Runners,
                      NEW i \in 1..(Len(run[r].rest) - 1),
                      Sender(run[r].rest[i]) = Sender(run[r].rest[i + 1])
               PROVE  LET a == userOp[run[r].rest[i]]
                          b == userOp[run[r].rest[i + 1]] IN
                      \/ a.nonceKey < b.nonceKey
                      \/ a.nonceKey = b.nonceKey /\ a.nonceValue =< b.nonceValue
    BY DEF ConsideredInOrder
  <2> DEFINE s == run[r].rest
  <2>1. run[r] \in RunType /\ RunInv(run[r])
    BY DEF ProcessInv, IInv, TypeOK
  <2>2. s \in Seq(Ops) /\ NeighboursInOrder(s)
    BY <2>1 DEF RunType, RunInv
  <2>3. ~ compare(s[i + 1], s[i]) < 0 /\ s[i] \in Ops /\ s[i + 1] \in Ops
    BY <2>2 DEF NeighboursInOrder
  <2> HIDE DEF s
  <2>4. /\ userOp[s[i]].nonceKey \in Nat /\ userOp[s[i]].nonceValue \in Nat
        /\ userOp[s[i + 1]].nonceKey \in Nat /\ userOp[s[i + 1]].nonceValue \in Nat
    BY <2>3, OpsAssumption
  <2>5. Sender(s[i]) = Sender(s[i + 1])
    BY DEF s
  <2> QED BY <2>3, <2>4, <2>5 DEF compare, s
<1> QED BY <1>1, ProcessInvAlways, PTL

-----------------------------------------------------------------------------
(* One call of bundle() at a time: every operation is in one store.        *)

OneRunner == \A r, q \in Runners : r = q

LEMMA OneRunnerFinite ==
    ASSUME OneRunner
    PROVE  IsFiniteSet(Runners)
<1>1. CASE Runners = {}
  BY <1>1, FS_EmptySet
<1>2. ASSUME NEW r \in Runners
      PROVE  IsFiniteSet(Runners)
  <2>1. Runners = {r}
    BY DEF OneRunner
  <2> QED BY <2>1, FS_Singleton
<1> QED BY <1>1, <1>2

DistinctOps(s) == \A i, j \in 1..Len(s) : s[i].op = s[j].op => i = j

LEMMA RemoveSubmittedExact ==
    ASSUME submitted \in Seq(Entry), DistinctOps(submitted), NEW o
    PROVE  /\ removeSubmitted(o) \in Seq(Entry)
           /\ DistinctOps(removeSubmitted(o))
           /\ ToSet(removeSubmitted(o)) = {e \in ToSet(submitted) : e.op # o}
           /\ SubmittedOps(removeSubmitted(o)) = SubmittedOps(submitted) \ {o}
<1> DEFINE s == submitted
           t == removeSubmitted(o)
           I == {i \in 1..Len(s) : s[i].op = o}
           k == Min(I)
<1>1. t \in Seq(Entry)
  BY RemoveSubmitted
<1>2. ToSet(s) = {s[i] : i \in 1..Len(s)} /\ ToSet(t) = {t[i] : i \in 1..Len(t)}
  BY <1>1, SequenceElements
<1>3. DistinctOps(t) /\ ToSet(t) = {e \in ToSet(s) : e.op # o}
  <2>1. CASE I = {}
    <3>1. t = s
      BY <2>1 DEF removeSubmitted, RemoveFirstMatch
    <3> QED BY <1>2, <2>1, <3>1
  <2>2. CASE I # {}
    <3>1. k \in I
      <4>1. I \in SUBSET Nat
        OBVIOUS
      <4> HIDE DEF I
      <4> QED BY <2>2, <4>1, FirstPosition
    <3>2. t = RemoveAt(s, k)
      BY <2>2 DEF removeSubmitted, RemoveFirstMatch, SelectInSeq
    <3>3. k \in 1..Len(s) /\ s[k].op = o
      BY <3>1
    <3> HIDE DEF k, t
    <3>4. /\ Len(t) = Len(s) - 1
          /\ \A i \in 1..(Len(s) - 1) : t[i] = IF i < k THEN s[i] ELSE s[i + 1]
      BY <3>2, <3>3, RemoveAtProperties
    <3>5. IsInjective(s)
      BY SequenceElements DEF DistinctOps
    <3>6. ToSet(t) = ToSet(s) \ {s[k]}
      BY <3>2, <3>3, <3>5, RemoveAtElements
    <3>7. \A i \in 1..Len(s) : s[i].op = o => i = k
      BY <3>3 DEF DistinctOps
    <3>8. DistinctOps(t)
      BY <3>3, <3>4 DEF DistinctOps
    <3> QED BY <1>2, <3>3, <3>6, <3>7, <3>8
  <2> QED BY <2>1, <2>2
<1>4. SubmittedOps(t) = SubmittedOps(s) \ {o}
  BY <1>1, <1>3, SubmittedElements
<1> QED BY <1>1, <1>3, <1>4

LEMMA AppendSubmittedExact ==
    ASSUME NEW s \in Seq(Entry), DistinctOps(s), NEW e \in Entry,
           e.op \notin SubmittedOps(s)
    PROVE  DistinctOps(Append(s, e))
<1> DEFINE t == Append(s, e)
<1>1. /\ Len(t) = Len(s) + 1 /\ t[Len(s) + 1] = e
      /\ \A i \in 1..Len(s) : t[i] = s[i]
  BY AppendProperties
<1> HIDE DEF t
<1>2. \A i \in 1..Len(t) : i \in 1..Len(s) \/ i = Len(s) + 1
  BY <1>1
<1>3. \A i \in 1..Len(s) : s[i].op # e.op
  BY DEF SubmittedOps
<1>4. DistinctOps(t)
  BY <1>1, <1>2, <1>3 DEF DistinctOps
<1> QED BY <1>4 DEF t

\* What is still to be considered is in neither of the two other stores.
RestFresh ==
    \A r \in Runners :
        /\ IsInjective(run[r].rest)
        /\ ToSet(run[r].rest) \cap Busy(processing, submitted) = {}

CustodyInv == IInv /\ SingleCustody /\ RestFresh

Apart(proc, subm) ==
    /\ IsInjective(proc)
    /\ DistinctOps(subm)
    /\ ToSet(proc) \cap SubmittedOps(subm) = {}

LEMMA CustodyIsApart ==
    ASSUME submitted \in Seq(Entry)
    PROVE  SingleCustody <=> Apart(processing, submitted)
BY DEF SingleCustody, Apart, DistinctOps

\* The loops only move operations from the processing store to the submitted
\* one, or out of both.
LEMMA LoopKeepsApart ==
    ASSUME IInv, Apart(processing, submitted), Loop
    PROVE  /\ Apart(processing', submitted')
           /\ Busy(processing', submitted') \subseteq Busy(processing, submitted)
<1> DEFINE t == Head(todo)
           o == t.op
           entry == [op |-> o, tx |-> t.tx]
<1>0. /\ todo # <<>> /\ todo' = Tail(todo)
  BY DEF Loop, Iteration, NoResult, markSubmitted, Reject, Resubmit,
         ResubmitConflicting, Included, Reverted, Dropped, replaceSubmitted
<1>1. t \in Task /\ t.op \in Ops /\ t.tx \in Seq(Ops)
  <2>1. t \in Task
    BY <1>0, HeadTailProperties DEF IInv, TypeOK
  <2> QED BY <2>1 DEF Task
<1>2. entry \in Entry /\ entry.op = o
  BY <1>1 DEF Entry
<1>3. processing \in Seq(Ops) /\ submitted \in Seq(Entry)
      /\ IsInjective(processing) /\ DistinctOps(submitted)
      /\ ToSet(processing) \cap SubmittedOps(submitted) = {}
  BY DEF IInv, TypeOK, Apart
<1> DEFINE proc == RemoveFirst(processing, o)
           subm == removeSubmitted(o)
<1>4. /\ proc \in Seq(Ops) /\ IsInjective(proc) /\ ToSet(proc) = ToSet(processing) \ {o}
      /\ subm \in Seq(Entry) /\ DistinctOps(subm)
      /\ SubmittedOps(subm) = SubmittedOps(submitted) \ {o}
  BY <1>3, RemoveFirstProperties, RemoveSubmittedExact
<1> HIDE DEF t, proc, subm, entry
<1>5. CASE processing' = proc /\ submitted' = submitted
  BY <1>3, <1>4, <1>5 DEF Apart, Busy
<1>6. CASE processing' = processing /\ submitted' = subm
  BY <1>3, <1>4, <1>6 DEF Apart, Busy
<1>7. CASE processing' = processing /\ submitted' = submitted
  BY <1>3, <1>7 DEF Apart, Busy
<1>8. CASE o \in ToSet(processing) /\ processing' = proc
           /\ submitted' = Append(submitted, entry)
  <2>1. DistinctOps(submitted') /\ SubmittedOps(submitted') = SubmittedOps(submitted) \cup {o}
    BY <1>2, <1>3, <1>8, AppendSubmitted, AppendSubmittedExact
  <2> QED BY <1>3, <1>4, <1>8, <2>1 DEF Apart, Busy
<1>9. CASE o \in SubmittedOps(submitted) /\ processing' = processing
           /\ submitted' = Append(subm, entry)
  <2>1. SubmittedOps(submitted') = SubmittedOps(subm) \cup {o}
    BY <1>2, <1>4, <1>9, AppendSubmitted
  <2>2. DistinctOps(submitted')
    BY <1>2, <1>4, <1>9, AppendSubmittedExact
  <2>3. SubmittedOps(submitted') = SubmittedOps(submitted)
    BY <1>4, <1>9, <2>1
  <2> QED BY <1>3, <1>9, <2>2, <2>3 DEF Apart, Busy
<1>10. CASE NoResult
  BY <1>7, <1>10 DEF NoResult, stores
<1>11. CASE markSubmitted
  BY <1>7, <1>8, <1>11 DEF markSubmitted, t, entry, proc
<1>12. CASE Reject \/ Resubmit
  BY <1>5, <1>12 DEF Reject, Resubmit, t, proc
<1>13. CASE ResubmitConflicting \/ Included \/ Reverted \/ Dropped
  BY <1>6, <1>13 DEF ResubmitConflicting, Included, Reverted, Dropped, t, subm
<1>14. CASE replaceSubmitted
  BY <1>7, <1>9, <1>14 DEF replaceSubmitted, t, entry, subm
<1> QED BY <1>10, <1>11, <1>12, <1>13, <1>14 DEF Loop

\* Nothing else but Take touches these stores.
LEMMA StoresUnchanged ==
    ASSUME Requests \/ Blocks \/ UNCHANGED vars
           \/ (\E r \in Runners : (bundle(r) \/ Process(r)) /\ ~ Take(r))
           \/ \E i \in DOMAIN sending : \E ep \in sending[i].left : SendToExecutor(i, ep)
    PROVE  processing' = processing /\ submitted' = submitted
<1>1. CASE Requests
  BY <1>1 DEF Requests, add, clear, ReputationChanges
<1>2. CASE Blocks
  BY <1>2 DEF Blocks, handleBlock, refreshTransactionStatus, replaceTransaction,
              HandlerThrows, Settled, GasPriceStage, StuckStage, HandlingEnds, NextStage,
              handleTransactionUnderPriced, checkFrontrun, stores
<1>3. CASE UNCHANGED vars
  BY <1>3 DEF vars
<1>4. ASSUME NEW r \in Runners, bundle(r) \/ Process(r), ~ Take(r)
      PROVE  processing' = processing /\ submitted' = submitted
  BY <1>4 DEF bundle, Process, ValidationFailed, StorageClash, ValidationPassed,
              BalanceRead, BalanceThrows, Skip, ProcessAgain, SendBundles
<1>5. ASSUME NEW i \in DOMAIN sending, NEW ep \in sending[i].left, SendToExecutor(i, ep)
      PROVE  processing' = processing /\ submitted' = submitted
  BY <1>5 DEF SendToExecutor, ParametersFailed, AllFailed, Submitted, InsufficientFunds,
              BundleThrows, Answer
<1> QED BY <1>1, <1>2, <1>3, <1>4, <1>5

\* The list of a call, after a step that takes nothing.
RestAfter(s, t) ==
    \/ t.rest = s.rest
    \/ t.rest = <<>>
    \/ s.rest # <<>> /\ t.rest = Tail(s.rest)
    \/ t.rest = V8Sort(outstanding)

LEMMA RestSteps ==
    ASSUME TypeOK, NEW s \in RunType, s.pc \in {"validating", "reading", "decided"} => s.rest # <<>>,
           NEW t, ProcessStep(s, t)
    PROVE  RestAfter(s, t)
<1> DEFINE p == userOp[Head(s.rest)].paymaster
<1>0. /\ s.rest \in Seq(Ops) /\ s.bundles \in Seq(Seq(Ops)) /\ s.result \in Seq(Ops)
      /\ s.rest # <<>> => Head(s.rest) \in Ops /\ Tail(s.rest) \in Seq(Ops)
  BY RunFields
<1>1. CASE t = NewRun
  BY <1>1 DEF NewRun, RestAfter
<1>2. ASSUME NEW now \in BOOLEAN, NEW b \in Seq(Seq(Ops)), t = Iterate(Started(now, b))
      PROVE  RestAfter(s, t)
  <2>1. Started(now, b) \in RunType
    BY StartedType
  <2>2. Started(now, b).rest = V8Sort(outstanding)
    BY NewRunType DEF Started, RunType
  <2> QED BY <1>2, <2>1, <2>2, IterateType DEF RestAfter
<1>3. ASSUME NEW d, t = Settle(s, d)
      PROVE  RestAfter(s, t)
  <2>1. t.rest = s.rest
    BY <1>3 DEF Settle, Counted, RunType
  <2> QED BY <2>1 DEF RestAfter
<1>4. ASSUME NEW pc, t = [s EXCEPT !.pc = pc]
      PROVE  RestAfter(s, t)
  BY <1>4 DEF RestAfter, RunType
<1>5. ASSUME s.pc = "decided", t = Iterate([s EXCEPT !.rest = Tail(@)])
      PROVE  RestAfter(s, t)
  <2> DEFINE u == [s EXCEPT !.rest = Tail(@)]
  <2>1. u \in RunType /\ u.rest = Tail(s.rest)
    BY <1>0, <1>5 DEF RunType
  <2> HIDE DEF u
  <2>2. t.rest = Tail(s.rest)
    BY <1>5, <2>1, IterateType DEF u
  <2> QED BY <1>5, <2>2 DEF RestAfter
<1>6. ASSUME s.pc = "decided",
             t = Iterate([s EXCEPT !.rest = Tail(@), !.result = Append(@, Head(s.rest))])
      PROVE  RestAfter(s, t)
  <2> DEFINE u == [s EXCEPT !.rest = Tail(@), !.result = Append(@, Head(s.rest))]
  <2>1. Append(s.result, Head(s.rest)) \in Seq(Ops)
    BY <1>0, <1>6
  <2>2. u \in RunType /\ u.rest = Tail(s.rest)
    BY <1>0, <1>6, <2>1 DEF RunType
  <2> HIDE DEF u
  <2>3. t.rest = Tail(s.rest)
    BY <1>6, <2>2, IterateType DEF u
  <2> QED BY <1>6, <2>3 DEF RestAfter
<1>7. Append(s.bundles, s.result) \in Seq(Seq(Ops)) /\ <<>> \in Seq(Seq(Ops))
  BY <1>0
<1> QED BY <1>1, <1>2, <1>3, <1>4, <1>5, <1>6, <1>7 DEF ProcessStep

\* The lists are sorted copies of the outstanding store, and shrink.
LEMMA ListsKept ==
    ASSUME IInv, RestFresh, NEW r \in Runners, bundle(r) \/ Process(r)
    PROVE  /\ IsInjective(run'[r].rest)
           /\ ToSet(run'[r].rest) \cap Busy(processing, submitted) = {}
           /\ Take(r) => Head(run[r].rest) \notin ToSet(run'[r].rest)
<1> DEFINE s == run[r]
           busy == Busy(processing, submitted)
<1>1. PICK t : run' = [run EXCEPT ![r] = t] /\ ProcessStep(s, t)
  BY ProcessSteps
<1>2. run \in [Runners -> RunType] /\ s \in RunType /\ run'[r] = t
  BY <1>1 DEF IInv, TypeOK
<1>3. /\ s.rest \in Seq(Ops) /\ IsInjective(s.rest) /\ ToSet(s.rest) \cap busy = {}
      /\ outstanding \in Seq(Ops) /\ IsInjective(outstanding)
      /\ ToSet(outstanding) \cap busy = {}
  BY <1>2 DEF RestFresh, IInv, TypeOK, StoresDisjoint, RunType
<1>4. RestAfter(s, t)
  BY <1>1, <1>2, RestSteps DEF IInv, RunsInv
<1> HIDE DEF busy
<1>5. s.rest # <<>> =>
          /\ IsInjective(Tail(s.rest)) /\ ToSet(Tail(s.rest)) \subseteq ToSet(s.rest)
          /\ Head(s.rest) \notin ToSet(Tail(s.rest))
  BY <1>3, TailElements
<1>6. IsInjective(V8Sort(outstanding)) /\ ToSet(V8Sort(outstanding)) = ToSet(outstanding)
  BY <1>3, SortProperties
<1>7. IsInjective(<<>>) /\ ToSet(<<>>) = {}
  BY DEF IsInjective, ToSet
<1>8. IsInjective(t.rest) /\ ToSet(t.rest) \cap busy = {}
  BY <1>3, <1>4, <1>5, <1>6, <1>7 DEF RestAfter
<1>9. ASSUME Take(r)
      PROVE  Head(s.rest) \notin ToSet(t.rest)
  <2> DEFINE u == [s EXCEPT !.rest = Tail(@), !.result = Append(@, Head(s.rest))]
  <2>1. s.rest # <<>>
    BY <1>9 DEF Take, IInv, RunsInv
  <2>2. Tail(s.rest) \in Seq(Ops) /\ Append(s.result, Head(s.rest)) \in Seq(Ops)
    BY <1>2, <2>1, RunFields
  <2>3. u \in RunType /\ u.rest = Tail(s.rest)
    BY <1>2, <2>2 DEF RunType
  <2>4. run' = [run EXCEPT ![r] = Iterate(u)]
    BY <1>9 DEF Take, Continue
  <2> HIDE DEF u
  <2>5. t.rest = Tail(s.rest)
    BY <1>2, <2>3, <2>4, IterateType
  <2> QED BY <1>5, <2>1, <2>5
<1> QED BY <1>2, <1>8, <1>9 DEF busy

LEMMA NextCustodyInv ==
    ASSUME OneRunner, CustodyInv, [Next]_vars
    PROVE  CustodyInv'
<1>1. IInv /\ IInv'
  BY NextIInv DEF CustodyInv
<1>2. /\ processing \in Seq(Ops) /\ submitted \in Seq(Entry) /\ submitted' \in Seq(Entry)
      /\ run \in [Runners -> RunType]
  BY <1>1 DEF IInv, TypeOK
<1>3. Apart(processing, submitted)
  BY <1>2, CustodyIsApart DEF CustodyInv
<1>4. SUFFICES /\ Apart(processing', submitted')
               /\ \A r \in Runners :
                      /\ IsInjective(run'[r].rest)
                      /\ ToSet(run'[r].rest) \cap Busy(processing', submitted') = {}
  <2>1. Busy(processing, submitted)' = Busy(processing', submitted')
    BY DEF Busy, SubmittedOps
  <2>2. SingleCustody' <=> Apart(processing', submitted')
    BY DEF SingleCustody, Apart, DistinctOps, SubmittedOps
  <2> QED BY <1>1, <2>1, <2>2 DEF CustodyInv, RestFresh
<1>5. CASE Loop
  <2>1. Apart(processing', submitted')
        /\ Busy(processing', submitted') \subseteq Busy(processing, submitted)
    BY <1>1, <1>3, <1>5, LoopKeepsApart
  <2>2. run' = run
    BY <1>5, RunsUnchanged
  <2> QED BY <2>1, <2>2 DEF CustodyInv, RestFresh
<1>6. CASE \/ Requests \/ Blocks \/ UNCHANGED vars
           \/ \E i \in DOMAIN sending : \E ep \in sending[i].left : SendToExecutor(i, ep)
  <2>1. processing' = processing /\ submitted' = submitted
    BY <1>6, StoresUnchanged
  <2>2. run' = run
    BY <1>6, RunsUnchanged
  <2> QED BY <1>3, <2>1, <2>2 DEF CustodyInv, RestFresh
<1>7. ASSUME NEW q \in Runners, bundle(q) \/ Process(q)
      PROVE  /\ Apart(processing', submitted')
             /\ \A r \in Runners :
                    /\ IsInjective(run'[r].rest)
                    /\ ToSet(run'[r].rest) \cap Busy(processing', submitted') = {}
  <2>1. /\ IsInjective(run'[q].rest)
        /\ ToSet(run'[q].rest) \cap Busy(processing, submitted) = {}
        /\ Take(q) => Head(run[q].rest) \notin ToSet(run'[q].rest)
    BY <1>1, <1>7, ListsKept DEF CustodyInv
  <2>2. \A r \in Runners : r = q
    BY DEF OneRunner
  <2>3. CASE ~ Take(q)
    <3>1. processing' = processing /\ submitted' = submitted
      BY <1>7, <2>3, StoresUnchanged
    <3> QED BY <1>3, <2>1, <2>2, <3>1
  <2>4. CASE Take(q)
    <3> DEFINE o == Head(run[q].rest)
    <3>1. processing' = Append(processing, o) /\ submitted' = submitted
      BY <2>4 DEF Take
    <3>2. run[q].rest # <<>> /\ run[q].rest \in Seq(Ops)
      BY <1>1, <1>2, <2>4 DEF Take, IInv, RunsInv, RunType
    <3>3. o \in Ops /\ o \in ToSet(run[q].rest)
      BY <3>2, TailElements
    <3>4. o \notin ToSet(processing) /\ o \notin SubmittedOps(submitted)
      BY <3>3 DEF CustodyInv, RestFresh, Busy
    <3> HIDE DEF o
    <3>5. ToSet(processing') = ToSet(processing) \cup {o} /\ IsInjective(processing')
      BY <1>2, <1>3, <3>1, <3>3, <3>4, AppendElements DEF Apart
    <3>6. Apart(processing', submitted')
      BY <1>3, <3>1, <3>4, <3>5 DEF Apart
    <3>7. ToSet(run'[q].rest) \cap Busy(processing', submitted') = {}
      BY <2>1, <2>4, <3>1, <3>5 DEF Busy, o
    <3> QED BY <2>1, <2>2, <3>6, <3>7
  <2> QED BY <2>3, <2>4
<1> QED BY <1>5, <1>6, <1>7 DEF Next, Bundling

LEMMA CustodyInvAlways ==
    ASSUME OneRunner
    PROVE  Spec => []CustodyInv
<1>1. Init => CustodyInv
  <2> SUFFICES ASSUME Init PROVE CustodyInv
    OBVIOUS
  <2>1. SingleCustody
    BY DEF Init, SingleCustody, IsInjective, ToSet
  <2>2. RestFresh
    BY DEF Init, RestFresh, NewRun, IsInjective, ToSet
  <2> QED BY <2>1, <2>2, InitIInv DEF CustodyInv
<1>2. CustodyInv /\ [Next]_vars => CustodyInv'
  BY NextCustodyInv
<1> QED BY <1>1, <1>2, PTL DEF Spec

\* With one call of bundle() at a time, no operation is ever in two stores, or
\* in one of them twice, whatever the executor answers and the blocks bring:
\* process() works on a copy of the outstanding store that it made before its
\* awaits, and nobody else takes from that store.
THEOREM OneCustody ==
    ASSUME OneRunner
    PROVE  Spec => []SingleCustody
<1>1. CustodyInv => SingleCustody
  BY DEF CustodyInv
<1> QED BY <1>1, CustodyInvAlways, PTL

-----------------------------------------------------------------------------
(* The processing store and those who will take an operation out of it.    *)

Results(o) ==
    {t \in Task : t.op = o /\ t.kind \in {"success", "failure", "resubmit"}}

RunCopies(runs, o) == [r \in Runners |-> CopiesInRun(runs[r], o)]

BundleCopies(bundles, o) ==
    [i \in DOMAIN bundles |-> IF userOp[o].entryPoint \in bundles[i].left
                              THEN Copies(bundles[i].ops, o) ELSE 0]

\* CopiesInHand as sums of functions.
Hand(runs, bundles, tasks, o) ==
    Total(Runners, RunCopies(runs, o)) + Total(DOMAIN bundles, BundleCopies(bundles, o))
        + Count(tasks, Results(o))

LEMMA CopiesCount == \A s, o : Copies(s, o) = Count(s, {o})
BY DEF Copies, Count, Positions

LEMMA RunCopiesType ==
    ASSUME NEW s \in RunType, NEW o
    PROVE  /\ CopiesInRun(s, o) = Count(s.result, {o}) + Count(FlattenSeq(s.bundles), {o})
           /\ Count(s.result, {o}) \in Nat /\ Count(FlattenSeq(s.bundles), {o}) \in Nat
           /\ CopiesInRun(s, o) \in Nat
<1>1. s.result \in Seq(Ops) /\ s.bundles \in Seq(Seq(Ops))
  BY RunFields
<1>2. Count(s.result, {o}) \in Nat
  BY <1>1, CountType
<1>3. Count(FlattenSeq(s.bundles), {o}) \in Nat
  BY <1>1, FlattenedAppended
<1> QED BY <1>2, <1>3, CopiesCount DEF CopiesInRun

LEMMA BundlesTypes ==
    ASSUME NEW bundles \in Seq(Bundle), NEW o
    PROVE  IsFiniteSet(DOMAIN bundles) /\ Natural(DOMAIN bundles, BundleCopies(bundles, o))
<1>1. IsFiniteSet(DOMAIN bundles)
  <2>1. DOMAIN bundles = 1..Len(bundles) /\ Len(bundles) \in Nat
    OBVIOUS
  <2> QED BY <2>1, FS_Interval
<1>2. Natural(DOMAIN bundles, BundleCopies(bundles, o))
  <2> SUFFICES ASSUME NEW i \in DOMAIN bundles PROVE Copies(bundles[i].ops, o) \in Nat
    BY DEF Natural, BundleCopies
  <2>1. bundles[i].ops \in Seq(Ops)
    <3>1. bundles[i] \in Bundle
      OBVIOUS
    <3> QED BY <3>1 DEF Bundle
  <2> QED BY <2>1, CopiesCount, CountType
<1> QED BY <1>1, <1>2

LEMMA HandTypes ==
    ASSUME IsFiniteSet(Runners), NEW runs \in [Runners -> RunType],
           NEW bundles \in Seq(Bundle), NEW tasks \in Seq(Task), NEW o
    PROVE  /\ Natural(Runners, RunCopies(runs, o))
           /\ IsFiniteSet(DOMAIN bundles) /\ Natural(DOMAIN bundles, BundleCopies(bundles, o))
           /\ Total(Runners, RunCopies(runs, o)) \in Nat
           /\ Total(DOMAIN bundles, BundleCopies(bundles, o)) \in Nat
           /\ Count(tasks, Results(o)) \in Nat
           /\ Hand(runs, bundles, tasks, o) \in Nat
<1>1. Natural(Runners, RunCopies(runs, o))
  <2> SUFFICES ASSUME NEW r \in Runners PROVE CopiesInRun(runs[r], o) \in Nat
    BY DEF Natural, RunCopies
  <2>1. runs[r] \in RunType
    OBVIOUS
  <2> QED BY <2>1, RunCopiesType
<1>2. IsFiniteSet(DOMAIN bundles) /\ Natural(DOMAIN bundles, BundleCopies(bundles, o))
  BY BundlesTypes
<1>4. Count(tasks, Results(o)) \in Nat
  BY CountType
<1>5. Total(Runners, RunCopies(runs, o)) \in Nat
  BY <1>1, TotalType
<1>6. Total(DOMAIN bundles, BundleCopies(bundles, o)) \in Nat
  BY <1>2, TotalType
<1> QED BY <1>1, <1>2, <1>4, <1>5, <1>6 DEF Hand

LEMMA InHand ==
    ASSUME IsFiniteSet(Runners), TypeOK, NEW o
    PROVE  CopiesInHand(o) = Hand(run, sending, todo, o)
<1>0. run \in [Runners -> RunType] /\ sending \in Seq(Bundle) /\ todo \in Seq(Task)
  BY DEF TypeOK
<1>1. MapThenSumSet(LAMBDA r : CopiesInRun(run[r], o), Runners)
          = Total(Runners, RunCopies(run, o))
  <2> DEFINE f == RunCopies(run, o)
             Body(g) == [s \in SUBSET Runners |->
                            IF s = {} THEN 0
                            ELSE CopiesInRun(run[AnyOf(s)], o) + g[s \ {AnyOf(s)}]]
             h == CHOOSE g : g = Body(g)
  <2>1. MapThenSumSet(LAMBDA r : CopiesInRun(run[r], o), Runners) = h[Runners]
    BY DEF MapThenSumSet, MapThenFoldSet, AnyOf
  <2>2. \A g : g = Body(g) <=> Adding(g, Runners, f)
    <3>1. \A T \in SUBSET Runners : T # {} => CopiesInRun(run[AnyOf(T)], o) = f[AnyOf(T)]
      BY DEF AnyOf, RunCopies
    <3> QED BY <3>1 DEF Adding
  <2>3. PICK g : Adding(g, Runners, f) /\ Total(Runners, f) = g[Runners]
    BY <1>0, HandTypes, TotalIs
  <2> HIDE DEF Body, f
  <2>4. Adding(h, Runners, f)
    BY <2>2, <2>3
  <2> HIDE DEF h
  <2>5. h[Runners] = g[Runners]
    <3>1. Runners \in SUBSET Runners
      OBVIOUS
    <3> QED BY <2>3, <2>4, <3>1, AddingSame
  <2> QED BY <2>1, <2>3, <2>5 DEF f
<1>2. MapThenSumSet(LAMBDA i : IF userOp[o].entryPoint \in sending[i].left
                               THEN Copies(sending[i].ops, o) ELSE 0, DOMAIN sending)
          = Total(DOMAIN sending, BundleCopies(sending, o))
  <2> DEFINE S == DOMAIN sending
             f == BundleCopies(sending, o)
             Body(g) == [s \in SUBSET S |->
                            IF s = {} THEN 0
                            ELSE (IF userOp[o].entryPoint \in sending[AnyOf(s)].left
                                  THEN Copies(sending[AnyOf(s)].ops, o) ELSE 0)
                                 + g[s \ {AnyOf(s)}]]
             h == CHOOSE g : g = Body(g)
  <2>1. MapThenSumSet(LAMBDA i : IF userOp[o].entryPoint \in sending[i].left
                                 THEN Copies(sending[i].ops, o) ELSE 0, S) = h[S]
    BY DEF MapThenSumSet, MapThenFoldSet, AnyOf
  <2>2. \A g : g = Body(g) <=> Adding(g, S, f)
    <3>1. \A T \in SUBSET S : T # {} =>
              (IF userOp[o].entryPoint \in sending[AnyOf(T)].left
               THEN Copies(sending[AnyOf(T)].ops, o) ELSE 0) = f[AnyOf(T)]
      BY DEF AnyOf, BundleCopies
    <3> HIDE DEF f, S
    <3> QED BY <3>1 DEF Adding
  <2>0. IsFiniteSet(S) /\ Natural(S, f)
    BY <1>0, HandTypes
  <2> HIDE DEF Body, f
  <2>3. PICK g : Adding(g, S, f) /\ Total(S, f) = g[S]
    BY <2>0, TotalIs
  <2>4. Adding(h, S, f)
    BY <2>2, <2>3
  <2> HIDE DEF h, S
  <2>5. h[S] = g[S]
    <3>1. S \in SUBSET S
      OBVIOUS
    <3> QED BY <2>0, <2>3, <2>4, <3>1, AddingSame
  <2> QED BY <2>1, <2>3, <2>5 DEF f, S
<1>3. {i \in DOMAIN todo : todo[i].op = o
                           /\ todo[i].kind \in {"success", "failure", "resubmit"}}
          = Positions(todo, Results(o))
  BY <1>0 DEF Positions, Results
<1> QED BY <1>1, <1>2, <1>3 DEF CopiesInHand, Hand, Count

-----------------------------------------------------------------------------
(* How a step changes the copies in hand.                                  *)

Moves(r, t) == t \in RunType /\ run' = [run EXCEPT ![r] = t]

\* One call of bundle() goes from run[r] to t.
LEMMA OneRunMoves ==
    ASSUME IsFiniteSet(Runners), IInv, NEW r \in Runners, NEW t, Moves(r, t), NEW o
    PROVE  /\ Hand(run', sending, todo, o) + CopiesInRun(run[r], o)
                  = Hand(run, sending, todo, o) + CopiesInRun(t, o)
           /\ Hand(run', sending, todo, o) \in Nat /\ Hand(run, sending, todo, o) \in Nat
           /\ CopiesInRun(run[r], o) \in Nat /\ CopiesInRun(t, o) \in Nat
<1> DEFINE f == RunCopies(run, o)
           e == RunCopies(run', o)
           c == Total(DOMAIN sending, BundleCopies(sending, o))
           d == Count(todo, Results(o))
           a == Total(Runners, e)
           b == Total(Runners, f)
           x == e[r]
           y == f[r]
<1>1. /\ run \in [Runners -> RunType] /\ run' \in [Runners -> RunType]
      /\ sending \in Seq(Bundle) /\ todo \in Seq(Task)
      /\ run' = [run EXCEPT ![r] = t]
  BY DEF IInv, TypeOK, Moves
<1>2. /\ f[r] = CopiesInRun(run[r], o) /\ e[r] = CopiesInRun(t, o)
      /\ \A q \in Runners \ {r} : e[q] = f[q]
  BY <1>1 DEF RunCopies
<1>3. /\ Natural(Runners, f) /\ Natural(Runners, e) /\ c \in Nat /\ d \in Nat
      /\ Hand(run, sending, todo, o) \in Nat /\ Hand(run', sending, todo, o) \in Nat
  BY <1>1, HandTypes
<1>4. a + y = b + x /\ a \in Nat /\ b \in Nat /\ y \in Nat /\ x \in Nat
  <2> HIDE DEF f, e
  <2> QED BY <1>2, <1>3, TotalChanged
<1>5. Hand(run, sending, todo, o) = b + c + d /\ Hand(run', sending, todo, o) = a + c + d
  BY DEF Hand
<1>6. (a + c + d) + y = (b + c + d) + x
  <2> HIDE DEF a, b, c, d, x, y
  <2> QED BY <1>3, <1>4
<1>7. y = CopiesInRun(run[r], o) /\ x = CopiesInRun(t, o)
  BY <1>2
<1> QED BY <1>3, <1>4, <1>5, <1>6, <1>7

RunShape ==
    \A r \in Runners :
        /\ run[r].pc = "idle" => run[r].result = <<>> /\ run[r].bundles = <<>>
        /\ run[r].now => run[r].bundles = <<>>

LEMMA IterateCopies ==
    ASSUME NEW s \in RunType
    PROVE  /\ Iterate(s).result = s.result /\ Iterate(s).bundles = s.bundles
           /\ Iterate(s).now = s.now /\ Iterate(s).pc # "idle"
BY DEF Iterate, RunType

LEMMA NoCopies ==
    /\ NewRun.result = <<>> /\ NewRun.bundles = <<>> /\ NewRun.pc = "idle"
    /\ NewRun.now = FALSE
    /\ \A s, o : s.result = <<>> /\ s.bundles = <<>> => CopiesInRun(s, o) = 0
<1>1. FlattenSeq(<<>>) = <<>>
  BY DEF FlattenSeq
<1>2. \A o : Copies(<<>>, o) = 0
  BY CopiesCount, CountNothing
<1> QED BY <1>1, <1>2 DEF CopiesInRun, NewRun

\* What a call holds, after a step that hands nothing over: t for s.
Holds(s, t, taken) ==
    /\ t.pc # "idle"
    /\ t.now => t.bundles = <<>>
    /\ \A o : CopiesInRun(t, o) = CopiesInRun(s, o) + IF o \in taken THEN 1 ELSE 0

LEMMA SameHeld ==
    ASSUME NEW s, NEW t, t.result = s.result, t.bundles = s.bundles, t.now = s.now,
           t.pc # "idle", s.now => s.bundles = <<>>, NEW taken, taken = {},
           \A o : CopiesInRun(s, o) \in Nat
    PROVE  Holds(s, t, taken)
BY DEF Holds, CopiesInRun

LEMMA AppendHeld ==
    ASSUME NEW s \in RunType, NEW x \in Ops, NEW t, t.result = Append(s.result, x),
           t.bundles = s.bundles, t.now = s.now, t.pc # "idle", s.now => s.bundles = <<>>
    PROVE  Holds(s, t, {x})
<1>1. s.result \in Seq(Ops)
  BY RunFields
<1>2. ASSUME NEW o
      PROVE  CopiesInRun(t, o) = CopiesInRun(s, o) + IF o \in {x} THEN 1 ELSE 0
  <2>1. Count(t.result, {o}) = Count(s.result, {o}) + IF x \in {o} THEN 1 ELSE 0
    BY <1>1, CountAppended
  <2>2. /\ CopiesInRun(s, o) = Count(s.result, {o}) + Count(FlattenSeq(s.bundles), {o})
        /\ Count(s.result, {o}) \in Nat /\ Count(FlattenSeq(s.bundles), {o}) \in Nat
    BY RunCopiesType
  <2>3. CopiesInRun(t, o) = Count(t.result, {o}) + Count(FlattenSeq(s.bundles), {o})
    BY CopiesCount DEF CopiesInRun
  <2>4. (x \in {o}) <=> (o \in {x})
    OBVIOUS
  <2> QED BY <2>1, <2>2, <2>3, <2>4
<1> QED BY <1>2 DEF Holds

\* process() called again: what it returned joins the bundles.
LEMMA JoinedHeld ==
    ASSUME NEW s \in RunType, NEW t, t.result = <<>>,
           t.bundles = Append(s.bundles, s.result), t.now = FALSE, t.pc # "idle"
    PROVE  Holds(s, t, {})
<1>1. s.result \in Seq(Ops) /\ s.bundles \in Seq(Seq(Ops))
  BY RunFields
<1>2. ASSUME NEW o
      PROVE  CopiesInRun(t, o) = CopiesInRun(s, o) + IF o \in {} THEN 1 ELSE 0
  <2>1. Count(FlattenSeq(t.bundles), {o})
            = Count(FlattenSeq(s.bundles), {o}) + Count(s.result, {o})
    BY <1>1, FlattenedAppended
  <2>2. /\ CopiesInRun(s, o) = Count(s.result, {o}) + Count(FlattenSeq(s.bundles), {o})
        /\ Count(s.result, {o}) \in Nat /\ Count(FlattenSeq(s.bundles), {o}) \in Nat
    BY RunCopiesType
  <2>3. CopiesInRun(t, o) = 0 + Count(FlattenSeq(t.bundles), {o})
    BY CopiesCount, CountNothing DEF CopiesInRun
  <2> QED BY <2>1, <2>2, <2>3
<1> QED BY <1>2 DEF Holds

\* What the step of a call takes from the outstanding store.
TakenBy(r) == IF Take(r) THEN {Head(run[r].rest)} ELSE {}

LEMMA StepHeld ==
    ASSUME IInv, RunShape, NEW r \in Runners, bundle(r) \/ Process(r),
           ~ BalanceThrows(r), ~ SendBundles(r)
    PROVE  /\ \E t : Moves(r, t) /\ Holds(run[r], t, TakenBy(r))
           /\ sending' = sending /\ todo' = todo
           /\ ~ Take(r) => processing' = processing
           /\ Take(r) => /\ Head(run[r].rest) \in Ops
                         /\ processing' = Append(processing, Head(run[r].rest))
<1> DEFINE s == run[r]
           x == Head(s.rest)
<1>0. /\ run \in [Runners -> RunType] /\ s \in RunType /\ s.now \in BOOLEAN
      /\ s.now => s.bundles = <<>>
      /\ s.bundles \in Seq(Seq(Ops)) /\ s.result \in Seq(Ops)
      /\ \A o : CopiesInRun(s, o) \in Nat
      /\ s.pc = "idle" => s.result = <<>> /\ s.bundles = <<>>
  <2>1. run \in [Runners -> RunType] /\ s \in RunType
    BY DEF IInv, TypeOK
  <2>2. s.now \in BOOLEAN
    BY <2>1 DEF RunType
  <2> QED BY <2>1, <2>2, RunFields, RunCopiesType DEF RunShape
<1>1. run'[r] \in RunType
  <2>1. run' \in [Runners -> RunType]
    BY NextIInv DEF Next, Bundling, IInv, TypeOK
  <2> QED BY <2>1
<1>2. ASSUME NEW t, run' = [run EXCEPT ![r] = t]
      PROVE  Moves(r, t)
  BY <1>0, <1>1, <1>2 DEF Moves
<1>3. CASE Take(r)
  <2> DEFINE u == [s EXCEPT !.rest = Tail(@), !.result = Append(@, x)]
             t == Iterate(u)
  <2>1. s.rest # <<>>
    BY <1>3 DEF Take, IInv, RunsInv
  <2>2. /\ x \in Ops /\ Tail(s.rest) \in Seq(Ops) /\ Append(s.result, x) \in Seq(Ops)
    BY <1>0, <2>1, RunFields
  <2>3. /\ u \in RunType /\ u.result = Append(s.result, x) /\ u.bundles = s.bundles
        /\ u.now = s.now
    BY <1>0, <2>2 DEF RunType
  <2>4. /\ run' = [run EXCEPT ![r] = t] /\ processing' = Append(processing, x)
        /\ sending' = sending /\ todo' = todo
    BY <1>3 DEF Take, Continue
  <2> HIDE DEF u
  <2>5. /\ t.result = Append(s.result, x) /\ t.bundles = s.bundles /\ t.now = s.now
        /\ t.pc # "idle"
    BY <2>3, IterateCopies
  <2> HIDE DEF t, x
  <2>6. Holds(s, t, {x})
    BY <1>0, <2>2, <2>5, AppendHeld
  <2> QED BY <1>3, <1>2, <2>2, <2>4, <2>6 DEF TakenBy, x
<1>4. SUFFICES ASSUME ~ Take(r)
               PROVE  /\ \E t : Moves(r, t) /\ Holds(s, t, {})
                      /\ sending' = sending /\ todo' = todo /\ processing' = processing
  BY <1>3 DEF TakenBy
<1>5. sending' = sending /\ todo' = todo /\ processing' = processing
  BY <1>4 DEF bundle, Process, ValidationFailed, StorageClash, ValidationPassed,
              BalanceRead, Skip, ProcessAgain
<1>6. SUFFICES \E t : run' = [run EXCEPT ![r] = t] /\ Holds(s, t, {})
  BY <1>5, <1>2
<1>7. CASE bundle(r)
  <2>1. PICK now \in BOOLEAN : run' = [run EXCEPT ![r] = Iterate(Started(now, <<>>))]
    BY <1>7 DEF bundle, Continue
  <2> DEFINE u == Started(now, <<>>)
             t == Iterate(u)
  <2>2. u \in RunType /\ u.result = <<>> /\ u.bundles = <<>>
    <3>1. u \in RunType
      <4>1. <<>> \in Seq(Seq(Ops))
        OBVIOUS
      <4> QED BY <4>1, StartedType DEF IInv
    <3> QED BY <3>1, NewRunType, NoCopies DEF Started, RunType
  <2> HIDE DEF u
  <2>3. t.result = <<>> /\ t.bundles = <<>> /\ t.pc # "idle"
    BY <2>2, IterateCopies
  <2> HIDE DEF t
  <2>4. s.result = <<>> /\ s.bundles = <<>>
    BY <1>0, <1>7 DEF bundle
  <2>5. \A o : CopiesInRun(s, o) = 0 /\ CopiesInRun(t, o) = 0
    BY <2>3, <2>4, NoCopies
  <2>6. Holds(s, t, {})
    BY <2>3, <2>5 DEF Holds
  <2> QED BY <2>1, <2>6 DEF t, u
<1>8. CASE ValidationFailed(r) \/ StorageClash(r)
  <2> DEFINE t == [s EXCEPT !.pc = "decided"]
  <2>1. run' = [run EXCEPT ![r] = t]
    BY <1>0, <1>8 DEF ValidationFailed, StorageClash
  <2>2. t.result = s.result /\ t.bundles = s.bundles /\ t.now = s.now /\ t.pc # "idle"
    BY <1>0 DEF RunType
  <2> QED BY <1>0, <2>1, <2>2, SameHeld
<1>9. ASSUME NEW d
      PROVE  Holds(s, Settle(s, d), {})
  <2> DEFINE t == Settle(s, d)
  <2>1. t.result = s.result /\ t.bundles = s.bundles /\ t.now = s.now /\ t.pc # "idle"
    BY <1>0 DEF Settle, Counted, RunType
  <2> HIDE DEF t
  <2> QED BY <1>0, <2>1, SameHeld DEF t
<1>10. CASE ValidationPassed(r)
  <2> DEFINE p == userOp[x].paymaster
             t == [s EXCEPT !.pc = "reading"]
  <2>1. run' = [run EXCEPT ![r] =
                   IF p = NoEntity THEN Settle(s, 0)
                   ELSE IF s.paymasterDeposit[p] = Unread THEN t
                   ELSE Settle(s, s.paymasterDeposit[p])]
    BY <1>0, <1>10 DEF ValidationPassed
  <2>2. t.result = s.result /\ t.bundles = s.bundles /\ t.now = s.now /\ t.pc # "idle"
    BY <1>0 DEF RunType
  <2>3. Holds(s, t, {})
    BY <1>0, <2>2, SameHeld
  <2> HIDE DEF p, t
  <2> QED BY <1>9, <2>1, <2>3
<1>11. CASE BalanceRead(r)
  <2>1. \E d : run' = [run EXCEPT ![r] = Settle(s, d)]
    BY <1>0, <1>11 DEF BalanceRead
  <2> QED BY <1>9, <2>1
<1>12. CASE Skip(r)
  <2> DEFINE u == [s EXCEPT !.rest = Tail(@)]
             t == Iterate(u)
  <2>1. s.rest # <<>> /\ s.rest \in Seq(Ops)
    BY <1>0, <1>12, RunFields DEF Skip, IInv, RunsInv
  <2>2. Tail(s.rest) \in Seq(Ops)
    BY <2>1, HeadTailProperties
  <2>3. u \in RunType /\ u.result = s.result /\ u.bundles = s.bundles /\ u.now = s.now
    BY <1>0, <2>2 DEF RunType
  <2>4. run' = [run EXCEPT ![r] = t]
    BY <1>12 DEF Skip, Continue
  <2> HIDE DEF u
  <2>5. t.result = s.result /\ t.bundles = s.bundles /\ t.now = s.now /\ t.pc # "idle"
    BY <2>3, IterateCopies
  <2> HIDE DEF t
  <2> QED BY <1>0, <2>4, <2>5, SameHeld DEF t, u
<1>13. CASE ProcessAgain(r)
  <2> DEFINE u == Started(FALSE, Append(s.bundles, s.result))
             t == Iterate(u)
  <2>1. Append(s.bundles, s.result) \in Seq(Seq(Ops))
    BY <1>0
  <2>2. u \in RunType
    BY <2>1, StartedType DEF IInv
  <2>3. u.result = <<>> /\ u.bundles = Append(s.bundles, s.result) /\ u.now = FALSE
    BY <2>2, NewRunType, NoCopies DEF Started, RunType
  <2>4. run' = [run EXCEPT ![r] = t]
    BY <1>13 DEF ProcessAgain, Continue
  <2> HIDE DEF u
  <2>5. /\ t.result = <<>> /\ t.bundles = Append(s.bundles, s.result) /\ t.now = FALSE
        /\ t.pc # "idle"
    BY <2>2, <2>3, IterateCopies
  <2> HIDE DEF t
  <2> QED BY <1>0, <2>4, <2>5, JoinedHeld DEF t, u
<1> QED BY <1>4, <1>7, <1>8, <1>10, <1>11, <1>12, <1>13 DEF Process

\* What is handed to sendToExecutor is no longer in the call.
LEMMA HandedCopies ==
    ASSUME NEW bundles \in Seq(Bundle), NEW bs \in Seq(Seq(Ops)), NEW o \in Ops,
           NEW more, more = bundles \o [i \in DOMAIN bs |-> Handed(bs[i])],
           more \in Seq(Bundle)
    PROVE  Total(DOMAIN more, BundleCopies(more, o))
               = Total(DOMAIN bundles, BundleCopies(bundles, o))
                 + Count(FlattenSeq(bs), {o})
<1> DEFINE n == Len(bundles)
           m == Len(bs)
           new == [i \in DOMAIN bs |-> Handed(bs[i])]
           f == BundleCopies(bundles, o)
           e == Counts(bs, {o})
           g == BundleCopies(more, o)
<1>1. /\ n \in Nat /\ m \in Nat /\ DOMAIN bs = 1..m /\ DOMAIN bundles = 1..n
      /\ \A i \in 1..m : bs[i] \in Seq(Ops)
  OBVIOUS
<1>2. /\ Len(more) = n + m /\ DOMAIN more = 1..(n + m)
      /\ \A i \in 1..n : more[i] = bundles[i]
      /\ \A i \in 1..m : more[n + i] = Handed(bs[i])
  <2>1. new \in Seq(Bundle) /\ Len(new) = m /\ \A i \in 1..m : new[i] = Handed(bs[i])
    <3>1. \A i \in 1..m : Handed(bs[i]) \in Bundle
      <4> SUFFICES ASSUME NEW i \in 1..m PROVE Handed(bs[i]) \in Bundle
        OBVIOUS
      <4>1. bs[i] \in Seq(Ops)
        BY <1>1
      <4>2. \A x \in ToSet(bs[i]) : userOp[x].entryPoint \in EntryPoints
        BY <4>1, SequenceElements, FieldTypes
      <4> QED BY <4>1, <4>2 DEF Handed, Bundle
    <3> QED BY <1>1, <3>1
  <2> HIDE DEF new
  <2>2. more = bundles \o new
    BY DEF new
  <2> QED BY <1>1, <2>1, <2>2
<1>3. \A i \in 1..m : g[n + i] = e[i]
  <2> SUFFICES ASSUME NEW i \in 1..m PROVE g[n + i] = e[i]
    OBVIOUS
  <2> DEFINE b == bs[i]
             k == n + i
  <2>1. b \in Seq(Ops) /\ more[k] = Handed(b) /\ k \in DOMAIN more /\ e[i] = Count(b, {o})
    BY <1>1, <1>2 DEF Counts
  <2> HIDE DEF b, k
  <2>2. g[k] = IF userOp[o].entryPoint \in {userOp[x].entryPoint : x \in ToSet(b)}
               THEN Count(b, {o}) ELSE 0
    <3>1. g[k] = IF userOp[o].entryPoint \in more[k].left
                 THEN Copies(more[k].ops, o) ELSE 0
      BY <2>1 DEF BundleCopies
    <3>2. more[k].left = {userOp[x].entryPoint : x \in ToSet(b)} /\ more[k].ops = b
      BY <2>1 DEF Handed
    <3> QED BY <3>1, <3>2, CopiesCount
  <2>3. o \in ToSet(b) \/ Count(b, {o}) = 0
    <3>1. Count(b, {o}) \in Nat
      BY <2>1, CountType
    <3>2. o \in ToSet(b) <=> Count(b, {o}) > 0
      BY <2>1, CountRemovedFirst
    <3> QED BY <3>1, <3>2
  <2>4. g[k] = e[i]
    BY <2>1, <2>2, <2>3
  <2> QED BY <2>4 DEF k
<1>4. \A i \in 1..n : g[i] = f[i]
  BY <1>1, <1>2 DEF BundleCopies
<1>5. Natural(1..n, f) /\ Natural(1..m, e) /\ Natural(1..(n + m), g)
  <2>1. Natural(1..m, e)
    BY CountsType
  <2>2. Natural(1..n, f)
    <3>1. \A i \in 1..n : Copies(bundles[i].ops, o) \in Nat
      <4> SUFFICES ASSUME NEW i \in 1..n PROVE Copies(bundles[i].ops, o) \in Nat
        OBVIOUS
      <4>1. bundles[i].ops \in Seq(Ops)
        <5>1. bundles[i] \in Bundle
          BY <1>1
        <5> QED BY <5>1 DEF Bundle
      <4> QED BY <4>1, CopiesCount, CountType
    <3> QED BY <1>1, <3>1 DEF Natural, BundleCopies
  <2>3. \A i \in 1..(n + m) : i \in 1..n \/ (i - n \in 1..m /\ i = n + (i - n))
    BY <1>1
  <2> HIDE DEF f, e, g
  <2> QED BY <1>3, <1>4, <2>1, <2>2, <2>3 DEF Natural
<1> HIDE DEF n, m, f, e, g
<1> DEFINE l == n + m
<1>6. Total(1..l, g) = Total(1..n, f) + Total(1..m, e)
  <2>1. Joined(n, m, l, f, e, g)
    BY <1>1, <1>3, <1>4, <1>5 DEF Joined
  <2> HIDE DEF l
  <2> QED BY <2>1, TotalConcatenated
<1>7. Count(FlattenSeq(bs), {o}) = Total(1..m, e)
  BY CountFlattened DEF m, e
<1> QED BY <1>1, <1>2, <1>6, <1>7 DEF f, g

-----------------------------------------------------------------------------
(* Every step keeps the account.                                           *)

InHandNow(o) == Hand(run, sending, todo, o)

Awaited(o) == Count(processing, {o})

\* From p awaited and h in hand to p2 and h2: nothing is taken in hand that the
\* store does not hold, and unless the environment loses it, nothing lost.
Kept(p, h, p2, h2) ==
    /\ p \in Nat /\ h \in Nat /\ p2 \in Nat /\ h2 \in Nat
    /\ h =< p => h2 =< p2
    /\ h = p /\ ~ Lossy => h2 = p2

AccountKept(o) == Kept(Awaited(o), InHandNow(o), Awaited(o)', InHandNow(o)')

LEMMA StepKeepsAccount ==
    ASSUME IsFiniteSet(Runners), IInv, RunShape, NEW r \in Runners,
           bundle(r) \/ Process(r), ~ BalanceThrows(r), ~ SendBundles(r), NEW o \in Ops
    PROVE  AccountKept(o)
<1>0. /\ run \in [Runners -> RunType] /\ sending \in Seq(Bundle) /\ todo \in Seq(Task)
      /\ processing \in Seq(Ops) /\ run[r] \in RunType
  BY DEF IInv, TypeOK
<1>1. PICK t : Moves(r, t) /\ Holds(run[r], t, TakenBy(r))
  BY StepHeld
<1>2. t \in RunType /\ run' = [run EXCEPT ![r] = t]
  BY <1>1 DEF Moves
<1>3. sending' = sending /\ todo' = todo
  BY StepHeld
<1> DEFINE h == Hand(run, sending, todo, o)
           h2 == Hand(run', sending, todo, o)
           a == CopiesInRun(run[r], o)
           b == CopiesInRun(t, o)
           p == Count(processing, {o})
           p2 == Count(processing', {o})
<1>4. /\ h2 + a = h + b
      /\ h2 \in Nat /\ h \in Nat /\ a \in Nat /\ b \in Nat
  BY <1>1, OneRunMoves
<1>5. b = a + IF o \in TakenBy(r) THEN 1 ELSE 0
  BY <1>1 DEF Holds
<1>6. p \in Nat /\ p2 = p + IF o \in TakenBy(r) THEN 1 ELSE 0
  <2>1. p \in Nat
    BY <1>0, CountType
  <2>2. CASE Take(r)
    <3> DEFINE x == Head(run[r].rest)
    <3>1. x \in Ops /\ processing' = Append(processing, x) /\ TakenBy(r) = {x}
      BY <2>2, StepHeld DEF TakenBy
    <3> HIDE DEF x
    <3>2. p2 = p + IF x \in {o} THEN 1 ELSE 0
      BY <1>0, <3>1, CountAppended
    <3> QED BY <2>1, <3>1, <3>2
  <2>3. CASE ~ Take(r)
    <3>1. processing' = processing
      BY <2>3, StepHeld
    <3>2. TakenBy(r) = {}
      BY <2>3 DEF TakenBy
    <3> HIDE DEF TakenBy
    <3> QED BY <2>1, <3>1, <3>2
  <2> QED BY <2>2, <2>3
<1>7. Kept(p, h, p2, h2)
  <2> HIDE DEF p, h, p2, h2, a, b
  <2> QED BY <1>4, <1>5, <1>6 DEF Kept
<1> QED BY <1>3, <1>7 DEF AccountKept, Awaited, InHandNow

LEMMA ThrowKeepsAccount ==
    ASSUME IsFiniteSet(Runners), IInv, NEW r \in Runners, BalanceThrows(r), NEW o \in Ops
    PROVE  AccountKept(o)
<1>0. /\ run \in [Runners -> RunType] /\ sending \in Seq(Bundle) /\ todo \in Seq(Task)
      /\ processing \in Seq(Ops) /\ NewRun \in RunType
  BY NewRunType DEF IInv, TypeOK
<1>1. /\ Lossy /\ run' = [run EXCEPT ![r] = NewRun]
      /\ sending' = sending /\ todo' = todo /\ processing' = processing
  BY DEF BalanceThrows
<1> DEFINE h == Hand(run, sending, todo, o)
           h2 == Hand(run', sending, todo, o)
           a == CopiesInRun(run[r], o)
           b == CopiesInRun(NewRun, o)
           p == Count(processing, {o})
<1>2. h2 + a = h + b /\ h2 \in Nat /\ h \in Nat /\ a \in Nat /\ b \in Nat
  <2>1. Moves(r, NewRun)
    BY <1>0, <1>1 DEF Moves
  <2> QED BY <2>1, OneRunMoves
<1>3. b = 0
  BY NoCopies
<1>4. p \in Nat
  BY <1>0, CountType
<1>5. Kept(p, h, p, h2)
  <2> HIDE DEF p, h, h2, a, b
  <2> QED BY <1>1, <1>2, <1>3, <1>4 DEF Kept
<1> QED BY <1>1, <1>5 DEF AccountKept, Awaited, InHandNow

\* sendToExecutor gets what the call holds.
LEMMA ToBundleCopies ==
    ASSUME NEW s \in RunType, s.now => s.bundles = <<>>, s.now \/ s.result = <<>>, NEW o
    PROVE  /\ ToBundle(s) \in Seq(Seq(Ops))
           /\ Count(FlattenSeq(ToBundle(s)), {o}) = CopiesInRun(s, o)
<1>1. s.result \in Seq(Ops) /\ s.bundles \in Seq(Seq(Ops))
  BY RunFields
<1>2. /\ CopiesInRun(s, o) = Count(s.result, {o}) + Count(FlattenSeq(s.bundles), {o})
      /\ Count(s.result, {o}) \in Nat /\ Count(FlattenSeq(s.bundles), {o}) \in Nat
  BY RunCopiesType
<1>3. Count(FlattenSeq(<<>>), {o}) = 0
  <2>1. FlattenSeq(<<>>) = <<>>
    BY DEF FlattenSeq
  <2> QED BY <2>1, CountNothing
<1>4. CASE s.now /\ s.result # <<>>
  <2> DEFINE b == s.result
             none == <<>>
             one == Append(none, b)
  <2>1. ToBundle(s) = one /\ s.bundles = none
    BY <1>4 DEF ToBundle
  <2>2. b \in Seq(Ops) /\ none \in Seq(Seq(Ops)) /\ one \in Seq(Seq(Ops))
    BY <1>1
  <2>3. Count(FlattenSeq(none), {o}) = 0
    BY <1>3
  <2> HIDE DEF b, none
  <2>4. Count(FlattenSeq(one), {o}) = Count(FlattenSeq(none), {o}) + Count(b, {o})
    BY <2>2, FlattenedAppended
  <2>5. /\ CopiesInRun(s, o) = Count(b, {o}) + Count(FlattenSeq(none), {o})
        /\ Count(b, {o}) \in Nat
    BY <1>2, <2>1 DEF b
  <2>6. Count(FlattenSeq(one), {o}) = CopiesInRun(s, o)
    BY <2>3, <2>4, <2>5
  <2> QED BY <2>1, <2>2, <2>6
<1>5. CASE ~ (s.now /\ s.result # <<>>)
  <2>1. ToBundle(s) = s.bundles /\ s.result = <<>>
    BY <1>5 DEF ToBundle
  <2>2. Count(s.result, {o}) = 0
    BY <2>1, CountNothing
  <2>3. CopiesInRun(s, o) = Count(FlattenSeq(s.bundles), {o})
    BY <1>2, <2>2
  <2> QED BY <1>1, <2>1, <2>3
<1> QED BY <1>4, <1>5

LEMMA HandingKeepsAccount ==
    ASSUME IsFiniteSet(Runners), IInv, RunShape, NEW r \in Runners, SendBundles(r),
           NEW o \in Ops
    PROVE  AccountKept(o)
<1> DEFINE s == run[r]
           bs == ToBundle(s)
<1>0. /\ run \in [Runners -> RunType] /\ sending \in Seq(Bundle) /\ todo \in Seq(Task)
      /\ processing \in Seq(Ops) /\ NewRun \in RunType /\ s \in RunType
      /\ sending' \in Seq(Bundle)
  BY NewRunType, NextIInv DEF Next, Bundling, Process, IInv, TypeOK
<1>1. /\ run' = [run EXCEPT ![r] = NewRun] /\ todo' = todo /\ processing' = processing
      /\ sending' = sending \o [i \in DOMAIN bs |-> Handed(bs[i])]
      /\ s.now \/ s.result = <<>>
  BY DEF SendBundles
<1>2. s.now => s.bundles = <<>>
  BY DEF RunShape
<1>3. bs \in Seq(Seq(Ops)) /\ Count(FlattenSeq(bs), {o}) = CopiesInRun(s, o)
  <2>1. s \in RunType
    BY <1>0
  <2>2. s.now => s.bundles = <<>>
    BY <1>2
  <2>3. s.now \/ s.result = <<>>
    BY <1>1
  <2> HIDE DEF s, bs
  <2>4. /\ ToBundle(s) \in Seq(Seq(Ops))
        /\ Count(FlattenSeq(ToBundle(s)), {o}) = CopiesInRun(s, o)
    BY <2>1, <2>2, <2>3, ToBundleCopies
  <2> QED BY <2>4 DEF bs
<1> DEFINE h == Hand(run, sending, todo, o)
           h1 == Hand(run', sending, todo, o)
           h2 == Hand(run', sending', todo, o)
           a == CopiesInRun(s, o)
           b == CopiesInRun(NewRun, o)
           p == Count(processing, {o})
           runs == Total(Runners, RunCopies(run', o))
           old == Total(DOMAIN sending, BundleCopies(sending, o))
           new == Total(DOMAIN sending', BundleCopies(sending', o))
           rest == Count(todo, Results(o))
<1>4. h1 + a = h + b /\ h1 \in Nat /\ h \in Nat /\ a \in Nat /\ b \in Nat
  <2>1. Moves(r, NewRun)
    BY <1>0, <1>1 DEF Moves
  <2> QED BY <2>1, OneRunMoves
<1>5. b = 0
  BY NoCopies
<1>6. p \in Nat
  BY <1>0, CountType
<1>7. new = old + a
  <2> HIDE DEF bs, s
  <2>1. Total(DOMAIN sending', BundleCopies(sending', o))
            = Total(DOMAIN sending, BundleCopies(sending, o)) + Count(FlattenSeq(bs), {o})
    <3> DEFINE more == sending'
    <3>1. /\ sending \in Seq(Bundle) /\ bs \in Seq(Seq(Ops)) /\ more \in Seq(Bundle)
          /\ more = sending \o [i \in DOMAIN bs |-> Handed(bs[i])]
      BY <1>0, <1>1, <1>3
    <3> HIDE DEF more
    <3>2. Total(DOMAIN more, BundleCopies(more, o))
              = Total(DOMAIN sending, BundleCopies(sending, o)) + Count(FlattenSeq(bs), {o})
      BY <3>1, HandedCopies
    <3> QED BY <3>2 DEF more
  <2> QED BY <1>3, <2>1 DEF s
<1>8. h1 = runs + old + rest /\ h2 = runs + new + rest
  BY DEF Hand
<1>9. run' \in [Runners -> RunType] /\ runs \in Nat /\ old \in Nat /\ rest \in Nat
  <2>1. run' \in [Runners -> RunType]
    BY <1>0, <1>1
  <2> QED BY <1>0, <2>1, HandTypes
<1>10. Kept(p, h, p, h2)
  <2> HIDE DEF p, h, h1, h2, a, b, runs, old, new, rest
  <2>1. h2 = h
    BY <1>4, <1>5, <1>7, <1>8, <1>9
  <2> QED BY <1>4, <1>6, <2>1 DEF Kept
<1> QED BY <1>1, <1>10 DEF AccountKept, Awaited, InHandNow

AnswerOf(ops, ep, kindOf, tx) ==
    [k \in DOMAIN ops |->
        [kind |-> IF userOp[ops[k]].entryPoint = ep THEN kindOf[k] ELSE "none",
         op |-> ops[k], tx |-> tx]]

Due(ops, ep, o) == IF userOp[o].entryPoint = ep THEN Count(ops, {o}) ELSE 0

\* There is a result for every operation.
Complete(ops, kindOf) ==
    \A k \in DOMAIN ops : kindOf[k] \in {"success", "failure", "resubmit"}

\* The results of executor.bundle for o.
LEMMA AnsweredTasks ==
    ASSUME NEW ops \in Seq(Ops), NEW ep, NEW kindOf, NEW tx, NEW tasks,
           tasks = AnswerOf(ops, ep, kindOf, tx), tasks \in Seq(Task), NEW o
    PROVE  /\ Due(ops, ep, o) \in Nat
           /\ Count(tasks, Results(o)) \in Nat
           /\ Count(tasks, Results(o)) =< Due(ops, ep, o)
           /\ Complete(ops, kindOf) => Count(tasks, Results(o)) = Due(ops, ep, o)
<1> DEFINE A == Positions(tasks, Results(o))
           B == Positions(ops, {o})
           C == IF userOp[o].entryPoint = ep THEN B ELSE {}
<1>1. DOMAIN tasks = DOMAIN ops
      /\ \A k \in DOMAIN ops :
             /\ tasks[k].op = ops[k]
             /\ tasks[k].kind = IF userOp[ops[k]].entryPoint = ep THEN kindOf[k] ELSE "none"
  BY DEF AnswerOf
<1>2. IsFiniteSet(B) /\ Count(ops, {o}) \in Nat /\ Count(tasks, Results(o)) \in Nat
  BY CountType
<1>3. A \in SUBSET C
  BY <1>1 DEF Positions, Results
<1>4. ASSUME Complete(ops, kindOf)
      PROVE  A = C
  <2> SUFFICES ASSUME NEW k \in C PROVE k \in A
    BY <1>3
  <2>1. k \in DOMAIN ops /\ ops[k] = o /\ userOp[o].entryPoint = ep
    BY DEF Positions
  <2>2. k \in DOMAIN tasks /\ tasks[k].op = o
        /\ tasks[k].kind \in {"success", "failure", "resubmit"}
    BY <1>1, <1>4, <2>1 DEF Complete
  <2>3. tasks[k] \in Task
    BY <2>2
  <2> QED BY <2>2, <2>3 DEF Positions, Results
<1> HIDE DEF A, B
<1>5. IsFiniteSet(C) /\ Cardinality(C) =
          (IF userOp[o].entryPoint = ep THEN Cardinality(B) ELSE 0)
  BY <1>2, FS_EmptySet
<1> HIDE DEF C
<1>6. Cardinality(A) =< Cardinality(C)
  BY <1>3, <1>5, FS_Subset
<1>7. Count(tasks, Results(o)) = Cardinality(A) /\ Count(ops, {o}) = Cardinality(B)
  BY DEF Count, A, B
<1> QED BY <1>2, <1>4, <1>5, <1>6, <1>7 DEF Due

Unanswered(bundles, i, ep) ==
    IF bundles[i].left = {ep} THEN RemoveAt(bundles, i)
    ELSE [bundles EXCEPT ![i].left = @ \ {ep}]

LEMMA AnsweredBundles ==
    ASSUME NEW bundles \in Seq(Bundle), NEW i \in DOMAIN bundles, NEW ep \in bundles[i].left,
           NEW rest \in Seq(Bundle), rest = Unanswered(bundles, i, ep), NEW o
    PROVE  Total(DOMAIN bundles, BundleCopies(bundles, o))
               = Total(DOMAIN rest, BundleCopies(rest, o)) + Due(bundles[i].ops, ep, o)
<1> DEFINE S == DOMAIN bundles
           R == DOMAIN rest
           f == BundleCopies(bundles, o)
           e == BundleCopies(rest, o)
           c == Count(bundles[i].ops, {o})
           uep == userOp[o].entryPoint
<1>1. bundles[i] \in Bundle /\ bundles[i].ops \in Seq(Ops)
  <2>1. bundles[i] \in Bundle
    OBVIOUS
  <2> QED BY <2>1 DEF Bundle
<1>2. c \in Nat
  BY <1>1, CountType
<1>3. f[i] = IF uep \in bundles[i].left THEN c ELSE 0
  BY CopiesCount DEF BundleCopies
<1>4. IsFiniteSet(S) /\ Natural(S, f) /\ Natural(R, e)
  BY BundlesTypes
<1>5. CASE bundles[i].left = {ep}
  <2> DEFINE n == Len(bundles)
             T == S \ {i}
             at == [j \in T |-> IF j < i THEN j ELSE j - 1]
  <2>1. i \in 1..Len(bundles) /\ rest = RemoveAt(bundles, i)
    BY <1>5 DEF Unanswered
  <2>2. /\ Len(rest) = n - 1 /\ n \in Nat /\ i \in 1..n /\ S = 1..n /\ R = 1..(n - 1)
        /\ \A j \in 1..(n - 1) : rest[j] = IF j < i THEN bundles[j] ELSE bundles[j + 1]
    BY <2>1, RemoveAtProperties
  <2>3. \A j \in T : at[j] \in R /\ rest[at[j]] = bundles[j]
    <3> HIDE DEF n
    <3> QED BY <2>2
  <2>4. \A j \in T : at[j] \in R /\ e[at[j]] = f[j]
    <3> SUFFICES ASSUME NEW j \in T PROVE e[at[j]] = f[j]
      BY <2>3
    <3> DEFINE k == at[j]
    <3>1. k \in R /\ rest[k] = bundles[j] /\ j \in S
      BY <2>3
    <3> HIDE DEF k, at
    <3>2. e[k] = IF uep \in rest[k].left THEN Copies(rest[k].ops, o) ELSE 0
      BY <3>1 DEF BundleCopies
    <3>3. f[j] = IF uep \in bundles[j].left THEN Copies(bundles[j].ops, o) ELSE 0
      BY <3>1 DEF BundleCopies
    <3>4. e[k] = f[j]
      BY <3>1, <3>2, <3>3
    <3> QED BY <3>4 DEF k
  <2>5. \A j, k \in T : at[j] = at[k] => j = k
    <3> HIDE DEF n
    <3> QED BY <2>2
  <2>6. \A y \in R : \E j \in T : at[j] = y
    <3> SUFFICES ASSUME NEW y \in R PROVE \E j \in T : at[j] = y
      OBVIOUS
    <3> DEFINE j == IF y < i THEN y ELSE y + 1
    <3> HIDE DEF n
    <3>1. j \in T /\ at[j] = y
      BY <2>2
    <3> QED BY <3>1
  <2>7. IsFiniteSet(T) /\ Natural(T, f)
    BY <1>4, FS_Subset DEF Natural
  <2> HIDE DEF T, at, R, f, e
  <2>8. Total(R, e) = Total(T, f)
    BY <2>4, <2>5, <2>6, <2>7, TotalMoved
  <2>9. Total(S, f) = f[i] + Total(T, f) /\ f[i] \in Nat /\ Total(T, f) \in Nat
    <3> HIDE DEF S
    <3> QED BY <1>4, TotalRemoved DEF T, S
  <2>10. f[i] = IF uep = ep THEN c ELSE 0
    BY <1>3, <1>5
  <2>11. Total(S, f) = Total(R, e) + (IF uep = ep THEN c ELSE 0)
    BY <1>2, <2>8, <2>9, <2>10
  <2> QED BY <2>11 DEF R, f, e, Due
<1>6. CASE bundles[i].left # {ep}
  <2>1. rest = [bundles EXCEPT ![i] = [bundles[i] EXCEPT !.left = @ \ {ep}]]
    BY <1>6 DEF Unanswered
  <2>2. /\ R = S /\ rest[i].ops = bundles[i].ops /\ rest[i].left = bundles[i].left \ {ep}
        /\ \A j \in S \ {i} : rest[j] = bundles[j]
    BY <1>1, <2>1 DEF Bundle
  <2>3. e[i] = IF uep \in bundles[i].left \ {ep} THEN c ELSE 0
    BY <2>2, CopiesCount DEF BundleCopies
  <2>4. \A j \in S \ {i} : e[j] = f[j]
    BY <2>2 DEF BundleCopies
  <2>5. Natural(S, e)
    BY <1>4, <2>2
  <2> HIDE DEF S, R, f, e
  <2>6. /\ Total(S, e) + f[i] = Total(S, f) + e[i]
        /\ Total(S, e) \in Nat /\ Total(S, f) \in Nat
    BY <1>4, <2>4, <2>5, TotalChanged DEF S
  <2>7. Total(S, f) = Total(S, e) + (IF uep = ep THEN c ELSE 0)
    BY <1>2, <1>3, <2>3, <2>6
  <2> QED BY <2>2, <2>7 DEF S, R, f, e, Due
<1> QED BY <1>5, <1>6

\* executor.bundle answers; only an answer that loses results lowers the account.
LEMMA AnswerKeepsAccount ==
    ASSUME IsFiniteSet(Runners), IInv, NEW i \in DOMAIN sending, NEW ep \in sending[i].left,
           NEW kindOf, NEW tx, Answer(i, ep, kindOf, tx), SendToExecutor(i, ep),
           \/ Lossy
           \/ Complete(sending[i].ops, kindOf),
           NEW o
    PROVE  AccountKept(o)
<1> DEFINE ops == sending[i].ops
           due == Due(ops, ep, o)
           runs == Total(Runners, RunCopies(run, o))
           old == Total(DOMAIN sending, BundleCopies(sending, o))
           new == Total(DOMAIN sending', BundleCopies(sending', o))
           rest == Count(todo, Results(o))
           rest2 == Count(todo', Results(o))
           p == Count(processing, {o})
<1>0. /\ run \in [Runners -> RunType] /\ sending \in Seq(Bundle) /\ todo \in Seq(Task)
      /\ processing \in Seq(Ops) /\ sending' \in Seq(Bundle) /\ todo' \in Seq(Task)
  BY NextIInv DEF Next, Bundling, IInv, TypeOK
<1>1. /\ todo = <<>> /\ run' = run /\ processing' = processing
      /\ todo' = [k \in DOMAIN ops |->
                     [kind |-> IF k \in Ours(sending[i], ep) THEN kindOf[k] ELSE "none",
                      op |-> ops[k], tx |-> tx]]
      /\ sending' = IF sending[i].left = {ep} THEN RemoveAt(sending, i)
                    ELSE [sending EXCEPT ![i].left = @ \ {ep}]
  BY DEF Answer
<1>2. ops \in Seq(Ops)
  <2>1. sending[i] \in Bundle
    BY <1>0
  <2> QED BY <2>1 DEF Bundle
<1>3. todo' = AnswerOf(ops, ep, kindOf, tx) /\ sending' = Unanswered(sending, i, ep)
  <2>1. \A k \in DOMAIN ops : k \in Ours(sending[i], ep) <=> userOp[ops[k]].entryPoint = ep
    BY DEF Ours
  <2> HIDE DEF ops
  <2> QED BY <1>1, <2>1 DEF AnswerOf, Unanswered
<1>4. /\ due \in Nat /\ rest2 \in Nat /\ rest2 =< due
      /\ Complete(ops, kindOf) => rest2 = due
  <2> DEFINE tasks == todo'
  <2>1. tasks = AnswerOf(ops, ep, kindOf, tx) /\ tasks \in Seq(Task)
    BY <1>0, <1>3
  <2> HIDE DEF ops, tasks
  <2>2. /\ due \in Nat /\ Count(tasks, Results(o)) \in Nat
        /\ Count(tasks, Results(o)) =< due
        /\ Complete(ops, kindOf) => Count(tasks, Results(o)) = due
    BY <1>2, <2>1, AnsweredTasks
  <2> QED BY <2>2 DEF tasks
<1>5. old = new + due
  <2> DEFINE left == sending'
  <2>1. left = Unanswered(sending, i, ep) /\ left \in Seq(Bundle)
    BY <1>0, <1>3
  <2> HIDE DEF left
  <2>2. Total(DOMAIN sending, BundleCopies(sending, o))
            = Total(DOMAIN left, BundleCopies(left, o)) + due
    BY <1>0, <2>1, AnsweredBundles
  <2> QED BY <2>2 DEF left
<1>6. runs \in Nat /\ old \in Nat /\ new \in Nat /\ rest = 0
  <2>1. runs \in Nat /\ old \in Nat
    BY <1>0, HandTypes
  <2>2. new \in Nat
    BY <1>0, HandTypes
  <2>3. rest = 0
    BY <1>1, CountNothing
  <2> QED BY <2>1, <2>2, <2>3
<1>7. p \in Nat
  BY <1>0, CountType
<1>8. InHandNow(o) = runs + old + rest /\ InHandNow(o)' = runs + new + rest2
  BY <1>1 DEF InHandNow, Hand
<1>9. Lossy \/ rest2 = due
  BY <1>4
<1>10. Kept(p, runs + old + rest, p, runs + new + rest2)
  <2> HIDE DEF ops, due, runs, old, new, rest, rest2, p
  <2>1. rest2 =< due /\ due \in Nat /\ rest2 \in Nat
    BY <1>4
  <2> QED BY <1>5, <1>6, <1>7, <1>9, <2>1 DEF Kept
<1> QED BY <1>1, <1>8, <1>10 DEF AccountKept, Awaited

LEMMA SendingKeepsAccount ==
    ASSUME IsFiniteSet(Runners), IInv, NEW i \in DOMAIN sending, NEW ep \in sending[i].left,
           SendToExecutor(i, ep), NEW o
    PROVE  AccountKept(o)
<1>1. SUFFICES \E kindOf, tx : Answer(i, ep, kindOf, tx) /\ (Lossy \/ Complete(sending[i].ops, kindOf))
  BY AnswerKeepsAccount
<1>2. CASE ParametersFailed(i, ep) \/ AllFailed(i, ep)
  BY <1>2 DEF ParametersFailed, AllFailed, Complete
<1>3. CASE Submitted(i, ep)
  BY <1>3 DEF Submitted, Complete
<1>4. CASE InsufficientFunds(i, ep) \/ BundleThrows(i, ep)
  BY <1>4 DEF InsufficientFunds, BundleThrows
<1> QED BY <1>2, <1>3, <1>4 DEF SendToExecutor

\* A result takes its operation out of the store.
LEMMA LoopKeepsAccount ==
    ASSUME IsFiniteSet(Runners), IInv, Loop, NEW o
    PROVE  AccountKept(o)
<1> DEFINE t == Head(todo)
           runs == Total(Runners, RunCopies(run, o))
           out == Total(DOMAIN sending, BundleCopies(sending, o))
           rest == Count(todo, Results(o))
           rest2 == Count(Tail(todo), Results(o))
           p == Count(processing, {o})
           p2 == Count(processing', {o})
<1>0. /\ run \in [Runners -> RunType] /\ sending \in Seq(Bundle) /\ todo \in Seq(Task)
      /\ processing \in Seq(Ops) /\ processing' \in Seq(Ops)
  BY NextIInv DEF Next, IInv, TypeOK
<1>1. /\ todo # <<>> /\ todo' = Tail(todo) /\ run' = run /\ sending' = sending
  BY DEF Loop, Iteration, NoResult, markSubmitted, Reject, Resubmit,
         ResubmitConflicting, Included, Reverted, Dropped, replaceSubmitted
<1>2. t \in Task /\ t.op \in Ops
  <2>1. t \in Task
    BY <1>0, <1>1, HeadTailProperties
  <2> QED BY <2>1 DEF Task
<1>3. /\ rest2 = rest - (IF t \in Results(o) THEN 1 ELSE 0)
      /\ rest \in Nat /\ rest2 \in Nat
  <2>1. Tail(todo) \in Seq(Task)
    BY <1>0, <1>1, HeadTailProperties
  <2>2. rest \in Nat /\ rest2 \in Nat
    BY <1>0, <2>1, CountType
  <2>3. rest2 = rest - (IF t \in Results(o) THEN 1 ELSE 0)
    BY <1>0, <1>1, CountTail
  <2> QED BY <2>2, <2>3
<1>4. runs \in Nat /\ out \in Nat /\ p \in Nat /\ p2 \in Nat
  <2>1. p \in Nat /\ p2 \in Nat
    BY <1>0, CountType
  <2> QED BY <1>0, <2>1, HandTypes
<1> HIDE DEF t
<1>5. IF t \in Results(o) THEN p > 0 => p2 = p - 1 ELSE p2 = p
  <2>1. CASE markSubmitted \/ Reject \/ Resubmit
    <3>1. t.kind \in {"success", "failure", "resubmit"}
      BY <2>1 DEF markSubmitted, Reject, Resubmit, Iteration, t
    <3>2. t \in Results(o) <=> t.op = o
      BY <1>2, <3>1 DEF Results
    <3> DEFINE x == t.op
               less == RemoveFirst(processing, x)
    <3>3. \/ processing' = less
          \/ processing' = processing /\ x \notin ToSet(processing)
      BY <2>1 DEF markSubmitted, Reject, Resubmit, t
    <3>4. /\ x \in ToSet(processing) <=> Count(processing, {x}) > 0
          /\ Count(processing, {x}) > 0 => Count(less, {x}) = Count(processing, {x}) - 1
          /\ o # x => Count(less, {o}) = Count(processing, {o})
      <4> HIDE DEF x
      <4>1. /\ x \in ToSet(processing) <=> Count(processing, {x}) > 0
            /\ Count(RemoveFirst(processing, x), {x}) =
                   IF Count(processing, {x}) > 0 THEN Count(processing, {x}) - 1
                   ELSE Count(processing, {x})
            /\ \A q : q # x => Count(RemoveFirst(processing, x), {q}) = Count(processing, {q})
        BY <1>0, CountRemovedFirst
      <4> QED BY <4>1
    <3> HIDE DEF x, less
    <3>5. CASE o = x
      BY <3>2, <3>3, <3>4, <3>5 DEF x
    <3>6. CASE o # x
      BY <3>2, <3>3, <3>4, <3>6 DEF x
    <3> QED BY <3>5, <3>6
  <2>2. CASE ~ (markSubmitted \/ Reject \/ Resubmit)
    <3>1. t.kind \notin {"success", "failure", "resubmit"} /\ processing' = processing
      BY <2>2 DEF Loop, Iteration, NoResult, ResubmitConflicting, Included, Reverted,
                  Dropped, replaceSubmitted, stores, t
    <3> QED BY <3>1 DEF Results
  <2> QED BY <2>1, <2>2
<1>6. InHandNow(o) = runs + out + rest /\ InHandNow(o)' = runs + out + rest2
  BY <1>1 DEF InHandNow, Hand
<1>7. Kept(p, runs + out + rest, p2, runs + out + rest2)
  <2> HIDE DEF runs, out, rest, rest2, p, p2
  <2> QED BY <1>3, <1>4, <1>5 DEF Kept
<1> QED BY <1>6, <1>7 DEF AccountKept, Awaited

\* handleBlock's loops carry no results of executor.bundle.
LEMMA OthersKeepAccount ==
    ASSUME IsFiniteSet(Runners), IInv, Requests \/ Blocks \/ UNCHANGED vars, NEW o
    PROVE  AccountKept(o)
<1>0. /\ run \in [Runners -> RunType] /\ sending \in Seq(Bundle) /\ todo \in Seq(Task)
      /\ processing \in Seq(Ops) /\ todo' \in Seq(Task)
  BY NextIInv DEF Next, IInv, TypeOK
<1>1. run' = run /\ processing' = processing
  BY RunsUnchanged, StoresUnchanged
<1>2. /\ sending' = sending
      /\ \/ todo' = todo
         \/ todo = <<>> /\ \A k \in DOMAIN todo' :
                               todo'[k].kind \notin {"success", "failure", "resubmit"}
  <2>1. CASE Requests
    BY <2>1 DEF Requests, add, clear, ReputationChanges
  <2>2. CASE UNCHANGED vars
    BY <2>2 DEF vars
  <2>3. CASE \/ handleBlock \/ GasPriceStage \/ StuckStage \/ HandlingEnds
             \/ \E x \in watching : checkFrontrun(x)
    BY <2>3 DEF handleBlock, GasPriceStage, StuckStage, HandlingEnds, NextStage,
                checkFrontrun
  <2>4. CASE \E tx \in Transactions : handleTransactionUnderPriced(tx)
    BY <2>4 DEF handleTransactionUnderPriced
  <2>5. ASSUME NEW tx \in polled \cup resending, HandlerThrows(tx)
        PROVE  sending' = sending /\ todo' = todo
    BY <2>5 DEF HandlerThrows, Settled
  <2>6. ASSUME NEW kind \in {"included", "reverted", "dropped", "replaced"},
               NEW tx, NEW newTx, Each(kind, tx, newTx)
        PROVE  \A k \in DOMAIN todo' :
                   todo'[k].kind \notin {"success", "failure", "resubmit"}
    BY <2>6 DEF Each
  <2>7. ASSUME NEW tx \in polled \cup resending, refreshTransactionStatus(tx)
        PROVE  sending' = sending /\ todo = <<>>
               /\ (todo' = todo \/ \A k \in DOMAIN todo' :
                       todo'[k].kind \notin {"success", "failure", "resubmit"})
    BY <2>6, <2>7 DEF refreshTransactionStatus, Settled
  <2>8. ASSUME NEW tx \in polled \cup resending, replaceTransaction(tx)
        PROVE  sending' = sending /\ todo = <<>>
               /\ (todo' = todo \/ \A k \in DOMAIN todo' :
                       todo'[k].kind \notin {"success", "failure", "resubmit"})
    BY <2>6, <2>8 DEF replaceTransaction, Settled
  <2> QED BY <2>1, <2>2, <2>3, <2>4, <2>5, <2>7, <2>8 DEF Blocks
<1>3. Count(todo', Results(o)) = Count(todo, Results(o))
  <2>1. CASE todo' = todo
    BY <2>1
  <2>2. CASE todo = <<>> /\ \A k \in DOMAIN todo' :
                   todo'[k].kind \notin {"success", "failure", "resubmit"}
    <3> DEFINE s == todo'
    <3>1. s \in Seq(Task) /\ \A k \in 1..Len(s) : s[k] \notin Results(o)
      BY <1>0, <2>2 DEF Results
    <3> HIDE DEF s
    <3>2. Count(s, Results(o)) = 0
      BY <3>1, CountType
    <3> QED BY <2>2, <3>2, CountNothing DEF s
  <2> QED BY <1>2, <2>1, <2>2
<1>4. InHandNow(o)' = InHandNow(o)
  BY <1>1, <1>2, <1>3 DEF InHandNow, Hand
<1>5. Awaited(o)' = Awaited(o)
  BY <1>1 DEF Awaited
<1>6. InHandNow(o) \in Nat /\ Awaited(o) \in Nat
  BY <1>0, HandTypes, CountType DEF InHandNow, Awaited
<1> QED BY <1>4, <1>5, <1>6 DEF AccountKept, Kept

LEMMA NextKeepsAccount ==
    ASSUME IsFiniteSet(Runners), IInv, RunShape, [Next]_vars, NEW o \in Ops
    PROVE  AccountKept(o)
<1>1. ASSUME NEW r \in Runners, bundle(r) \/ Process(r)
      PROVE  AccountKept(o)
  BY <1>1, StepKeepsAccount, ThrowKeepsAccount, HandingKeepsAccount
<1>2. ASSUME NEW i \in DOMAIN sending, NEW ep \in sending[i].left, SendToExecutor(i, ep)
      PROVE  AccountKept(o)
  BY <1>2, SendingKeepsAccount
<1>3. CASE Loop
  BY <1>3, LoopKeepsAccount
<1>4. CASE Requests \/ Blocks \/ UNCHANGED vars
  BY <1>4, OthersKeepAccount
<1> QED BY <1>1, <1>2, <1>3, <1>4 DEF Next, Bundling

LEMMA NextRunShape ==
    ASSUME IInv, RunShape, [Next]_vars
    PROVE  RunShape'
<1>1. CASE run' = run
  BY <1>1 DEF RunShape
<1>2. ASSUME NEW q \in Runners, bundle(q) \/ Process(q)
      PROVE  RunShape'
  <2>0. run \in [Runners -> RunType]
    BY DEF IInv, TypeOK
  <2>1. CASE BalanceThrows(q) \/ SendBundles(q)
    <3>1. run' = [run EXCEPT ![q] = NewRun]
      BY <2>1 DEF BalanceThrows, SendBundles
    <3>2. /\ run'[q] = NewRun /\ \A r \in Runners \ {q} : run'[r] = run[r]
      BY <2>0, <3>1
    <3> QED BY <3>2, NoCopies DEF RunShape
  <2>2. CASE ~ (BalanceThrows(q) \/ SendBundles(q))
    <3>1. PICK t : Moves(q, t) /\ Holds(run[q], t, TakenBy(q))
      BY <1>2, <2>2, StepHeld
    <3>2. /\ run'[q] = t /\ \A r \in Runners \ {q} : run'[r] = run[r]
      BY <2>0, <3>1 DEF Moves
    <3> QED BY <3>1, <3>2 DEF RunShape, Holds
  <2> QED BY <2>1, <2>2
<1>3. CASE \/ Requests \/ Loop \/ Blocks \/ UNCHANGED vars
           \/ \E i \in DOMAIN sending : \E ep \in sending[i].left : SendToExecutor(i, ep)
  BY <1>1, <1>3, RunsUnchanged
<1> QED BY <1>2, <1>3 DEF Next, Bundling

AwaitInv ==
    /\ IInv /\ RunShape
    /\ \A o \in Ops : InHandNow(o) =< Awaited(o)

AccountInv ==
    /\ IInv /\ RunShape
    /\ \A o \in Ops : InHandNow(o) = Awaited(o)

LEMMA InitAccount ==
    ASSUME IsFiniteSet(Runners), Init
    PROVE  AccountInv
<1>1. IInv
  BY InitIInv
<1>2. RunShape
  BY NoCopies DEF Init, RunShape
<1>3. ASSUME NEW o \in Ops
      PROVE  InHandNow(o) = 0 /\ Awaited(o) = 0
  <2>1. Awaited(o) = 0
    BY CountNothing DEF Init, Awaited
  <2>2. Count(todo, Results(o)) = 0
    BY CountNothing DEF Init
  <2>3. Total(DOMAIN sending, BundleCopies(sending, o)) = 0
    <3>1. DOMAIN sending = {}
      BY DEF Init
    <3> QED BY <3>1, TotalOfNothing
  <2>4. Total(Runners, RunCopies(run, o)) = 0
    <3>1. \A r \in Runners : RunCopies(run, o)[r] = 0
      BY NoCopies DEF Init, RunCopies
    <3> QED BY <3>1, TotalOfZeros
  <2> QED BY <2>1, <2>2, <2>3, <2>4 DEF InHandNow, Hand
<1> QED BY <1>1, <1>2, <1>3 DEF AccountInv

LEMMA CopiesAreCounted ==
    ASSUME IsFiniteSet(Runners), TypeOK, NEW o
    PROVE  CopiesInHand(o) = InHandNow(o) /\ Copies(processing, o) = Awaited(o)
           /\ Awaited(o) \in Nat /\ InHandNow(o) \in Nat
<1>1. Awaited(o) \in Nat /\ InHandNow(o) \in Nat
  BY CountType, HandTypes DEF TypeOK, Awaited, InHandNow
<1> QED BY <1>1, InHand, CopiesCount DEF InHandNow, Awaited

LEMMA AwaitInvAlways ==
    ASSUME IsFiniteSet(Runners)
    PROVE  Spec => []AwaitInv
<1>1. Init => AwaitInv
  <2> SUFFICES ASSUME Init PROVE AwaitInv
    OBVIOUS
  <2>1. AccountInv
    BY InitAccount
  <2>2. \A o \in Ops : InHandNow(o) \in Nat
    BY <2>1, CopiesAreCounted DEF AccountInv, IInv
  <2> QED BY <2>1, <2>2 DEF AccountInv, AwaitInv
<1>2. AwaitInv /\ [Next]_vars => AwaitInv'
  <2> SUFFICES ASSUME AwaitInv, [Next]_vars PROVE AwaitInv'
    OBVIOUS
  <2>1. IInv' /\ RunShape'
    BY NextIInv, NextRunShape DEF AwaitInv
  <2>2. ASSUME NEW o \in Ops
        PROVE  InHandNow(o)' =< Awaited(o)'
    BY NextKeepsAccount DEF AwaitInv, AccountKept, Kept
  <2> QED BY <2>1, <2>2 DEF AwaitInv
<1> QED BY <1>1, <1>2, PTL DEF Spec

\* However awaits throw and whatever the executor forgets, no result arrives for
\* an operation that the processing store does not hold: process() puts it there
\* before the first await at which a result could exist, and only a result takes
\* it out.
THEOREM Awaiting ==
    ASSUME IsFiniteSet(Runners)
    PROVE  Spec => []ResultsAwaited
<1>1. AwaitInv => ResultsAwaited
  <2> SUFFICES ASSUME AwaitInv, NEW o \in Ops
               PROVE  Copies(processing, o) >= CopiesInHand(o)
    BY DEF ResultsAwaited
  <2> QED BY CopiesAreCounted DEF AwaitInv, IInv
<1> QED BY <1>1, AwaitInvAlways, PTL

\* If no await throws and the executor answers for all its operations, then what
\* the processing store holds is exactly what some call will take out of it:
\* no operation is stuck there, and none is answered twice.
THEOREM Accounted ==
    ASSUME IsFiniteSet(Runners), ~ Lossy
    PROVE  Spec => []ProcessingAccounted
<1>1. Init => AccountInv
  BY InitAccount
<1>2. AccountInv /\ [Next]_vars => AccountInv'
  <2> SUFFICES ASSUME AccountInv, [Next]_vars PROVE AccountInv'
    OBVIOUS
  <2>1. IInv' /\ RunShape'
    BY NextIInv, NextRunShape DEF AccountInv
  <2>2. ASSUME NEW o \in Ops
        PROVE  InHandNow(o)' = Awaited(o)'
    BY NextKeepsAccount DEF AccountInv, AccountKept, Kept
  <2> QED BY <2>1, <2>2 DEF AccountInv
<1>3. AccountInv => ProcessingAccounted
  <2> SUFFICES ASSUME AccountInv, NEW o \in Ops
               PROVE  Copies(processing, o) = CopiesInHand(o)
    BY DEF ProcessingAccounted
  <2> QED BY CopiesAreCounted DEF AccountInv, IInv
<1> QED BY <1>1, <1>2, <1>3, PTL DEF Spec

-----------------------------------------------------------------------------
(* What eth_getUserOperationStatus says of a submitted operation.          *)

\* A result that is about to be recorded is of an operation in the store.
LEMMA ResultIsProcessing ==
    ASSUME IsFiniteSet(Runners), AwaitInv, todo # <<>>,
           Head(todo).kind \in {"success", "failure", "resubmit"}
    PROVE  Head(todo).op \in ToSet(processing)
<1> DEFINE t == Head(todo)
           o == t.op
           a == Total(Runners, RunCopies(run, o))
           b == Total(DOMAIN sending, BundleCopies(sending, o))
           c == Count(todo, Results(o))
<1>0. /\ run \in [Runners -> RunType] /\ sending \in Seq(Bundle) /\ todo \in Seq(Task)
      /\ processing \in Seq(Ops)
  BY DEF AwaitInv, IInv, TypeOK
<1>1. t \in Task /\ t = todo[1] /\ 1 \in 1..Len(todo)
  BY <1>0, HeadTailProperties
<1>2. o \in Ops /\ t \in Results(o)
  BY <1>1 DEF Task, Results
<1>3. c \in Nat /\ c # 0
  <2> HIDE DEF t, o
  <2> QED BY <1>0, <1>1, <1>2, CountType
<1>4. a \in Nat /\ b \in Nat
  <2> HIDE DEF o
  <2> QED BY <1>0, HandTypes
<1>5. a + b + c =< Count(processing, {o})
  BY <1>2 DEF AwaitInv, InHandNow, Hand, Awaited
<1> HIDE DEF a, b, c, o
<1>6. Count(processing, {o}) \in Nat
  BY <1>0, CountType
<1>7. Count(processing, {o}) > 0
  BY <1>3, <1>4, <1>5, <1>6
<1>8. o \in ToSet(processing)
  BY <1>0, <1>7, CountRemovedFirst
<1> QED BY <1>8 DEF o

SubmittedStatusKept ==
    \A o \in SubmittedOps(submitted) :
        status[o] = "submitted" /\ status'[o] # "submitted" =>
            o \notin SubmittedOps(submitted') \/ o \in watching

LEMMA NextSubmittedStatus ==
    ASSUME IsFiniteSet(Runners), CustodyInv, AwaitInv, [Next]_vars
    PROVE  SubmittedStatusKept
<1> SUFFICES ASSUME NEW o \in SubmittedOps(submitted), status[o] = "submitted",
                    status'[o] # "submitted", o \notin watching,
                    o \in SubmittedOps(submitted')
             PROVE  FALSE
  BY DEF SubmittedStatusKept
<1>0. /\ status \in [Ops -> Statuses] /\ submitted \in Seq(Entry)
      /\ DistinctOps(submitted) /\ ToSet(processing) \cap SubmittedOps(submitted) = {}
  BY DEF CustodyInv, IInv, TypeOK, SingleCustody, DistinctOps
<1>1. \A p, out, proc, subm : o \in SubmittedOps(subm) =>
          StatusAfterAdd(p, out, Busy(proc, subm))[o] = "submitted"
  <2> TAKE p, out, proc, subm
  <2>1. p = o /\ o \in SubmittedOps(subm) => ~ Accepted(p, out, Busy(proc, subm))
    BY DEF Accepted, Replaceable, Busy
  <2> QED BY <1>0, <2>1 DEF StatusAfterAdd
<1>2. CASE Requests
  <2>1. CASE \E p \in Ops : add(p)
    BY <1>1, <2>1 DEF add
  <2>2. CASE clear \/ \E e \in Entities : ReputationChanges(e)
    BY <2>2 DEF clear, ReputationChanges
  <2> QED BY <1>2, <2>1, <2>2 DEF Requests
<1>3. CASE Loop
  <2> DEFINE t == Head(todo)
  <2>0. todo # <<>>
    BY <1>3 DEF Loop, Iteration, NoResult, markSubmitted, Reject, Resubmit,
                ResubmitConflicting, Included, Reverted, Dropped, replaceSubmitted
  <2>1. CASE NoResult \/ Reverted \/ Dropped
    BY <2>1 DEF NoResult, Reverted, Dropped
  <2>2. CASE markSubmitted \/ replaceSubmitted
    <3>1. status' = [status EXCEPT ![t.op] = "submitted"] \/ status' = status
      BY <2>2 DEF markSubmitted, replaceSubmitted
    <3>2. o \in Ops
      <4>1. PICK i \in 1..Len(submitted) : o = submitted[i].op
        BY DEF SubmittedOps
      <4>2. submitted[i] \in Entry
        BY <1>0
      <4> QED BY <4>1, <4>2 DEF Entry
    <3> QED BY <1>0, <3>1, <3>2
  <2>3. CASE Reject \/ Resubmit
    <3>1. t.kind \in {"success", "failure", "resubmit"}
      BY <2>3 DEF Reject, Resubmit, Iteration
    <3>2. t.op # o
      BY <1>0, <2>0, <3>1, ResultIsProcessing
    <3>3. CASE Reject
      BY <1>0, <3>2, <3>3 DEF Reject
    <3>4. CASE Resubmit
      BY <1>1, <3>4 DEF Resubmit
    <3> QED BY <2>3, <3>3, <3>4
  <2>4. CASE ResubmitConflicting \/ Included
    <3>1. submitted' = removeSubmitted(t.op)
      BY <2>4 DEF ResubmitConflicting, Included
    <3>2. SubmittedOps(submitted') = SubmittedOps(submitted) \ {t.op}
      BY <1>0, <3>1, RemoveSubmittedExact
    <3>3. t.op # o
      BY <3>2
    <3>4. CASE Included
      BY <1>0, <3>3, <3>4 DEF Included
    <3>5. CASE ResubmitConflicting
      BY <1>1, <3>5 DEF ResubmitConflicting
    <3> QED BY <2>4, <3>4, <3>5
  <2> QED BY <1>3, <2>1, <2>2, <2>3, <2>4 DEF Loop
<1>4. CASE Blocks
  <2>1. CASE \E p \in watching : checkFrontrun(p)
    BY <1>0, <2>1 DEF checkFrontrun
  <2>2. CASE ~ \E p \in watching : checkFrontrun(p)
    BY <1>4, <2>2 DEF Blocks, handleBlock, refreshTransactionStatus, replaceTransaction,
          HandlerThrows, Settled, GasPriceStage, StuckStage, HandlingEnds, NextStage,
          handleTransactionUnderPriced
  <2> QED BY <2>1, <2>2
<1>5. ASSUME NEW r \in Runners, bundle(r) \/ Process(r)
      PROVE  status' = status
  BY <1>5 DEF bundle, Process, ValidationFailed, StorageClash, ValidationPassed,
              BalanceRead, BalanceThrows, Skip, Take, ProcessAgain, SendBundles
<1>6. ASSUME NEW i \in DOMAIN sending, NEW ep \in sending[i].left, SendToExecutor(i, ep)
      PROVE  status' = status
  BY <1>6 DEF SendToExecutor, ParametersFailed, AllFailed, Submitted, InsufficientFunds,
              BundleThrows, Answer
<1>7. CASE UNCHANGED vars
  BY <1>7 DEF vars
<1> QED BY <1>2, <1>3, <1>4, <1>5, <1>6, <1>7 DEF Next, Bundling

\* With one call of bundle() at a time, the status of a submitted operation
\* changes only when it stops being submitted, or because an earlier transaction
\* of it reverted and is being watched: a result that rejects an operation finds
\* it in the processing store, and the RPC refuses what is submitted.
THEOREM StatusStable ==
    ASSUME OneRunner
    PROVE  Spec => SubmittedStatusStable
<1>1. IsFiniteSet(Runners)
  BY OneRunnerFinite
<1>2. CustodyInv /\ AwaitInv /\ [Next]_vars => [SubmittedStatusKept]_vars
  BY <1>1, NextSubmittedStatus
<1>3. Spec => []CustodyInv
  BY CustodyInvAlways
<1>4. Spec => []AwaitInv
  BY <1>1, AwaitInvAlways
<1> QED BY <1>2, <1>3, <1>4, PTL DEF Spec, SubmittedStatusStable, SubmittedStatusKept

-----------------------------------------------------------------------------
(* The transactions that the bundler follows.                              *)

LeavingKinds == {"included", "reverted", "dropped", "replaced"}

Has(o, tx) == [op |-> o, tx |-> tx] \in ToSet(submitted)

\* A loop is about to take o out of the submitted store, or to replace it.
Leaving(o) == \E t \in ToSet(todo) : t.op = o /\ t.kind \in LeavingKinds

\* A loop is about to record o as submitted in tx: to replace what is not submitted
\* does nothing.
Recording == {"success", "replaced"}

Pending(o, tx) ==
    \E t \in ToSet(todo) :
        /\ t.op = o /\ t.tx = tx /\ t.kind \in Recording
        /\ t.kind = "replaced" => o \in SubmittedOps(submitted)

Followed(tx) ==
    \A o \in ToSet(tx) : o \in overtaken \/ (Has(o, tx) /\ ~ Leaving(o)) \/ Pending(o, tx)

\* Every operation of a transaction in the submitted store is there too, except
\* while a loop records or forgets them one by one, and those overtaken.
EntriesFollowed ==
    \A e \in ToSet(submitted) :
        /\ e.op \in ToSet(e.tx)
        /\ Leaving(e.op) \/ Followed(e.tx)

TasksFollowed ==
    \A t \in ToSet(todo) :
        /\ t.kind # "underpriced"
        /\ \/ t.kind = "success"
           \/ t.kind = "replaced" /\ t.op \in SubmittedOps(submitted)
           => t.op \in ToSet(t.tx) /\ Followed(t.tx)

\* A loop is about one transaction.
TasksAgree ==
    \A t, u \in ToSet(todo) :
        t.kind \in LeavingKinds =>
            /\ u.kind # "success"
            /\ u.kind \in LeavingKinds /\ u.op = t.op => u = t

\* What handleBlock has captured is still submitted when its turn comes.
PolledFollowed ==
    \A tx \in polled : \A o \in ToSet(tx) :
        o \in overtaken \/ (Has(o, tx) /\ ~ Leaving(o))

FollowInv == EntriesFollowed /\ TasksFollowed /\ TasksAgree /\ PolledFollowed

EntryOf(o, tx) == [op |-> o, tx |-> tx]

LEMMA EntryOfEntry ==
    ASSUME NEW e \in Entry
    PROVE  e = EntryOf(e.op, e.tx) /\ e.op \in Ops /\ e.tx \in Seq(Ops)
BY DEF Entry, EntryOf

LEMMA HasOne ==
    ASSUME submitted \in Seq(Entry), DistinctOps(submitted), NEW o, NEW t, NEW u,
           Has(o, t), Has(o, u)
    PROVE  t = u
<1>1. PICK i \in 1..Len(submitted) : submitted[i] = EntryOf(o, t)
  BY SequenceElements DEF Has, EntryOf
<1>2. PICK j \in 1..Len(submitted) : submitted[j] = EntryOf(o, u)
  BY SequenceElements DEF Has, EntryOf
<1>3. i = j
  BY <1>1, <1>2 DEF DistinctOps, EntryOf
<1> QED BY <1>1, <1>2, <1>3 DEF EntryOf

\* Outside loops, the transactions are whole: the property.
LEMMA FollowedApart ==
    ASSUME submitted \in Seq(Entry), DistinctOps(submitted), FollowInv
    PROVE  TransactionsDisjoint
<1> SUFFICES ASSUME todo = <<>>, NEW t \in Transactions, NEW u \in Transactions,
                    NEW o \in ToSet(t), o \in ToSet(u), o \notin overtaken
             PROVE  t = u
  BY DEF TransactionsDisjoint
<1>1. ToSet(todo) = {}
  BY DEF ToSet
<1>2. ASSUME NEW v \in Transactions, o \in ToSet(v)
      PROVE  Has(o, v)
  <2>1. PICK i \in 1..Len(submitted) : submitted[i].tx = v
    BY DEF Transactions
  <2>2. submitted[i] \in ToSet(submitted)
    BY SequenceElements
  <2>3. Followed(v)
    BY <1>1, <2>1, <2>2 DEF FollowInv, EntriesFollowed, Leaving
  <2> QED BY <1>1, <1>2, <2>3 DEF Followed, Pending
<1> QED BY <1>2, HasOne

\* A loop that leaves the submitted store alone.
LEMMA PassKeepsFollowed ==
    ASSUME IInv, FollowInv, todo # <<>>, todo' = Tail(todo), submitted' = submitted,
           polled' = polled, overtaken' = overtaken,
           Head(todo).kind \notin LeavingKinds, Head(todo).kind # "success"
    PROVE  FollowInv'
<1> DEFINE t == Head(todo)
<1>1. ToSet(todo) = ToSet(todo') \cup {t}
  BY TailElements DEF IInv, TypeOK
<1>2. \A o : Leaving(o)' <=> Leaving(o)
  BY <1>1 DEF Leaving
<1>3. \A o, tx : Pending(o, tx)' <=> Pending(o, tx)
  <2>1. t.kind \notin Recording
    BY DEF LeavingKinds, Recording
  <2> QED BY <1>1, <2>1 DEF Pending, SubmittedOps
<1>4. \A o, tx : Has(o, tx)' <=> Has(o, tx)
  BY DEF Has
<1>5. \A tx : Followed(tx) => Followed(tx)'
  BY <1>2, <1>3, <1>4 DEF Followed
<1>6. EntriesFollowed'
  BY <1>2, <1>5 DEF FollowInv, EntriesFollowed
<1>7. TasksFollowed'
  BY <1>1, <1>5 DEF FollowInv, TasksFollowed, SubmittedOps
<1>8. TasksAgree'
  BY <1>1 DEF FollowInv, TasksAgree
<1>9. PolledFollowed'
  BY <1>2, <1>4 DEF FollowInv, PolledFollowed
<1> QED BY <1>6, <1>7, <1>8, <1>9 DEF FollowInv

\* An operation of the transaction is recorded.
LEMMA RecordKeepsFollowed ==
    ASSUME IInv, FollowInv, todo # <<>>, todo' = Tail(todo), polled' = polled,
           overtaken' = overtaken, NEW t, t = Head(todo), t.kind = "success",
           submitted' = Append(submitted, EntryOf(t.op, t.tx))
    PROVE  FollowInv'
<1> DEFINE x == EntryOf(t.op, t.tx)
<1>0. submitted \in Seq(Entry) /\ todo \in Seq(Task) /\ t \in ToSet(todo)
  BY TailElements DEF IInv, TypeOK
<1>1. ToSet(todo) = ToSet(todo') \cup {t}
  BY TailElements DEF IInv, TypeOK
<1>2. x \in Entry
  <2>1. t \in Task
    BY <1>0, TailElements
  <2> QED BY <2>1 DEF Task, Entry, EntryOf
<1>3. ToSet(submitted') = ToSet(submitted) \cup {x}
  <2> HIDE DEF x
  <2> QED BY <1>0, <1>2, AppendElements DEF x
<1>4. \A o : ~ Leaving(o) /\ ~ Leaving(o)'
  BY <1>0, <1>1 DEF FollowInv, TasksAgree, Leaving
<1>5. \A o, tx : Has(o, tx) \/ Pending(o, tx) => Has(o, tx)' \/ Pending(o, tx)'
  <2>1. \A u \in ToSet(todo) : u.kind # "replaced"
    BY <1>0 DEF FollowInv, TasksAgree, LeavingKinds
  <2> QED BY <1>1, <1>3, <2>1 DEF Has, Pending, EntryOf
<1>6. \A tx : Followed(tx) => Followed(tx)'
  BY <1>4, <1>5 DEF Followed
<1>7. t.op \in ToSet(t.tx) /\ Followed(t.tx)
  BY <1>0 DEF FollowInv, TasksFollowed
<1>8. EntriesFollowed'
  <2> SUFFICES ASSUME NEW e \in ToSet(submitted')
               PROVE  e.op \in ToSet(e.tx) /\ Followed(e.tx)'
    BY DEF EntriesFollowed
  <2>1. CASE e = x
    BY <1>6, <1>7, <2>1 DEF EntryOf
  <2>2. CASE e \in ToSet(submitted)
    BY <1>4, <1>6, <2>2 DEF FollowInv, EntriesFollowed
  <2> QED BY <1>3, <2>1, <2>2
<1>9. TasksFollowed'
  <2>1. \A u \in ToSet(todo) : u.kind # "replaced"
    BY <1>0 DEF FollowInv, TasksAgree, LeavingKinds
  <2> QED BY <1>1, <1>6, <2>1 DEF FollowInv, TasksFollowed
<1>10. TasksAgree'
  BY <1>1 DEF FollowInv, TasksAgree
<1>11. PolledFollowed'
  <2>1. \A o, tx : Has(o, tx) => Has(o, tx)'
    BY <1>3 DEF Has
  <2> QED BY <1>4, <2>1 DEF FollowInv, PolledFollowed
<1> QED BY <1>8, <1>9, <1>10, <1>11 DEF FollowInv

\* It is forgotten, or recorded in the transaction that replaces its own, if it is
\* submitted.
LEMMA LeaveKeepsFollowed ==
    ASSUME IInv, FollowInv, DistinctOps(submitted), submitted' \in Seq(Entry),
           todo # <<>>, todo' = Tail(todo), polled' = polled, overtaken' = overtaken,
           NEW t, t = Head(todo), t.kind \in LeavingKinds,
           ToSet(submitted') =
               {e \in ToSet(submitted) : e.op # t.op}
                   \cup IF t.kind = "replaced" /\ t.op \in SubmittedOps(submitted)
                        THEN {EntryOf(t.op, t.tx)} ELSE {}
    PROVE  FollowInv'
<1> DEFINE x == EntryOf(t.op, t.tx)
           p == t.op
<1>0. submitted \in Seq(Entry) /\ todo \in Seq(Task) /\ t \in ToSet(todo)
  BY TailElements DEF IInv, TypeOK
<1>1. ToSet(todo) = ToSet(todo') \cup {t}
  BY TailElements DEF IInv, TypeOK
<1>2. /\ Leaving(p)
      /\ \A o : Leaving(o)' => Leaving(o)
      /\ \A o : o # p /\ Leaving(o) => Leaving(o)'
      /\ Leaving(p)' => t \in ToSet(todo')
  <2>1. Leaving(p)' => t \in ToSet(todo')
    BY <1>0, <1>1 DEF Leaving, FollowInv, TasksAgree
  <2> QED BY <1>0, <1>1, <2>1 DEF Leaving
<1>3. /\ \A o, tx : o # p /\ Has(o, tx) => Has(o, tx)'
      /\ t.kind = "replaced" /\ p \in SubmittedOps(submitted) => Has(p, t.tx)'
  BY DEF Has, EntryOf
<1>4. /\ SubmittedOps(submitted') \subseteq SubmittedOps(submitted)
      /\ SubmittedOps(submitted) \ {p} \subseteq SubmittedOps(submitted')
      /\ t.kind = "replaced" /\ p \in SubmittedOps(submitted) => p \in SubmittedOps(submitted')
  <2>1. /\ SubmittedOps(submitted) = {e.op : e \in ToSet(submitted)}
        /\ SubmittedOps(submitted') = {e.op : e \in ToSet(submitted')}
    BY <1>0, SubmittedElements
  <2>2. x.op = p
    BY DEF EntryOf
  <2>3. \A e \in ToSet(submitted') :
            \/ e \in ToSet(submitted)
            \/ e = x /\ p \in SubmittedOps(submitted)
    OBVIOUS
  <2>4. /\ \A e \in ToSet(submitted) : e.op # p => e \in ToSet(submitted')
        /\ t.kind = "replaced" /\ p \in SubmittedOps(submitted) => x \in ToSet(submitted')
    OBVIOUS
  <2> HIDE DEF x, p
  <2>5. SubmittedOps(submitted') \subseteq SubmittedOps(submitted)
    BY <2>1, <2>2, <2>3
  <2> QED BY <2>1, <2>2, <2>4, <2>5
<1>5. ASSUME NEW o, NEW tx, Pending(o, tx)
      PROVE  (Has(o, tx)' /\ ~ Leaving(o)') \/ Pending(o, tx)'
  <2>1. PICK u \in ToSet(todo) :
            /\ u.op = o /\ u.tx = tx /\ u.kind \in Recording
            /\ u.kind = "replaced" => o \in SubmittedOps(submitted)
    BY <1>5 DEF Pending
  <2>2. u.kind = "replaced" => o \in SubmittedOps(submitted')
    <3>1. u.kind = "replaced" /\ o = p => u = t
      BY <1>0, <2>1 DEF FollowInv, TasksAgree, LeavingKinds
    <3> QED BY <1>4, <2>1, <3>1
  <2>3. CASE u \in ToSet(todo')
    BY <2>1, <2>2, <2>3 DEF Pending
  <2>4. CASE u = t
    <3>1. t.kind = "replaced" /\ o = p /\ tx = t.tx /\ p \in SubmittedOps(submitted)
      BY <2>1, <2>4 DEF LeavingKinds, Recording
    <3>2. Leaving(p)' => Pending(p, t.tx)'
      BY <1>2, <2>1, <2>2, <2>4, <3>1 DEF Pending
    <3> QED BY <1>3, <3>1, <3>2
  <2> QED BY <1>1, <2>3, <2>4
<1>6. \A tx : Followed(tx) => Followed(tx)'
  BY <1>2, <1>3, <1>5 DEF Followed
<1>7. EntriesFollowed'
  <2> SUFFICES ASSUME NEW e \in ToSet(submitted')
               PROVE  e.op \in ToSet(e.tx) /\ (Leaving(e.op)' \/ Followed(e.tx)')
    BY DEF EntriesFollowed
  <2>1. CASE t.kind = "replaced" /\ p \in SubmittedOps(submitted) /\ e = x
    <3>1. t.op \in ToSet(t.tx) /\ Followed(t.tx)
      BY <1>0, <2>1 DEF FollowInv, TasksFollowed
    <3> QED BY <1>6, <2>1, <3>1 DEF EntryOf
  <2>2. CASE e \in ToSet(submitted) /\ e.op # p
    BY <1>2, <1>6, <2>2 DEF FollowInv, EntriesFollowed
  <2> QED BY <2>1, <2>2
<1>8. TasksFollowed'
  BY <1>1, <1>4, <1>6 DEF FollowInv, TasksFollowed
<1>9. TasksAgree'
  BY <1>1 DEF FollowInv, TasksAgree
<1>10. PolledFollowed'
  <2> SUFFICES ASSUME NEW tx \in polled, NEW o \in ToSet(tx), o \notin overtaken
               PROVE  Has(o, tx)' /\ ~ Leaving(o)'
    BY DEF PolledFollowed
  <2>1. Has(o, tx) /\ ~ Leaving(o)
    BY DEF FollowInv, PolledFollowed
  <2> QED BY <1>2, <1>3, <2>1
<1> QED BY <1>7, <1>8, <1>9, <1>10 DEF FollowInv

LEMMA NoLoop ==
    ASSUME IInv, FollowInv, todo = <<>>
    PROVE  /\ \A o : ~ Leaving(o)
           /\ \A o, tx : ~ Pending(o, tx)
           /\ \A e \in ToSet(submitted) :
                  /\ e.op \in ToSet(e.tx)
                  /\ \A o \in ToSet(e.tx) : o \in overtaken \/ Has(o, e.tx)
           /\ \A tx \in Transactions :
                  \A o \in ToSet(tx) : o \in overtaken \/ Has(o, tx)
           /\ \A o, tx : Has(o, tx) => o \in SubmittedOps(submitted)
<1>1. ToSet(todo) = {}
  BY DEF ToSet
<1>2. \A o, tx : ~ Leaving(o) /\ ~ Pending(o, tx)
  BY <1>1 DEF Leaving, Pending
<1>3. \A e \in ToSet(submitted) :
          /\ e.op \in ToSet(e.tx)
          /\ \A o \in ToSet(e.tx) : o \in overtaken \/ Has(o, e.tx)
  BY <1>2 DEF FollowInv, EntriesFollowed, Followed
<1>4. submitted \in Seq(Entry)
  BY DEF IInv, TypeOK
<1>5. ASSUME NEW tx \in Transactions, NEW o \in ToSet(tx)
      PROVE  o \in overtaken \/ Has(o, tx)
  <2>1. PICK e \in ToSet(submitted) : e.tx = tx
    BY <1>4, SequenceElements DEF Transactions
  <2> QED BY <1>3, <1>5, <2>1
<1>6. ASSUME NEW o, NEW tx, Has(o, tx)
      PROVE  o \in SubmittedOps(submitted)
  <2>1. SubmittedOps(submitted) = {y.op : y \in ToSet(submitted)}
    BY <1>4, SubmittedElements
  <2> QED BY <1>6, <2>1 DEF Has
<1> QED BY <1>2, <1>3, <1>5, <1>6

LEMMA IdleKeepsFollowed ==
    ASSUME IInv, FollowInv, todo' = todo, submitted' = submitted,
           overtaken' = overtaken,
           polled' \subseteq polled \/ (todo = <<>> /\ polled' \subseteq Transactions)
    PROVE  FollowInv'
<1>1. /\ \A o : Leaving(o)' <=> Leaving(o)
      /\ \A o, tx : Pending(o, tx)' <=> Pending(o, tx)
      /\ \A o, tx : Has(o, tx)' <=> Has(o, tx)
  BY DEF Leaving, Pending, Has, SubmittedOps
<1>2. \A tx : Followed(tx) => Followed(tx)'
  BY <1>1 DEF Followed
<1>3. EntriesFollowed' /\ TasksFollowed' /\ TasksAgree'
  BY <1>1, <1>2 DEF FollowInv, EntriesFollowed, TasksFollowed, TasksAgree, SubmittedOps
<1>4. PolledFollowed'
  <2>1. CASE polled' \subseteq polled
    BY <1>1, <2>1 DEF FollowInv, PolledFollowed
  <2>2. CASE todo = <<>> /\ polled' \subseteq Transactions
    BY <1>1, <2>2, NoLoop DEF PolledFollowed
  <2> QED BY <2>1, <2>2
<1> QED BY <1>3, <1>4 DEF FollowInv

\* The loop over the results of executor.bundle begins.
LEMMA ResultsKeepFollowed ==
    ASSUME IInv, FollowInv, todo = <<>>, submitted' = submitted, polled' = polled,
           overtaken' = overtaken,
           \A u \in ToSet(todo') :
               /\ u.kind \in {"success", "failure", "resubmit", "none"}
               /\ u.kind = "success" =>
                      u.op \in ToSet(u.tx) /\ \A o \in ToSet(u.tx) : Pending(o, u.tx)'
    PROVE  FollowInv'
<1>1. \A o : ~ Leaving(o)'
  BY DEF Leaving, LeavingKinds
<1>2. \A o, tx : Has(o, tx)' <=> Has(o, tx)
  BY DEF Has
<1>3. EntriesFollowed'
  BY <1>1, <1>2, NoLoop DEF EntriesFollowed, Followed
<1>4. TasksFollowed'
  BY DEF TasksFollowed, Followed
<1>5. TasksAgree'
  BY DEF TasksAgree, LeavingKinds
<1>6. PolledFollowed'
  BY <1>1, <1>2 DEF FollowInv, PolledFollowed
<1> QED BY <1>3, <1>4, <1>5, <1>6 DEF FollowInv

\* A loop over the operations of a transaction begins: they are submitted in it or
\* overtaken, or none of them is submitted any more.
LEMMA EachKeepsFollowed ==
    ASSUME IInv, FollowInv, DistinctOps(submitted), todo = <<>>, submitted' = submitted,
           NEW tx, polled' = polled \ {tx}, overtaken \subseteq overtaken',
           \/ \A o \in ToSet(tx) : Has(o, tx) \/ o \in overtaken'
           \/ \A o \in ToSet(tx) : o \notin SubmittedOps(submitted),
           NEW kind \in LeavingKinds, NEW newTx, Each(kind, tx, newTx),
           kind = "replaced" => newTx # <<>> /\ ToSet(newTx) \subseteq ToSet(tx)
    PROVE  FollowInv'
<1>1. submitted \in Seq(Entry)
  BY DEF IInv, TypeOK
<1>2. /\ \A u \in ToSet(todo') :
             /\ u.op \in ToSet(tx) /\ u.tx = newTx
             /\ u.kind = IF newTx = <<>> \/ u.op \in ToSet(newTx) THEN kind ELSE "dropped"
             /\ u = [kind |-> u.kind, op |-> u.op, tx |-> u.tx]
      /\ \A o \in ToSet(tx) : \E u \in ToSet(todo') : u.op = o
  BY DEF Each, ToSet
<1>3. \A u \in ToSet(todo') : u.kind \in LeavingKinds
  BY <1>2 DEF LeavingKinds
<1>4. \A o : Leaving(o)' <=> o \in ToSet(tx)
  BY <1>2, <1>3 DEF Leaving
<1>5. /\ \A o, v : Has(o, v)' <=> Has(o, v)
      /\ SubmittedOps(submitted') = SubmittedOps(submitted)
  BY DEF Has
<1>6. ASSUME NEW v, v # tx, NEW o, o \notin overtaken', Has(o, v)
      PROVE  Has(o, v)' /\ ~ Leaving(o)'
  <2>1. o \in SubmittedOps(submitted)
    BY <1>6, NoLoop
  <2>2. o \notin ToSet(tx)
    BY <1>1, <1>6, <2>1, HasOne
  <2> QED BY <1>4, <1>5, <1>6, <2>2
<1>7. EntriesFollowed'
  <2> SUFFICES ASSUME NEW e \in ToSet(submitted)
               PROVE  e.op \in ToSet(e.tx) /\ (Leaving(e.op)' \/ Followed(e.tx)')
    BY DEF EntriesFollowed
  <2>1. /\ e.op \in ToSet(e.tx)
        /\ \A o \in ToSet(e.tx) : o \in overtaken \/ Has(o, e.tx)
    BY NoLoop
  <2>2. CASE e.tx = tx
    BY <1>4, <2>1, <2>2
  <2>3. CASE e.tx # tx
    <3>1. \A o \in ToSet(e.tx) : o \in overtaken' \/ (Has(o, e.tx)' /\ ~ Leaving(o)')
      BY <1>6, <2>1, <2>3
    <3> QED BY <2>1, <3>1 DEF Followed
  <2> QED BY <2>2, <2>3
<1>8. TasksFollowed'
  <2>1. ASSUME NEW u \in ToSet(todo'), u.kind = "replaced", u.op \in SubmittedOps(submitted)
        PROVE  u.op \in ToSet(u.tx) /\ Followed(u.tx)'
    <3>1. /\ kind = "replaced" /\ u.tx = newTx /\ newTx # <<>> /\ u.op \in ToSet(newTx)
          /\ ToSet(newTx) \subseteq ToSet(tx) /\ u.op \in ToSet(tx)
      BY <1>2, <2>1 DEF LeavingKinds
    <3>2. ASSUME NEW o \in ToSet(newTx), o \notin overtaken'
          PROVE  Pending(o, newTx)'
      <4>1. PICK y \in ToSet(todo') : y.op = o
        BY <1>2, <3>1
      <4>2. y.kind = "replaced" /\ y.tx = newTx
        BY <1>2, <3>1, <4>1
      <4>3. Has(o, tx)
        BY <2>1, <3>1, <3>2
      <4>4. o \in SubmittedOps(submitted')
        BY <1>5, <4>3, NoLoop
      <4> QED BY <4>1, <4>2, <4>4 DEF Pending, Recording
    <3> QED BY <3>1, <3>2 DEF Followed
  <2>2. \A u \in ToSet(todo') : u.kind # "underpriced" /\ u.kind # "success"
    BY <1>3 DEF LeavingKinds
  <2> QED BY <1>5, <2>1, <2>2 DEF TasksFollowed
<1>9. TasksAgree'
  <2> SUFFICES ASSUME NEW u \in ToSet(todo'), NEW y \in ToSet(todo')
               PROVE  y.kind # "success" /\ (y.op = u.op => y = u)
    BY DEF TasksAgree
  <2>1. y.kind # "success"
    BY <1>3 DEF LeavingKinds
  <2>2. y.op = u.op => y.kind = u.kind /\ y.tx = u.tx
    BY <1>2
  <2>3. /\ u = [kind |-> u.kind, op |-> u.op, tx |-> u.tx]
        /\ y = [kind |-> y.kind, op |-> y.op, tx |-> y.tx]
    BY <1>2
  <2> QED BY <2>1, <2>2, <2>3
<1>10. PolledFollowed'
  <2> SUFFICES ASSUME NEW v \in polled, v # tx, NEW o \in ToSet(v), o \notin overtaken'
               PROVE  Has(o, v)' /\ ~ Leaving(o)'
    BY DEF PolledFollowed
  <2>1. Has(o, v)
    BY DEF FollowInv, PolledFollowed
  <2> QED BY <1>6, <2>1
<1> QED BY <1>7, <1>8, <1>9, <1>10 DEF FollowInv

\* The results of a sent transaction name its operations.
LEMMA SentResults ==
    ASSUME IInv, FollowInv, NEW i \in DOMAIN sending, NEW ep \in sending[i].left,
           Submitted(i, ep)
    PROVE  FollowInv'
<1> DEFINE ops == sending[i].ops
<1>1. PICK n \in 1..Len(ops) : \E f \in Selections(Ours(sending[i], ep), n) :
          Answer(i, ep,
                 [k \in DOMAIN ops |-> IF \E j \in 1..n : f[j] = k THEN "success"
                                       ELSE "failure"],
                 [j \in 1..n |-> ops[f[j]]])
  BY DEF Submitted
<1>2. PICK f \in Selections(Ours(sending[i], ep), n) :
          Answer(i, ep,
                 [k \in DOMAIN ops |-> IF \E j \in 1..n : f[j] = k THEN "success"
                                       ELSE "failure"],
                 [j \in 1..n |-> ops[f[j]]])
  BY <1>1
<1>3. /\ f \in [1..n -> Ours(sending[i], ep)] /\ Ours(sending[i], ep) \subseteq DOMAIN ops
  BY DEF Selections, Ours
<1>4. PICK tx : tx = [j \in 1..n |-> ops[f[j]]]
  OBVIOUS
<1> DEFINE Sent(k) == \E j \in 1..n : f[j] = k
<1>5. /\ todo = <<>> /\ submitted' = submitted /\ polled' = polled
      /\ overtaken' = overtaken
      /\ todo' = [k \in DOMAIN ops |->
                     [kind |-> IF k \in Ours(sending[i], ep)
                               THEN IF Sent(k) THEN "success" ELSE "failure"
                               ELSE "none",
                      op |-> ops[k], tx |-> tx]]
  BY <1>2, <1>4 DEF Answer, blockVars, aa95Vars
<1>6. ops \in Seq(Ops)
  <2>1. sending[i] \in Bundle
    BY DEF IInv, TypeOK
  <2> QED BY <2>1 DEF Bundle
<1>7. n \in Nat /\ tx \in Seq(Ops) /\ DOMAIN ops = 1..Len(ops) /\ Len(ops) \in Nat
  BY <1>3, <1>6, <1>4
<1>8. ToSet(tx) = {ops[f[j]] : j \in 1..n}
  BY <1>7, <1>4 DEF ToSet
<1> HIDE DEF ops
<1>9. \A u \in ToSet(todo') :
          \E k \in DOMAIN ops :
              /\ u.op = ops[k] /\ u.tx = tx
              /\ u.kind = IF k \in Ours(sending[i], ep)
                          THEN IF Sent(k) THEN "success" ELSE "failure" ELSE "none"
  BY <1>5 DEF ToSet
<1>10. \A k \in DOMAIN ops : todo'[k] \in ToSet(todo')
  BY <1>5 DEF ToSet
<1>11. ASSUME NEW o \in ToSet(tx)
      PROVE  Pending(o, tx)'
  <2>1. PICK j \in 1..n : o = ops[f[j]]
    BY <1>8
  <2>2. f[j] \in DOMAIN ops /\ f[j] \in Ours(sending[i], ep) /\ Sent(f[j])
    BY <1>3 DEF ops
  <2>3. /\ todo'[f[j]].op = o /\ todo'[f[j]].tx = tx /\ todo'[f[j]].kind = "success"
    BY <1>5, <2>1, <2>2
  <2> QED BY <1>10, <2>2, <2>3 DEF Pending, Recording
<1>12. ASSUME NEW u \in ToSet(todo')
       PROVE  /\ u.kind \in {"success", "failure", "resubmit", "none"}
              /\ u.kind = "success" =>
                     u.op \in ToSet(u.tx) /\ \A o \in ToSet(u.tx) : Pending(o, u.tx)'
  <2>1. PICK k \in DOMAIN ops :
              /\ u.op = ops[k] /\ u.tx = tx
              /\ u.kind = IF k \in Ours(sending[i], ep)
                          THEN IF Sent(k) THEN "success" ELSE "failure" ELSE "none"
    BY <1>9
  <2>2. u.kind \in {"success", "failure", "resubmit", "none"}
    BY <2>1
  <2>3. u.kind = "success" => u.op \in ToSet(tx)
    BY <1>8, <2>1
  <2>4. u.tx = tx
    BY <2>1
  <2> QED BY <1>11, <2>2, <2>3, <2>4
<1> QED BY <1>5, <1>12, ResultsKeepFollowed

LEMMA SendingKeepsFollowed ==
    ASSUME IInv, FollowInv, NEW i \in DOMAIN sending, NEW ep \in sending[i].left,
           SendToExecutor(i, ep)
    PROVE  FollowInv'
<1>1. CASE \E kindOf, tx : Answer(i, ep, kindOf, tx)
                /\ \A k \in DOMAIN sending[i].ops : kindOf[k] \in {"failure", "resubmit", "none"}
  <2>1. PICK kindOf, tx : Answer(i, ep, kindOf, tx)
                /\ \A k \in DOMAIN sending[i].ops : kindOf[k] \in {"failure", "resubmit", "none"}
    BY <1>1
  <2>2. \A u \in ToSet(todo') : u.kind \in {"failure", "resubmit", "none"}
    BY <2>1 DEF Answer, ToSet
  <2>3. todo = <<>> /\ submitted' = submitted /\ polled' = polled /\ overtaken' = overtaken
    BY <2>1 DEF Answer, blockVars, aa95Vars
  <2> QED BY <2>2, <2>3, ResultsKeepFollowed
<1>2. CASE ParametersFailed(i, ep) \/ AllFailed(i, ep) \/ BundleThrows(i, ep)
  BY <1>1, <1>2 DEF ParametersFailed, AllFailed, BundleThrows
<1>3. CASE InsufficientFunds(i, ep)
  BY <1>1, <1>3 DEF InsufficientFunds
<1>4. CASE Submitted(i, ep)
  BY <1>4, SentResults
<1> QED BY <1>2, <1>3, <1>4 DEF SendToExecutor

LEMMA LoopKeepsFollowed ==
    ASSUME IsFiniteSet(Runners), CustodyInv, AwaitInv, FollowInv, Loop
    PROVE  FollowInv'
<1>0. /\ IInv /\ DistinctOps(submitted) /\ submitted \in Seq(Entry) /\ todo \in Seq(Task)
      /\ submitted' \in Seq(Entry)
  BY NextIInv DEF CustodyInv, SingleCustody, DistinctOps, Next, IInv, TypeOK
<1>1. todo # <<>> /\ todo' = Tail(todo) /\ polled' = polled /\ overtaken' = overtaken
  BY DEF aa95Vars, Loop, Iteration, NoResult, markSubmitted, Reject, Resubmit,
         ResubmitConflicting, Included, Reverted, Dropped, replaceSubmitted, blockVars
<1>2. PICK t \in Task : t = Head(todo) /\ t \in ToSet(todo)
  BY <1>0, <1>1, TailElements
<1>3. t.kind # "underpriced"
  BY <1>2 DEF FollowInv, TasksFollowed
<1>4. EntryOf(t.op, t.tx) \in Entry
  BY DEF Entry, EntryOf, Task
<1>5. CASE NoResult \/ Reject \/ Resubmit
  BY <1>0, <1>1, <1>5, PassKeepsFollowed
     DEF NoResult, Reject, Resubmit, stores, Iteration, LeavingKinds
<1>6. CASE markSubmitted
  <2>1. t.kind = "success"
    BY <1>2, <1>6 DEF markSubmitted, Iteration
  <2>2. t.op \in ToSet(processing)
    BY <1>1, <1>2, <2>1, ResultIsProcessing
  <2>3. submitted' = Append(submitted, EntryOf(t.op, t.tx))
    BY <1>2, <1>6, <2>2 DEF markSubmitted, EntryOf
  <2> QED BY <1>0, <1>1, <1>2, <2>1, <2>3, RecordKeepsFollowed
<1>7. CASE ResubmitConflicting
  BY <1>2, <1>3, <1>7 DEF ResubmitConflicting, Iteration
<1>8. /\ removeSubmitted(t.op) \in Seq(Entry)
      /\ ToSet(removeSubmitted(t.op)) = {e \in ToSet(submitted) : e.op # t.op}
  BY <1>0, RemoveSubmittedExact
<1>9. CASE Included \/ Reverted \/ Dropped
  <2>1. submitted' = removeSubmitted(t.op) /\ t.kind \in LeavingKinds /\ t.kind # "replaced"
    BY <1>2, <1>9 DEF Included, Reverted, Dropped, Iteration, LeavingKinds
  <2> QED BY <1>0, <1>1, <1>2, <1>8, <2>1, LeaveKeepsFollowed
<1>10. CASE replaceSubmitted
  <2>1. t.kind = "replaced" /\ t.kind \in LeavingKinds
    BY <1>2, <1>10 DEF replaceSubmitted, Iteration, LeavingKinds
  <2>2. CASE t.op \in SubmittedOps(submitted)
    <3>1. submitted' = Append(removeSubmitted(t.op), EntryOf(t.op, t.tx))
      BY <1>2, <1>10, <2>2 DEF replaceSubmitted, EntryOf
    <3> DEFINE less == removeSubmitted(t.op)
               x == EntryOf(t.op, t.tx)
    <3>2. ToSet(submitted') = ToSet(less) \cup {x}
      <4> HIDE DEF less, x
      <4> QED BY <1>4, <1>8, <3>1, AppendElements DEF less, x
    <3> QED BY <1>0, <1>1, <1>2, <1>8, <2>1, <2>2, <3>2, LeaveKeepsFollowed
  <2>3. CASE t.op \notin SubmittedOps(submitted)
    <3>1. submitted' = submitted
      BY <1>2, <1>10, <2>3 DEF replaceSubmitted
    <3>2. \A e \in ToSet(submitted) : e.op # t.op
      BY <1>0, <2>3, SubmittedElements
    <3>3. ToSet(submitted') = {e \in ToSet(submitted) : e.op # t.op}
      BY <3>1, <3>2
    <3> QED BY <1>0, <1>1, <1>2, <2>1, <2>3, <3>3, LeaveKeepsFollowed
  <2> QED BY <2>2, <2>3
<1> QED BY <1>5, <1>6, <1>7, <1>9, <1>10 DEF Loop

\* A replacement is made of operations of the transaction it replaces.
LEMMA SelectedOps ==
    ASSUME NEW tx \in Seq(Ops), NEW n \in 1..Len(tx), NEW f \in Selections(DOMAIN tx, n),
           NEW v, v = [j \in 1..n |-> tx[f[j]]]
    PROVE  v # <<>> /\ ToSet(v) \subseteq ToSet(tx)
<1>1. f \in [1..n -> DOMAIN tx] /\ n \in Nat /\ n >= 1
  BY DEF Selections
<1>2. DOMAIN v = 1..n /\ \A j \in 1..n : v[j] = tx[f[j]]
  BY <1>1
<1>3. v # <<>>
  BY <1>1, <1>2
<1>4. ToSet(v) \subseteq ToSet(tx)
  BY <1>1, <1>2 DEF ToSet
<1> QED BY <1>3, <1>4

LEMMA BlocksKeepFollowed ==
    ASSUME ~ SharedWallets, CustodyInv, FollowInv, Blocks
    PROVE  FollowInv'
<1>0. IInv /\ DistinctOps(submitted) /\ polled \in SUBSET Seq(Ops)
  BY DEF CustodyInv, SingleCustody, DistinctOps, IInv, TypeOK
<1>1. CASE handleBlock \/ GasPriceStage \/ StuckStage \/ HandlingEnds
  <2>1. /\ todo = <<>> /\ todo' = todo /\ submitted' = submitted
        /\ polled' \subseteq Transactions /\ overtaken' = overtaken
    BY <1>1 DEF handleBlock, GasPriceStage, StuckStage, HandlingEnds, NextStage, stores,
                aa95Vars
  <2> QED BY <1>0, <2>1, IdleKeepsFollowed
<1>2. ASSUME NEW o \in watching, checkFrontrun(o)
      PROVE  FollowInv'
  BY <1>0, <1>2, IdleKeepsFollowed DEF checkFrontrun, stores, aa95Vars
<1>3. ASSUME NEW tx, Settled(tx), todo' = todo, overtaken' = overtaken
      PROVE  FollowInv'
  BY <1>0, <1>3, IdleKeepsFollowed DEF Settled, stores
<1>4. ASSUME NEW tx, Settled(tx), NEW kind \in LeavingKinds, NEW newTx,
             Each(kind, tx, newTx), overtaken \subseteq overtaken',
             \/ \A o \in ToSet(tx) : Has(o, tx) \/ o \in overtaken'
             \/ \A o \in ToSet(tx) : o \notin SubmittedOps(submitted),
             kind = "replaced" => newTx # <<>> /\ ToSet(newTx) \subseteq ToSet(tx)
      PROVE  FollowInv'
  <2>1. todo = <<>> /\ submitted' = submitted /\ polled' = polled \ {tx}
    BY <1>4 DEF Settled, stores
  <2> QED BY <1>0, <1>4, <2>1, EachKeepsFollowed
<1>5. ASSUME NEW tx \in polled \cup resending, refreshTransactionStatus(tx)
      PROVE  FollowInv'
  <2>1. tx \in polled /\ overtaken' = overtaken /\ Settled(tx)
    BY <1>5 DEF refreshTransactionStatus
  <2>2. \A o \in ToSet(tx) : Has(o, tx) \/ o \in overtaken'
    BY <2>1 DEF FollowInv, PolledFollowed
  <2>3. \/ todo' = todo
        \/ \E kind \in {"included", "reverted", "dropped"} : Each(kind, tx, <<>>)
    BY <1>5 DEF refreshTransactionStatus
  <2> QED BY <1>3, <1>4, <2>1, <2>2, <2>3 DEF LeavingKinds
<1>6. ASSUME NEW tx \in polled \cup resending, replaceTransaction(tx)
      PROVE  FollowInv'
  <2>1. Settled(tx) /\ tx \in Seq(Ops) /\ BeingReplaced(tx)
    BY <1>0, <1>6 DEF replaceTransaction, CustodyInv, IInv, TypeOK
  <2>2. CASE todo' = todo /\ overtaken' = overtaken
    BY <1>3, <2>1, <2>2
  <2>3. CASE overtaken' = overtaken \cup Overtaken(tx)
    <3>1. overtaken \subseteq overtaken'
      BY <2>3
    <3>2. \/ \A o \in ToSet(tx) : Has(o, tx) \/ o \in overtaken'
          \/ \A o \in ToSet(tx) : o \notin SubmittedOps(submitted)
      <4>1. CASE tx \in polled
        BY <3>1, <4>1 DEF FollowInv, PolledFollowed
      <4>2. CASE tx \in resending
        BY <2>3, <4>2 DEF Overtaken
      <4> QED BY <2>1, <4>1, <4>2 DEF BeingReplaced
    <3>3. CASE Each("dropped", tx, <<>>)
      BY <1>4, <2>1, <3>1, <3>2, <3>3 DEF LeavingKinds
    <3>4. ASSUME NEW n \in 1..Len(tx), NEW f \in Selections(DOMAIN tx, n),
                 Each("replaced", tx, [j \in 1..n |-> tx[f[j]]])
          PROVE  FollowInv'
      <4> DEFINE v == [j \in 1..n |-> tx[f[j]]]
      <4>1. v # <<>> /\ ToSet(v) \subseteq ToSet(tx)
        BY <2>1, SelectedOps
      <4>2. Each("replaced", tx, v)
        BY <3>4
      <4> HIDE DEF v
      <4> QED BY <1>4, <2>1, <3>1, <3>2, <4>1, <4>2 DEF LeavingKinds
    <3>5. \/ todo' = todo
          \/ Each("dropped", tx, <<>>)
          \/ \E n \in 1..Len(tx) : \E f \in Selections(DOMAIN tx, n) :
                 Each("replaced", tx, [j \in 1..n |-> tx[f[j]]])
      BY <1>6 DEF replaceTransaction
    <3>6. todo' = todo => overtaken' = overtaken \/ Each("dropped", tx, <<>>)
              \/ \E n \in 1..Len(tx) : \E f \in Selections(DOMAIN tx, n) :
                     Each("replaced", tx, [j \in 1..n |-> tx[f[j]]])
      BY <1>6 DEF replaceTransaction
    <3> QED BY <2>2, <3>3, <3>4, <3>5, <3>6
  <2> QED BY <1>6, <2>2, <2>3 DEF replaceTransaction
<1>7. ASSUME NEW tx \in polled \cup resending, HandlerThrows(tx)
      PROVE  FollowInv'
  BY <1>3, <1>7 DEF HandlerThrows
<1> QED BY <1>1, <1>2, <1>5, <1>6, <1>7 DEF Blocks, handleTransactionUnderPriced

LEMMA NextFollowInv ==
    ASSUME IsFiniteSet(Runners), ~ SharedWallets, CustodyInv, AwaitInv, FollowInv, [Next]_vars
    PROVE  FollowInv'
<1>0. IInv
  BY DEF CustodyInv
<1>1. CASE Requests \/ UNCHANGED vars \/ \E r \in Runners : bundle(r) \/ Process(r)
  <2>1. /\ todo' = todo /\ submitted' = submitted /\ polled' = polled
        /\ overtaken' = overtaken
    BY <1>1 DEF aa95Vars, Requests, add, clear, ReputationChanges, vars, stores, blockVars, bundle,
                Process, ValidationFailed, StorageClash, ValidationPassed, BalanceRead,
                BalanceThrows, Skip, Take, ProcessAgain, SendBundles
  <2> QED BY <1>0, <2>1, IdleKeepsFollowed
<1>2. ASSUME NEW i \in DOMAIN sending, NEW ep \in sending[i].left, SendToExecutor(i, ep)
      PROVE  FollowInv'
  BY <1>0, <1>2, SendingKeepsFollowed
<1>3. CASE Loop
  BY <1>3, LoopKeepsFollowed
<1>4. CASE Blocks
  BY <1>4, BlocksKeepFollowed
<1> QED BY <1>1, <1>2, <1>3, <1>4 DEF Next, Bundling

\* With one call of bundle() at a time and no account behind two executor keys, no
\* operation is in two transactions that the bundler follows, whatever is dropped,
\* resubmitted, or replaced by what passes simulation, unless it was in one that
\* AA95 made fail and of which something was submitted again before its replacement.
THEOREM TransactionsApart ==
    ASSUME OneRunner, ~ SharedWallets
    PROVE  Spec => []TransactionsDisjoint
<1>1. IsFiniteSet(Runners)
  BY OneRunnerFinite
<1>2. Init => FollowInv
  BY DEF Init, FollowInv, EntriesFollowed, TasksFollowed, TasksAgree, PolledFollowed, ToSet
<1>3. CustodyInv /\ AwaitInv /\ FollowInv /\ [Next]_vars => FollowInv'
  BY <1>1, NextFollowInv
<1>4. CustodyInv /\ FollowInv => TransactionsDisjoint
  BY FollowedApart DEF CustodyInv, SingleCustody, DistinctOps, IInv, TypeOK
<1>5. Spec => []CustodyInv
  BY CustodyInvAlways
<1>6. Spec => []AwaitInv
  BY <1>1, AwaitInvAlways
<1> QED BY <1>2, <1>3, <1>4, <1>5, <1>6, PTL DEF Spec
=============================================================================
