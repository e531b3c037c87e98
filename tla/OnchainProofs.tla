--------------------------- MODULE OnchainProofs ---------------------------
(* Theorems about Onchain, for any quotes, proofs, requests in flight and     *)
(* bounds.                                                                    *)
EXTENDS Onchain, TLAPS

\* One step of a request in slot p.
RequestStep(p) == QuoteStep(p) \/ MeltStep(p) \/ Fail(p)

\* One step of the monitor.
WatchStep == MonitorStep \/ Fail(Monitor)

\* What happens without a handler of a melt or the monitor.
OutsideStep ==
    \/ \E u \in Uid : StoreMintop(u)
    \/ DeleteDenied \/ WalletStep \/ Clean \/ Deposit \/ Tick

\* What every step needs to know of the state it starts from.
InOrder == TypeOK /\ MeltsInOrder /\ MonitorInOrder

\* A step is one of a request, of the monitor, a restart, one from outside, or none.
LEMMA StepKinds ==
    ASSUME [Next]_vars
    PROVE  (\E p \in Proc : RequestStep(p)) \/ WatchStep \/ Crash \/ OutsideStep \/ UNCHANGED vars
BY DEF Next, RequestStep, WatchStep, OutsideStep, Agent

-----------------------------------------------------------------------------
(* Lemmas about the operators that the actions share. *)

\* Marking what expired changes a status and nothing else, and makes no operation pending
\* or paid.
LEMMA ExpireMelts ==
    ASSUME TypeOK, NEW at
    PROVE  /\ Expire(melts, Qid, at) \in [Qid -> MeltOp \cup {None}]
           /\ \A q \in Qid :
                 LET op == Expire(melts, Qid, at)[q]
                 IN  /\ op = melts[q] \/ (op # None /\ melts[q] # None /\ op.status = "expired")
                     /\ melts[q] # None => /\ op.inputs = melts[q].inputs
                                           /\ op.expiry = melts[q].expiry
<1>1. \A q \in Qid : melts[q] # None => melts[q] \in MeltOp
  BY DEF TypeOK
<1>2. ASSUME NEW op \in MeltOp
      PROVE  /\ [op EXCEPT !.status = "expired"] \in MeltOp
             /\ [op EXCEPT !.status = "expired"].status = "expired"
             /\ [op EXCEPT !.status = "expired"].inputs = op.inputs
             /\ [op EXCEPT !.status = "expired"].expiry = op.expiry
  BY DEF MeltOp, Statuses
<1>3. ASSUME NEW q \in Qid
      PROVE  Expire(melts, Qid, at)[q] =
                IF melts[q] # None /\ melts[q].expiry < at
                THEN [melts[q] EXCEPT !.status = "expired"] ELSE melts[q]
  BY DEF Expire
<1>4. Expire(melts, Qid, at) \in [Qid -> MeltOp \cup {None}]
  BY <1>1, <1>2 DEF Expire, TypeOK
<1>5. ASSUME NEW q \in Qid, melts[q] # None, melts[q].expiry < at
      PROVE  LET op == Expire(melts, Qid, at)[q]
             IN  /\ op # None /\ op.status = "expired"
                 /\ op.inputs = melts[q].inputs /\ op.expiry = melts[q].expiry
  <2>1. Expire(melts, Qid, at)[q] = [melts[q] EXCEPT !.status = "expired"]
    BY <1>3, <1>5
  <2>2. [melts[q] EXCEPT !.status = "expired"] # None
    BY <1>1, <1>2, <1>5, NoneAssumption
  <2> QED
    BY <1>1, <1>2, <1>5, <2>1, <2>2
<1>6. ASSUME NEW q \in Qid, ~(melts[q] # None /\ melts[q].expiry < at)
      PROVE  Expire(melts, Qid, at)[q] = melts[q]
  BY <1>3, <1>6
<1> QED
  BY <1>4, <1>5, <1>6

\* The same of mint operations.
LEMMA ExpireMints ==
    ASSUME TypeOK, NEW at
    PROVE  /\ Expire(mints, Uid, at) \in [Uid -> MintOp \cup {None}]
           /\ \A u \in Uid :
                 LET op == Expire(mints, Uid, at)[u]
                 IN  op = mints[u] \/ (op # None /\ mints[u] # None /\ op.status = "expired")
<1>1. \A u \in Uid : mints[u] # None => mints[u] \in MintOp
  BY DEF TypeOK
<1>2. ASSUME NEW op \in MintOp
      PROVE  /\ [op EXCEPT !.status = "expired"] \in MintOp
             /\ [op EXCEPT !.status = "expired"].status = "expired"
  BY DEF MintOp, Statuses
<1>3. ASSUME NEW u \in Uid
      PROVE  Expire(mints, Uid, at)[u] =
                IF mints[u] # None /\ mints[u].expiry < at
                THEN [mints[u] EXCEPT !.status = "expired"] ELSE mints[u]
  BY DEF Expire
<1>4. Expire(mints, Uid, at) \in [Uid -> MintOp \cup {None}]
  BY <1>1, <1>2 DEF Expire, TypeOK
<1> QED
  BY <1>1, <1>2, <1>3, <1>4, NoneAssumption

\* What expired is set to a status is still what it was.
LEMMA SetStatus ==
    ASSUME NEW op, NEW st \in Statuses
    PROVE  /\ op \in MeltOp =>
                /\ [op EXCEPT !.status = st] \in MeltOp
                /\ [op EXCEPT !.status = st].status = st
                /\ [op EXCEPT !.status = st].inputs = op.inputs
                /\ [op EXCEPT !.status = st].expiry = op.expiry
           /\ op \in MintOp =>
                /\ [op EXCEPT !.status = st] \in MintOp
                /\ [op EXCEPT !.status = st].status = st
BY DEF MeltOp, MintOp

\* What a request is about to do is well-typed.
LEMMA JobTypes ==
    ASSUME TypeOK
    PROVE  /\ NoJob \in Job
           /\ \A inputs \in SUBSET P, outflow \in Nat, id \in Qid \cup Uid \cup {None},
                 todo \in SUBSET (Qid \cup Uid) : NewJob(inputs, outflow, id, todo) \in Job
BY DEF TypeOK, NoJob, NewJob, Job

\* A reply leaves the handlers well-typed.
LEMMA EndType ==
    ASSUME TypeOK, NEW a \in Agent, End(a)
    PROVE  pc' \in [Agent -> PCs] /\ job' \in [Agent -> Job]
BY JobTypes DEF TypeOK, End, Goto, PCs

\* So does a request.
LEMMA BeginType ==
    ASSUME TypeOK, NEW a \in Agent, NEW l \in PCs, NEW j \in Job, Begin(a, l, j)
    PROVE  pc' \in [Agent -> PCs] /\ job' \in [Agent -> Job]
BY DEF TypeOK, Begin, Goto

-----------------------------------------------------------------------------
(* Type correctness. *)

LEMMA InitType == Init => TypeOK
BY ParameterAssumption, JobTypes DEF Init, Core!Init, TypeOK, PCs, NoJob, Job

\* A handler that goes on, with its job as it is.
LEMMA GotoType ==
    ASSUME TypeOK, NEW a \in Agent, NEW l \in PCs, Goto(a, l)
    PROVE  pc' \in [Agent -> PCs]
BY DEF TypeOK, Goto

LEMMA QuoteStepType ==
    ASSUME InOrder, NEW p \in Proc, QuoteStep(p)
    PROVE  TypeOK'
<1> USE DEF InOrder
<1>0. p \in Agent
  BY DEF Agent
<1>1. CASE QuoteStart(p)
  <2>1. PICK r \in MeltRequests : Begin(p, "spendable", NewJob(r.inputs, r.outflow, None, {}))
    BY <1>1 DEF QuoteStart
  <2>2. NewJob(r.inputs, r.outflow, None, {}) \in Job /\ "spendable" \in PCs
    BY JobTypes, ParameterAssumption DEF PCs
  <2> QED
    BY <1>0, <1>1, <2>1, <2>2, BeginType DEF QuoteStart, TypeOK, store, core, clowder
<1>2. CASE Spendable(p)
  <2>1. pc' \in [Agent -> PCs] /\ job' \in [Agent -> Job]
    BY <1>0, <1>2, EndType DEF Spendable, Goto, TypeOK, PCs
  <2> QED
    BY <1>2, <2>1 DEF Spendable, TypeOK, store, core, clowder
<1>3. CASE ListPendingMelts(p)
  <2>1. melts' \in [Qid -> MeltOp \cup {None}]
    BY <1>3, ExpireMelts DEF ListPendingMelts
  <2>2. job' \in [Agent -> Job]
    BY <1>0, <1>3 DEF ListPendingMelts, TypeOK, Job, Pending, Stored
  <2>3. pc' \in [Agent -> PCs]
    BY <1>3 DEF ListPendingMelts, Goto, TypeOK, PCs
  <2> QED
    BY <1>3, <2>1, <2>2, <2>3 DEF ListPendingMelts, TypeOK, core, clowder
<1>4. CASE LoadPendingMelt(p)
  <2>1. PICK q \in job[p].todo : LoadPendingMelt(p)!(q)
    BY <1>4 DEF LoadPendingMelt
  <2>2. q \in Qid /\ melts[q] # None /\ melts[q] \in MeltOp
    BY <2>1 DEF MeltsInOrder, MeltInOrder, Stored, TypeOK
  <2>3. melts' \in [Qid -> MeltOp \cup {None}]
    <3>1. [melts[q] EXCEPT !.status = "expired"] \in MeltOp
      BY <2>2, SetStatus DEF Statuses
    <3> QED
      BY <2>1, <2>2, <3>1 DEF TypeOK
  <2>4. job' \in [Agent -> Job]
    BY <1>0, <2>1, <2>2 DEF TypeOK, Job
  <2> QED
    BY <2>1, <2>3, <2>4 DEF TypeOK, core, clowder
<1>5. CASE LosePendingMelt(p)
  <2>1. job' \in [Agent -> Job]
    <3>1. PICK q \in job[p].todo : job' = [job EXCEPT ![p].todo = @ \ {q}]
      BY <1>5 DEF LosePendingMelt
    <3>2. job \in [Agent -> Job] /\ job[p].todo \in SUBSET (Qid \cup Uid)
      BY <1>0 DEF TypeOK, Job
    <3> QED
      BY <1>0, <3>1, <3>2 DEF Job
  <2> QED
    BY <1>5, <2>1 DEF LosePendingMelt, TypeOK, store, core, clowder
<1>6. CASE CrossCheck(p)
  <2>1. pc' \in [Agent -> PCs] /\ job' \in [Agent -> Job]
    BY <1>0, <1>6, EndType DEF CrossCheck, Goto, TypeOK, PCs
  <2> QED
    BY <1>6, <2>1 DEF CrossCheck, TypeOK, store, core, clowder
<1>7. CASE CheckReserve(p)
  <2>1. PICK l \in {"deny", "lock"} : Goto(p, l)
    BY <1>7 DEF CheckReserve
  <2>2. pc' \in [Agent -> PCs]
    BY <1>0, <2>1, GotoType DEF PCs
  <2> QED
    BY <1>7, <2>2 DEF CheckReserve, TypeOK, store, core, clowder
<1>8. CASE StoreDenied(p)
  BY <1>0, <1>8, EndType DEF StoreDenied, TypeOK, core, clowder
<1>9. CASE ReserveInputs(p)
  <2>1. now' = now
    BY <1>9 DEF ReserveInputs, Core!Hold
  <2>2. pc' \in [Agent -> PCs] /\ job' \in [Agent -> Job]
    BY <1>0, <1>9, EndType DEF ReserveInputs, Goto, TypeOK, PCs
  <2> QED
    BY <1>9, <2>1, <2>2 DEF ReserveInputs, TypeOK, store, clowder
<1>10. CASE StoreMeltop(p)
  <2>1. PICK q \in Qid \ (Stored(melts, Qid) \cup denied) : StoreMeltop(p)!(q)
    BY <1>10 DEF StoreMeltop
  <2>2. [inputs |-> job[p].inputs, outflow |-> job[p].outflow,
         expiry |-> job[p].at + MeltExpiry, status |-> "pending"] \in MeltOp
    BY <1>0, ParameterAssumption DEF TypeOK, Job, MeltOp, Statuses
  <2>3. melts' \in [Qid -> MeltOp \cup {None}]
    BY <2>1, <2>2, ExpireMelts
  <2> QED
    BY <1>0, <2>1, <2>3, EndType DEF TypeOK, core, clowder
<1> QED
  BY <1>1, <1>2, <1>3, <1>4, <1>5, <1>6, <1>7, <1>8, <1>9, <1>10 DEF QuoteStep

LEMMA MeltStepType ==
    ASSUME InOrder, NEW p \in Proc, MeltStep(p)
    PROVE  TypeOK'
<1> USE DEF InOrder
<1>0. p \in Agent
  BY DEF Agent
<1>1. CASE MeltStart(p)
  <2>1. PICK q \in Stored(melts, Qid) :
           Begin(p, "verify", NewJob(melts[q].inputs, melts[q].outflow, q, {}))
    BY <1>1 DEF MeltStart
  <2>2. melts[q] \in MeltOp /\ q \in Qid
    BY <2>1 DEF Stored, TypeOK
  <2>3. NewJob(melts[q].inputs, melts[q].outflow, q, {}) \in Job /\ "verify" \in PCs
    BY <2>2, JobTypes DEF PCs, MeltOp
  <2> QED
    BY <1>0, <1>1, <2>1, <2>3, BeginType DEF MeltStart, TypeOK, store, core, clowder
<1>2. CASE VerifyUnspent(p) \/ LoadMeltop(p)
  <2>1. pc' \in [Agent -> PCs] /\ job' \in [Agent -> Job]
    BY <1>0, <1>2, EndType DEF VerifyUnspent, LoadMeltop, Goto, TypeOK, PCs
  <2> QED
    BY <1>2, <2>1 DEF VerifyUnspent, LoadMeltop, TypeOK, store, core, clowder
<1>3. CASE Settle(p)
  <2>1. pc' \in [Agent -> PCs] /\ job' \in [Agent -> Job]
    BY <1>0, <1>3, EndType DEF Settle, Goto, TypeOK, PCs
  <2>2. /\ job[p].id \in Qid /\ job[p].inputs \in SUBSET P /\ job[p].outflow \in Nat
        /\ reserve \in Nat
    BY <1>0, <1>3 DEF Settle, MeltsInOrder, MeltInOrder, Stored, TypeOK, Job
  <2>3. reserve' \in Nat /\ settled' \in SUBSET Qid /\ consumed' \in SUBSET P
    BY <1>3, <2>2 DEF Settle, TypeOK
  <2> QED
    BY <1>3, <2>1, <2>3 DEF Settle, TypeOK, store, core
<1>4. CASE BurnInputs(p)
  <2>1. now' = now
    BY <1>4 DEF BurnInputs, Core!Spend
  <2>2. pc' \in [Agent -> PCs]
    BY <1>0, <1>4, GotoType DEF BurnInputs, PCs
  <2> QED
    BY <1>4, <2>1, <2>2 DEF BurnInputs, TypeOK, store, clowder
<1>5. CASE StoreFees(p)
  <2>1. pc' \in [Agent -> PCs]
    BY <1>0, <1>5, GotoType DEF StoreFees, PCs
  <2>2. job[p].id \in Qid
    BY <1>5 DEF StoreFees, MeltsInOrder, MeltInOrder, Stored
  <2> QED
    BY <1>5, <2>1, <2>2 DEF StoreFees, TypeOK, store, core, clowder
<1>6. CASE SetPaid(p)
  <2>1. job[p].id \in Qid /\ melts[job[p].id] \in MeltOp
    BY <1>6 DEF SetPaid, MeltsInOrder, MeltInOrder, Stored, TypeOK
  <2>2. [melts[job[p].id] EXCEPT !.status = "paid"] \in MeltOp
    BY <2>1, SetStatus DEF Statuses
  <2>3. melts' \in [Qid -> MeltOp \cup {None}]
    BY <1>6, <2>1, <2>2 DEF SetPaid, TypeOK
  <2> QED
    BY <1>0, <1>6, <2>3, EndType DEF SetPaid, TypeOK, core, clowder
<1>7. CASE Skip(p)
  <2>1. pc' \in [Agent -> PCs] /\ job' \in [Agent -> Job]
    BY <1>0, <1>7, EndType DEF Skip, Goto, TypeOK, PCs
  <2> QED
    BY <1>7, <2>1 DEF Skip, TypeOK, store, core, clowder
<1> QED
  BY <1>1, <1>2, <1>3, <1>4, <1>5, <1>6, <1>7 DEF MeltStep

LEMMA MonitorStepType ==
    ASSUME InOrder, MonitorStep
    PROVE  TypeOK'
<1> USE DEF InOrder
<1>0. Monitor \in Agent
  BY DEF Agent
<1>1. CASE ListPendingMints
  <2>1. mints' \in [Uid -> MintOp \cup {None}]
    BY <1>1, ExpireMints DEF ListPendingMints
  <2>2. Pending(mints', Uid) \in SUBSET (Qid \cup Uid)
    BY DEF Pending, Stored
  <2>3. NewJob({}, 0, None, Pending(mints', Uid)) \in Job /\ "payment" \in PCs
    BY <2>2, JobTypes DEF PCs
  <2> QED
    BY <1>0, <1>1, <2>1, <2>3, BeginType DEF ListPendingMints, TypeOK, core, clowder
<1>2. CASE VerifyPayment
  <2>1. PICK u \in job[Monitor].todo : VerifyPayment!(u)
    BY <1>2 DEF VerifyPayment
  <2>2. u \in Uid /\ mints[u] # None /\ mints[u] \in MintOp
    BY <2>1 DEF MonitorInOrder, Stored, TypeOK
  <2>3. mints' \in [Uid -> MintOp \cup {None}]
    <3>1. [mints[u] EXCEPT !.status = "expired"] \in MintOp
      BY <2>2, SetStatus DEF Statuses
    <3> QED
      BY <2>1, <2>2, <3>1 DEF TypeOK
  <2>4. job' \in [Agent -> Job] /\ pc' \in [Agent -> PCs]
    BY <1>0, <2>1, <2>2 DEF TypeOK, Job, Goto, PCs
  <2> QED
    BY <2>1, <2>3, <2>4 DEF TypeOK, core, clowder
<1>3. CASE SignMint
  <2>1. pc' \in [Agent -> PCs] /\ job' \in [Agent -> Job]
    BY <1>0, <1>3, EndType DEF SignMint, Goto, TypeOK, PCs
  <2>2. job[Monitor].id \in Uid
    BY <1>3 DEF SignMint, MonitorInOrder, Stored
  <2> QED
    BY <1>3, <2>1, <2>2 DEF SignMint, TypeOK, store, clowder
<1>4. CASE SignalMint
  <2>1. pc' \in [Agent -> PCs]
    BY <1>0, <1>4, GotoType DEF SignalMint, PCs
  <2>2. job[Monitor].id \in Uid
    BY <1>4 DEF SignalMint, MonitorInOrder, Stored
  <2> QED
    BY <1>4, <2>1, <2>2 DEF SignalMint, TypeOK, store, core
<1>5. CASE SetMinted
  <2>1. job[Monitor].id \in Uid /\ mints[job[Monitor].id] \in MintOp
    BY <1>5 DEF SetMinted, MonitorInOrder, Stored, TypeOK
  <2>2. [mints[job[Monitor].id] EXCEPT !.status = "paid"] \in MintOp
    BY <2>1, SetStatus DEF Statuses
  <2>3. mints' \in [Uid -> MintOp \cup {None}]
    BY <1>5, <2>1, <2>2 DEF SetMinted, TypeOK
  <2>4. job' \in [Agent -> Job] /\ pc' \in [Agent -> PCs]
    BY <1>0, <1>5 DEF SetMinted, TypeOK, Job, Goto, PCs
  <2> QED
    BY <1>5, <2>3, <2>4 DEF SetMinted, TypeOK, core, clowder
<1>6. CASE RoundDone
  BY <1>0, <1>6, EndType DEF RoundDone, TypeOK, store, core, clowder
<1> QED
  BY <1>1, <1>2, <1>3, <1>4, <1>5, <1>6 DEF MonitorStep

LEMMA OtherStepType ==
    ASSUME InOrder, OutsideStep \/ Crash \/ (\E a \in Agent : Fail(a)) \/ UNCHANGED vars
    PROVE  TypeOK'
<1> USE DEF InOrder
<1>1. ASSUME NEW u \in Uid, StoreMintop(u) PROVE TypeOK'
  <2>1. PICK at \in 0..now :
           mints' = [mints EXCEPT ![u] = [expiry |-> at + MintExpiry, status |-> "pending"]]
    BY <1>1 DEF StoreMintop, InsertMintop
  <2>2. [expiry |-> at + MintExpiry, status |-> "pending"] \in MintOp
    BY ParameterAssumption DEF MintOp, Statuses, TypeOK
  <2>3. mints' \in [Uid -> MintOp \cup {None}]
    BY <2>1, <2>2 DEF TypeOK
  <2> QED
    BY <1>1, <2>3 DEF StoreMintop, TypeOK, core, clowder
<1>2. CASE DeleteDenied
  BY <1>2 DEF DeleteDenied, TypeOK, core, clowder
<1>3. CASE WalletStep
  <2>1. consumed \subseteq P /\ swaps \subseteq P /\ swapped \subseteq P
    BY DEF TypeOK
  <2>2. CASE WalletCommits \/ SwapInsert
    BY <2>2 DEF WalletCommits, SwapInsert, Core!Hold, Core!Spend, TypeOK, store, clowder
  <2>3. CASE SwapStart \/ SwapSignal
    <3>1. consumed' \subseteq P /\ swaps' \subseteq P /\ swapped' \subseteq P
      BY <2>1, <2>3 DEF SwapStart, SwapSignal, clowder
    <3> QED
      BY <2>3, <3>1 DEF SwapStart, SwapSignal, TypeOK, store, clowder
  <2> QED
    BY <1>3, <2>2, <2>3 DEF WalletStep
<1>4. CASE Clean
  BY <1>4 DEF Clean, Core!Lapse, TypeOK, store, clowder
<1>5. CASE Deposit
  BY <1>5 DEF Deposit, Stored, TypeOK, store, core
<1>6. CASE Tick
  BY <1>6, ParameterAssumption DEF Tick, TypeOK, store, core, clowder
<1>7. ASSUME NEW a \in Agent, Fail(a) PROVE TypeOK'
  BY <1>7, EndType DEF Fail, TypeOK, store, core, clowder
<1>8. CASE Crash
  <2>1. pc' \in [Agent -> PCs] /\ job' \in [Agent -> Job]
    BY <1>8, JobTypes DEF Crash, PCs
  <2> QED
    BY <1>8, <2>1 DEF Crash, TypeOK, store, core, clowder
<1>9. CASE UNCHANGED vars
  BY <1>9 DEF vars, TypeOK, store, core, clowder
<1> QED
  BY <1>1, <1>2, <1>3, <1>4, <1>5, <1>6, <1>7, <1>8, <1>9 DEF OutsideStep

LEMMA StepType ==
    ASSUME InOrder, [Next]_vars
    PROVE  TypeOK'
BY QuoteStepType, MeltStepType, MonitorStepType, OtherStepType DEF Next, OutsideStep

-----------------------------------------------------------------------------
(* What a step does to the tables, the locks and the ledgers. *)

\* Melt quotes are stored once and for all; they change their status only, to pending when
\* they are stored and to paid at the end of a melt.
MeltChange(q) ==
    /\ melts[q] # None =>
         /\ melts'[q] # None
         /\ melts'[q].inputs = melts[q].inputs /\ melts'[q].expiry = melts[q].expiry
    /\ melts'[q] # None /\ melts'[q].status = "pending" =>
         \/ melts[q] # None /\ melts[q].status = "pending"
         \/ \E p \in Proc : /\ StoreMeltop(p)
                            /\ melts'[q].inputs = job[p].inputs
                            /\ melts'[q].expiry = job[p].at + MeltExpiry
    /\ melts'[q] # None /\ melts'[q].status = "paid" =>
         \/ melts[q] # None /\ melts[q].status = "paid"
         \/ \E p \in Proc : SetPaid(p) /\ job[p].id = q

LEMMA MeltsChange ==
    ASSUME InOrder, [Next]_vars, NEW q \in Qid
    PROVE  MeltChange(q)
<1> USE DEF InOrder
<1>1. CASE melts' = melts
  BY <1>1 DEF MeltChange
<1>2. ASSUME NEW p \in Proc, ListPendingMelts(p)
      PROVE  melts' = Expire(melts, Qid, job[p].at)
  BY <1>2 DEF ListPendingMelts
<1>3. ASSUME NEW at, melts' = Expire(melts, Qid, at) PROVE MeltChange(q)
  BY <1>3, ExpireMelts DEF MeltChange
<1>4. ASSUME NEW p \in Proc, NEW r \in Qid, melts[r] # None, NEW st \in {"expired", "paid"},
             melts' = [melts EXCEPT ![r].status = st],
             st = "paid" => SetPaid(p) /\ job[p].id = r
      PROVE  MeltChange(q)
  <2>1. melts[r] \in MeltOp /\ st \in Statuses
    BY <1>4 DEF TypeOK, Statuses
  <2>2. melts'[r] = [melts[r] EXCEPT !.status = st] /\ (q # r => melts'[q] = melts[q])
    BY <1>4 DEF TypeOK
  <2>3. /\ melts'[r] \in MeltOp /\ melts'[r].status = st
        /\ melts'[r].inputs = melts[r].inputs /\ melts'[r].expiry = melts[r].expiry
    BY <2>1, <2>2, SetStatus
  <2>4. melts'[r] # None
    BY <2>3, NoneAssumption
  <2> QED
    BY <1>4, <2>2, <2>3, <2>4 DEF MeltChange
<1>5. ASSUME NEW p \in Proc, StoreMeltop(p) PROVE MeltChange(q)
  <2>1. PICK r \in Qid \ (Stored(melts, Qid) \cup denied) : StoreMeltop(p)!(r)
    BY <1>5 DEF StoreMeltop
  <2> DEFINE table == Expire(melts, Qid, job[p].at)
             op == [inputs |-> job[p].inputs, outflow |-> job[p].outflow,
                    expiry |-> job[p].at + MeltExpiry, status |-> "pending"]
  <2>2. melts' = table \/ melts' = [table EXCEPT ![r] = op]
    BY <2>1
  <2>3. melts[r] = None
    BY DEF Stored
  <2>4. op.inputs = job[p].inputs /\ op.expiry = job[p].at + MeltExpiry /\ op.status = "pending"
    OBVIOUS
  <2>5. table \in [Qid -> MeltOp \cup {None}]
    BY ExpireMelts
  <2> HIDE DEF op, table
  <2>6. CASE melts' = [table EXCEPT ![r] = op]
    <3>1. melts'[r] = op /\ (q # r => melts'[q] = table[q])
      BY <2>5, <2>6
    <3>2. CASE q = r
      BY <1>5, <2>3, <2>4, <3>1, <3>2 DEF MeltChange
    <3>3. CASE q # r
      BY <3>1, <3>3, ExpireMelts DEF table, MeltChange
    <3> QED
      BY <3>2, <3>3
  <2> QED
    BY <1>3, <2>2, <2>6 DEF table
<1>6. ASSUME NEW p \in Proc, LoadPendingMelt(p) PROVE MeltChange(q)
  <2>1. PICK r \in job[p].todo : LoadPendingMelt(p)!(r)
    BY <1>6 DEF LoadPendingMelt
  <2>2. r \in Qid /\ melts[r] # None
    BY <2>1 DEF MeltsInOrder, MeltInOrder, Stored
  <2> QED
    BY <1>1, <1>4, <2>1, <2>2
<1>7. ASSUME NEW p \in Proc, SetPaid(p) PROVE MeltChange(q)
  BY <1>4, <1>7 DEF SetPaid, MeltsInOrder, MeltInOrder, Stored
<1>8. \/ melts' = melts
      \/ \E p \in Proc : ListPendingMelts(p) \/ LoadPendingMelt(p) \/ StoreMeltop(p) \/ SetPaid(p)
  BY DEF Next, QuoteStep, QuoteStart, Spendable, LosePendingMelt, CrossCheck, CheckReserve,
     StoreDenied, ReserveInputs, MeltStep, MeltStart, VerifyUnspent, LoadMeltop, Settle,
     BurnInputs, StoreFees, Skip, StoreMintop, MonitorStep, ListPendingMints, VerifyPayment,
     SignMint, SignalMint, SetMinted, RoundDone, DeleteDenied, WalletStep, WalletCommits, SwapStart, SwapSignal, SwapInsert, Clean, Deposit,
     Fail, Tick, Crash, vars, store
<1> QED
  BY <1>1, <1>2, <1>3, <1>5, <1>6, <1>7, <1>8

\* A lock is taken by a quote or by a commitment, given up once it is over, or ends with
\* the spend by a melt or by a swap that clowder acknowledged.
LockChange(y) ==
    \/ lock'[y] = lock[y]
    \/ \E p \in Proc : /\ ReserveInputs(p) /\ y \in job[p].inputs /\ lock[y] = Core!Free
                       /\ lock'[y] = Core!Held(None, job[p].at + MeltExpiry)
    \/ \E t \in now..MaxTime : lock[y] = Core!Free /\ lock'[y] = Core!Held(Wallet, t)
    \/ \E p \in Proc : BurnInputs(p) /\ y \in job[p].inputs /\ lock'[y] = Core!Spent
    \/ y \in swapped /\ lock'[y] = Core!Spent
    \/ lock[y].state = "held" /\ lock[y].until < now /\ lock'[y] = Core!Free

LEMMA LocksChange ==
    ASSUME [Next]_vars, NEW y \in P
    PROVE  LockChange(y)
<1>1. ASSUME NEW p \in Proc, ReserveInputs(p) PROVE LockChange(y)
  <2>1. CASE Core!Hold(job[p].inputs, None, job[p].at + MeltExpiry)
    BY <1>1, <2>1 DEF Core!Hold, Core!Change, LockChange
  <2> QED
    BY <1>1, <2>1 DEF ReserveInputs, LockChange
<1>2. ASSUME NEW p \in Proc, BurnInputs(p) PROVE LockChange(y)
  <2>1. CASE Core!Spend(job[p].inputs)
    BY <1>2, <2>1 DEF Core!Spend, Core!Change, LockChange
  <2> QED
    BY <1>2, <2>1 DEF BurnInputs, LockChange
<1>3. CASE WalletCommits \/ SwapInsert
  BY <1>3 DEF WalletCommits, SwapInsert, Core!Hold, Core!Spend, Core!Change, LockChange
<1>4. CASE Clean
  BY <1>4 DEF Clean, Core!Lapse, Core!Change, LockChange
<1>5. \/ lock' = lock
      \/ \E p \in Proc : ReserveInputs(p) \/ BurnInputs(p)
      \/ WalletCommits \/ SwapInsert \/ Clean
  BY DEF Next, QuoteStep, QuoteStart, Spendable, ListPendingMelts, LoadPendingMelt,
     LosePendingMelt, CrossCheck, CheckReserve, StoreDenied, StoreMeltop, MeltStep, MeltStart,
     VerifyUnspent, LoadMeltop, Settle, SetPaid, StoreFees, Skip, StoreMintop, MonitorStep,
     ListPendingMints, VerifyPayment, SignMint, SignalMint, SetMinted, RoundDone, DeleteDenied,
     WalletStep, SwapStart, SwapSignal, Deposit, Fail, Tick, Crash, vars, core
<1> QED
  BY <1>1, <1>2, <1>3, <1>4, <1>5 DEF LockChange

\* What clowder has paid, seen and heard stays, and so do signatures; time does not go back.
LEMMA LedgersGrow ==
    ASSUME TypeOK, [Next]_vars
    PROVE  /\ settled \subseteq settled' /\ deposits \subseteq deposits'
           /\ signed \subseteq signed' /\ events \subseteq events' /\ now <= now'
           /\ consumed \subseteq consumed' /\ swapped \subseteq swapped'
<1>1. now' = now \/ now' = now + 1
  BY DEF Next, QuoteStep, QuoteStart, Spendable, ListPendingMelts, LoadPendingMelt,
     LosePendingMelt, CrossCheck, CheckReserve, StoreDenied, ReserveInputs, Core!Hold,
     StoreMeltop, MeltStep, MeltStart, VerifyUnspent, LoadMeltop, Settle, BurnInputs,
     Core!Spend, SetPaid, StoreFees, Skip, StoreMintop, MonitorStep, ListPendingMints,
     VerifyPayment, SignMint, SignalMint, SetMinted, RoundDone, DeleteDenied, WalletStep, WalletCommits, SwapStart, SwapSignal, SwapInsert,
     Clean, Core!Lapse, Deposit, Fail, Tick, Crash, vars
<1>2. /\ settled \subseteq settled' /\ deposits \subseteq deposits'
      /\ signed \subseteq signed' /\ events \subseteq events'
      /\ consumed \subseteq consumed' /\ swapped \subseteq swapped'
  BY DEF Next, QuoteStep, QuoteStart, Spendable, ListPendingMelts, LoadPendingMelt,
     LosePendingMelt, CrossCheck, CheckReserve, StoreDenied, ReserveInputs, StoreMeltop,
     MeltStep, MeltStart, VerifyUnspent, LoadMeltop, Settle, BurnInputs, SetPaid, StoreFees,
     Skip, StoreMintop, MonitorStep, ListPendingMints, VerifyPayment, SignMint, SignalMint,
     SetMinted, RoundDone, DeleteDenied, WalletStep, WalletCommits, SwapStart, SwapSignal, SwapInsert, Clean, Deposit, Fail, Tick, Crash, vars,
     core, clowder
<1> QED
  BY <1>1, <1>2 DEF TypeOK

-----------------------------------------------------------------------------
(* What a step does to one handler, and what handlers know of the tables. *)

Stays(a) == pc'[a] = pc[a] /\ job'[a] = job[a]

\* A handler moves by a step of its own, or is cut short.
LEMMA OwnSteps ==
    ASSUME TypeOK, [Next]_vars, NEW a \in Agent
    PROVE  \/ Stays(a)
           \/ pc'[a] = "idle" /\ UNCHANGED <<melts, mints>>
           \/ a \in Proc /\ (QuoteStep(a) \/ MeltStep(a))
           \/ a = Monitor /\ MonitorStep
<1>0. pc \in [Agent -> PCs] /\ job \in [Agent -> Job]
  BY DEF TypeOK
<1>1. ASSUME NEW p \in Agent, p # a, NEW l, Goto(p, l) PROVE pc'[a] = pc[a]
  BY <1>0, <1>1 DEF Goto
<1>2. ASSUME NEW p \in Agent, p # a, End(p) PROVE Stays(a)
  BY <1>0, <1>2 DEF End, Goto, Stays
<1>3. ASSUME NEW p \in Agent, p # a, NEW l, NEW j, Begin(p, l, j) PROVE Stays(a)
  BY <1>0, <1>3 DEF Begin, Goto, Stays
<1>4. ASSUME NEW p \in Proc, p # a, QuoteStep(p) PROVE Stays(a)
  <2>0. p \in Agent
    BY DEF Agent
  <2>1. CASE QuoteStart(p) \/ Spendable(p) \/ CrossCheck(p) \/ StoreDenied(p) \/ StoreMeltop(p)
    BY <1>1, <1>2, <1>3, <1>4, <2>0, <2>1
    DEF QuoteStart, Spendable, CrossCheck, StoreDenied, StoreMeltop, Stays
  <2>2. CASE CheckReserve(p) \/ ReserveInputs(p)
    BY <1>1, <1>2, <1>4, <2>0, <2>2 DEF CheckReserve, ReserveInputs, Stays
  <2>3. CASE ListPendingMelts(p)
    BY <1>0, <1>4, <2>0, <2>3 DEF ListPendingMelts, Goto, Stays
  <2>4. CASE LoadPendingMelt(p) \/ LosePendingMelt(p)
    BY <1>0, <1>4, <2>0, <2>4 DEF LoadPendingMelt, LosePendingMelt, Stays
  <2> QED
    BY <1>4, <2>1, <2>2, <2>3, <2>4 DEF QuoteStep
<1>5. ASSUME NEW p \in Proc, p # a, MeltStep(p) PROVE Stays(a)
  <2>0. p \in Agent
    BY DEF Agent
  <2> QED
    BY <1>1, <1>2, <1>3, <1>5, <2>0 DEF MeltStep, MeltStart, VerifyUnspent, LoadMeltop, Settle,
       BurnInputs, StoreFees, SetPaid, Skip, Stays
<1>6. ASSUME a # Monitor, MonitorStep PROVE Stays(a)
  <2>0. Monitor \in Agent
    BY DEF Agent
  <2>1. CASE ListPendingMints \/ SignMint \/ SignalMint \/ RoundDone
    BY <1>1, <1>2, <1>3, <1>6, <2>0, <2>1
    DEF ListPendingMints, SignMint, SignalMint, RoundDone, Stays
  <2>2. CASE VerifyPayment \/ SetMinted
    BY <1>0, <1>6, <2>0, <2>2 DEF VerifyPayment, SetMinted, Goto, Stays
  <2> QED
    BY <1>6, <2>1, <2>2 DEF MonitorStep
<1>7. ASSUME NEW b \in Agent, Fail(b)
      PROVE  Stays(a) \/ (pc'[a] = "idle" /\ UNCHANGED <<melts, mints>>)
  BY <1>0, <1>2, <1>7 DEF Fail, End, Goto, store
<1>8. CASE Crash
  BY <1>8 DEF Crash, store
<1>9. CASE OutsideStep \/ UNCHANGED vars
  BY <1>9 DEF OutsideStep, StoreMintop, DeleteDenied, WalletStep, WalletCommits, SwapStart, SwapSignal, SwapInsert, Clean, Deposit, Tick, vars,
     Stays
<1> QED
  BY <1>4, <1>5, <1>6, <1>7, <1>8, <1>9 DEF Next, OutsideStep

\* What a request of a melt quote knows is the list it loads.
LEMMA QuoteInOrder ==
    ASSUME InOrder, [Next]_vars, NEW p \in Proc, QuoteStep(p)
    PROVE  MeltInOrder(p)'
<1> USE DEF InOrder
<1>0. p \in Agent /\ pc \in [Agent -> PCs] /\ job \in [Agent -> Job]
  BY DEF TypeOK, Agent
<1>1. Stored(melts, Qid) \subseteq Stored(melts', Qid)
  BY MeltsChange DEF MeltChange, Stored
<1>2. CASE ListPendingMelts(p)
  <2>1. pc'[p] = "load" /\ job'[p].todo = Pending(melts', Qid)
    BY <1>0, <1>2 DEF ListPendingMelts, Goto, Job
  <2> QED
    BY <2>1 DEF MeltInOrder, Pending, Stored
<1>3. CASE LoadPendingMelt(p) \/ LosePendingMelt(p)
  <2>1. /\ pc[p] = "load" /\ pc'[p] = "load"
        /\ job'[p].todo \subseteq job[p].todo
    <3>1. PICK q \in job[p].todo : LoadPendingMelt(p)!(q) \/ LosePendingMelt(p)!(q)
      BY <1>3 DEF LoadPendingMelt, LosePendingMelt
    <3>2. \/ job' = [job EXCEPT ![p].todo = @ \ {q}, ![p].ops = @ \cup {q}]
          \/ job' = [job EXCEPT ![p].todo = @ \ {q}]
      BY <3>1
    <3>3. job[p] \in Job
      BY <1>0
    <3>4. job'[p].todo = job[p].todo \ {q}
      BY <1>0, <3>2, <3>3 DEF Job
    <3>5. pc[p] = "load" /\ pc' = pc
      BY <3>1
    <3> QED
      BY <3>4, <3>5
  <2>2. Stored(melts, Qid)' = Stored(melts', Qid)
    BY DEF Stored
  <2> QED
    BY <1>1, <2>1, <2>2 DEF MeltsInOrder, MeltInOrder
<1>4. ASSUME ~(ListPendingMelts(p) \/ LoadPendingMelt(p) \/ LosePendingMelt(p))
      PROVE  pc'[p] \in {"idle", "spendable", "list", "check", "deny", "lock", "store"}
  BY <1>0, <1>4 DEF QuoteStep, QuoteStart, Spendable, CrossCheck, CheckReserve, StoreDenied,
     ReserveInputs, StoreMeltop, Begin, End, Goto
<1> QED
  BY <1>2, <1>3, <1>4 DEF MeltInOrder

\* A melt goes on with the quote it found.
LEMMA MeltStepInOrder ==
    ASSUME InOrder, NEW p \in Proc, MeltStep(p)
    PROVE  MeltInOrder(p)' /\ settled' \subseteq Stored(melts, Qid)
<1> USE DEF InOrder
<1>0. p \in Agent /\ pc \in [Agent -> PCs] /\ job \in [Agent -> Job]
  BY DEF TypeOK, Agent
<1>1. CASE MeltStart(p)
  <2>1. PICK q \in Stored(melts, Qid) :
           Begin(p, "verify", NewJob(melts[q].inputs, melts[q].outflow, q, {}))
    BY <1>1 DEF MeltStart
  <2>2. pc'[p] = "verify" /\ job'[p].id = q /\ job'[p].inputs = melts[q].inputs
    BY <1>0, <2>1 DEF Begin, Goto, NewJob
  <2>3. melts' = melts /\ settled' = settled
    BY <1>1 DEF MeltStart, store, clowder
  <2> QED
    BY <2>1, <2>2, <2>3 DEF MeltsInOrder, MeltInOrder, Stored
<1>2. CASE VerifyUnspent(p) \/ LoadMeltop(p) \/ BurnInputs(p) \/ StoreFees(p) \/ Skip(p)
  <2>1. melts' = melts /\ settled' = settled
    BY <1>2 DEF VerifyUnspent, LoadMeltop, BurnInputs, StoreFees, Skip, store, clowder
  <2>2. \/ pc'[p] = "idle"
        \/ /\ job'[p] = job[p]
           /\ \/ /\ pc[p] \in {"verify", "meltop", "settle"}
                 /\ pc'[p] \in {"verify", "meltop", "settle"}
              \/ pc[p] \in {"burn", "fees", "paid"} /\ pc'[p] \in {"burn", "fees", "paid"}
    BY <1>0, <1>2 DEF VerifyUnspent, LoadMeltop, BurnInputs, StoreFees, Skip, End, Goto
  <2> QED
    BY <2>1, <2>2 DEF MeltsInOrder, MeltInOrder, Stored
<1>3. CASE Settle(p)
  <2>1. melts' = melts
    BY <1>3 DEF Settle, store
  <2>2. \/ pc'[p] = "idle" /\ settled' = settled
        \/ pc'[p] = "burn" /\ job'[p] = job[p] /\ settled' = settled \cup {job[p].id}
    BY <1>0, <1>3 DEF Settle, End, Goto
  <2>3. job[p].id \in Stored(melts, Qid) /\ job[p].inputs = melts[job[p].id].inputs
    BY <1>3 DEF Settle, MeltsInOrder, MeltInOrder
  <2> QED
    BY <2>1, <2>2, <2>3 DEF MeltsInOrder, MeltInOrder, Stored
<1>4. CASE SetPaid(p)
  <2>1. pc'[p] = "idle" /\ settled' = settled
    BY <1>0, <1>4 DEF SetPaid, End, Goto, clowder
  <2> QED
    BY <2>1 DEF MeltsInOrder, MeltInOrder
<1> QED
  BY <1>1, <1>2, <1>3, <1>4 DEF MeltStep

\* Clowder pays for quotes that are stored, and for proofs it has not seen.
LEMMA SettledChange ==
    ASSUME InOrder, [Next]_vars
    PROVE  /\ settled' \subseteq Stored(melts, Qid)
           /\ \A q \in settled' \ settled :
                 melts[q].inputs \cap consumed = {} /\ consumed' = consumed \cup melts[q].inputs
                 /\ swapped' = swapped
<1>1. \/ settled' = settled
      \/ \E p \in Proc : Settle(p)
  BY DEF Next, QuoteStep, QuoteStart, Spendable, ListPendingMelts, LoadPendingMelt,
     LosePendingMelt, CrossCheck, CheckReserve, StoreDenied, ReserveInputs, StoreMeltop,
     MeltStep, MeltStart, VerifyUnspent, LoadMeltop, BurnInputs, StoreFees, SetPaid, Skip,
     StoreMintop, MonitorStep, ListPendingMints, VerifyPayment, SignMint, SignalMint,
     SetMinted, RoundDone, DeleteDenied, WalletStep, WalletCommits, SwapStart, SwapSignal,
     SwapInsert, Clean, Deposit, Fail, Tick, Crash, vars, clowder
<1>2. ASSUME NEW p \in Proc, Settle(p), settled' # settled
      PROVE  /\ settled' = settled \cup {job[p].id} /\ job[p].id \in Stored(melts, Qid)
             /\ melts[job[p].id].inputs \cap consumed = {} /\ swapped' = swapped
             /\ consumed' = consumed \cup melts[job[p].id].inputs
  BY <1>2 DEF Settle, InOrder, MeltsInOrder, MeltInOrder
<1> QED
  BY <1>1, <1>2 DEF InOrder, MeltsInOrder

LEMMA StepMelts ==
    ASSUME InOrder, [Next]_vars
    PROVE  MeltsInOrder'
<1>1. /\ Stored(melts, Qid) \subseteq Stored(melts', Qid)
      /\ \A q \in Stored(melts, Qid) : melts'[q].inputs = melts[q].inputs
  BY MeltsChange DEF MeltChange, Stored
<1>2. settled \subseteq Stored(melts, Qid) /\ settled \subseteq settled'
  BY LedgersGrow DEF InOrder, MeltsInOrder
<1>3. settled' \subseteq Stored(melts, Qid)
  BY SettledChange
<1>4. ASSUME NEW p \in Proc PROVE MeltInOrder(p)'
  <2>0. p \in Agent /\ MeltInOrder(p)
    BY DEF Agent, InOrder, MeltsInOrder
  <2>1. CASE Stays(p)
    BY <1>1, <1>2, <2>0, <2>1 DEF Stays, MeltInOrder, Stored
  <2>2. CASE pc'[p] = "idle"
    BY <2>2 DEF MeltInOrder
  <2> QED
    BY <2>0, <2>1, <2>2, OwnSteps, QuoteInOrder, MeltStepInOrder, ParameterAssumption DEF InOrder
<1>5. Stored(melts', Qid) = Stored(melts, Qid)'
  BY DEF Stored
<1> QED
  BY <1>1, <1>3, <1>4, <1>5 DEF MeltsInOrder

\* Mint quotes are stored once and for all, and recorded as paid at the end of a mint only.
MintChange(u) ==
    /\ mints[u] # None => mints'[u] # None
    /\ mints'[u] # None /\ mints'[u].status = "paid" =>
         \/ mints[u] # None /\ mints[u].status = "paid"
         \/ SetMinted /\ job[Monitor].id = u

LEMMA MintsChange ==
    ASSUME InOrder, [Next]_vars, NEW u \in Uid
    PROVE  MintChange(u)
<1> USE DEF InOrder
<1>1. CASE mints' = mints
  BY <1>1 DEF MintChange
<1>2. CASE ListPendingMints
  BY <1>2, ExpireMints DEF ListPendingMints, MintChange
<1>3. ASSUME NEW v \in Uid, mints[v] # None, NEW st \in {"expired", "paid"},
             mints' = [mints EXCEPT ![v].status = st],
             st = "paid" => SetMinted /\ job[Monitor].id = v
      PROVE  MintChange(u)
  <2>1. mints[v] \in MintOp /\ st \in Statuses
    BY <1>3 DEF TypeOK, Statuses
  <2>2. mints'[v] = [mints[v] EXCEPT !.status = st] /\ (u # v => mints'[u] = mints[u])
    BY <1>3 DEF TypeOK
  <2>3. mints'[v] \in MintOp /\ mints'[v].status = st
    BY <2>1, <2>2, SetStatus
  <2>4. mints'[v] # None
    BY <2>3, NoneAssumption
  <2> QED
    BY <1>3, <2>2, <2>3, <2>4 DEF MintChange
<1>4. ASSUME NEW v \in Uid, StoreMintop(v) PROVE MintChange(u)
  <2>1. PICK at \in 0..now :
           InsertMintop(v, [expiry |-> at + MintExpiry, status |-> "pending"])
    BY <1>4 DEF StoreMintop
  <2> DEFINE op == [expiry |-> at + MintExpiry, status |-> "pending"]
  <2>2. op \in MintOp /\ op.status = "pending"
    BY ParameterAssumption DEF MintOp, Statuses, TypeOK
  <2>3. op # None
    BY <2>2, NoneAssumption
  <2>4. mints' = [mints EXCEPT ![v] = op]
    BY <2>1 DEF InsertMintop
  <2> HIDE DEF op
  <2> QED
    BY <2>2, <2>3, <2>4 DEF MintChange, TypeOK
<1>5. CASE VerifyPayment
  <2>1. PICK v \in job[Monitor].todo : VerifyPayment!(v)
    BY <1>5 DEF VerifyPayment
  <2>2. v \in Uid /\ mints[v] # None
    BY <2>1 DEF MonitorInOrder, Stored
  <2> QED
    BY <1>1, <1>3, <2>1, <2>2
<1>6. CASE SetMinted
  BY <1>3, <1>6 DEF SetMinted, MonitorInOrder, Stored
<1>7. \/ mints' = mints
      \/ \E v \in Uid : StoreMintop(v)
      \/ ListPendingMints \/ VerifyPayment \/ SetMinted
  BY DEF Next, QuoteStep, QuoteStart, Spendable, ListPendingMelts, LoadPendingMelt,
     LosePendingMelt, CrossCheck, CheckReserve, StoreDenied, ReserveInputs, StoreMeltop,
     MeltStep, MeltStart, VerifyUnspent, LoadMeltop, Settle, BurnInputs, StoreFees, SetPaid,
     Skip, MonitorStep, SignMint, SignalMint, RoundDone, DeleteDenied, WalletStep, WalletCommits, SwapStart, SwapSignal, SwapInsert, Clean,
     Deposit, Fail, Tick, Crash, vars, store
<1> QED
  BY <1>1, <1>2, <1>4, <1>5, <1>6, <1>7

\* The monitor knows of every mint how far it is.
LEMMA WatchInOrder ==
    ASSUME InOrder, [Next]_vars, MonitorStep
    PROVE  MonitorInOrder'
<1> USE DEF InOrder
<1>0. Monitor \in Agent /\ pc \in [Agent -> PCs] /\ job \in [Agent -> Job]
  BY DEF TypeOK, Agent
<1>1. /\ Stored(mints, Uid) \subseteq Stored(mints, Uid)'
      /\ deposits \subseteq deposits' /\ signed \subseteq signed' /\ events \subseteq events'
  BY MintsChange, LedgersGrow DEF MintChange, Stored
<1>2. CASE ListPendingMints
  <2>1. pc'[Monitor] = "payment" /\ job'[Monitor].todo = Pending(mints', Uid)
    BY <1>0, <1>2 DEF ListPendingMints, Begin, Goto, NewJob
  <2> QED
    BY <2>1 DEF MonitorInOrder, Pending, Stored
<1>3. CASE VerifyPayment
  <2>1. PICK u \in job[Monitor].todo : VerifyPayment!(u)
    BY <1>3 DEF VerifyPayment
  <2>2. u \in Stored(mints, Uid) /\ job[Monitor].todo \subseteq Stored(mints, Uid)
    BY <2>1 DEF MonitorInOrder
  <2>3. job[Monitor] \in Job
    BY <1>0
  <2>4. CASE mints[u].status = "pending" /\ u \in deposits
    <3>1. job' = [job EXCEPT ![Monitor].todo = @ \ {u}, ![Monitor].id = u]
      BY <2>1, <2>4
    <3>2. /\ job'[Monitor].todo = job[Monitor].todo \ {u}
          /\ job'[Monitor].id = u
      BY <1>0, <2>3, <3>1 DEF Job
    <3>3. pc'[Monitor] = "sign"
      BY <1>0, <2>1, <2>4 DEF Goto
    <3> QED
      BY <1>1, <2>2, <2>4, <3>2, <3>3 DEF MonitorInOrder
  <2>5. CASE ~(mints[u].status = "pending" /\ u \in deposits)
    <3>1. job' = [job EXCEPT ![Monitor].todo = @ \ {u}] /\ pc' = pc
      BY <2>1, <2>5
    <3>2. job'[Monitor].todo = job[Monitor].todo \ {u}
      BY <1>0, <2>3, <3>1 DEF Job
    <3>3. pc'[Monitor] = "payment"
      BY <2>1, <3>1
    <3> QED
      BY <1>1, <2>2, <3>2, <3>3 DEF MonitorInOrder
  <2> QED
    BY <2>4, <2>5
<1>4. CASE SignMint
  <2>1. \/ pc'[Monitor] = "idle"
        \/ /\ pc'[Monitor] = "event" /\ job' = job
           /\ signed' = signed \cup {job[Monitor].id}
    BY <1>0, <1>4 DEF SignMint, End, Goto
  <2> QED
    BY <1>1, <1>4, <2>1 DEF SignMint, MonitorInOrder
<1>5. CASE SignalMint
  <2>1. pc'[Monitor] = "mark" /\ job' = job /\ events' = events \cup {job[Monitor].id}
    BY <1>0, <1>5 DEF SignalMint, Goto
  <2> QED
    BY <1>1, <1>5, <2>1 DEF SignalMint, MonitorInOrder
<1>6. CASE SetMinted
  <2>1. pc'[Monitor] = "payment" /\ job'[Monitor].todo = job[Monitor].todo
    BY <1>0, <1>6 DEF SetMinted, Goto, Job
  <2> QED
    BY <1>1, <1>6, <2>1 DEF SetMinted, MonitorInOrder
<1>7. CASE RoundDone
  BY <1>0, <1>7 DEF RoundDone, End, Goto, MonitorInOrder
<1> QED
  BY <1>2, <1>3, <1>4, <1>5, <1>6, <1>7 DEF MonitorStep

LEMMA StepMonitor ==
    ASSUME InOrder, [Next]_vars
    PROVE  MonitorInOrder'
<1>0. Monitor \in Agent /\ Monitor \notin Proc
  BY ParameterAssumption DEF Agent
<1>1. /\ Stored(mints, Uid) \subseteq Stored(mints, Uid)'
      /\ deposits \subseteq deposits' /\ signed \subseteq signed' /\ events \subseteq events'
  BY MintsChange, LedgersGrow DEF MintChange, Stored, InOrder
<1>2. CASE Stays(Monitor)
  BY <1>1, <1>2 DEF Stays, InOrder, MonitorInOrder
<1>3. CASE pc'[Monitor] = "idle"
  BY <1>3 DEF MonitorInOrder
<1> QED
  BY <1>0, <1>2, <1>3, OwnSteps, WatchInOrder DEF InOrder

-----------------------------------------------------------------------------
(* Locks of quotes. *)

LEMMA StepLocks ==
    ASSUME TypeOK, LocksTyped, [Next]_vars
    PROVE  LocksTyped'
<1> DEFINE Typed(l) == \/ l \in {Core!Free, Core!Spent}
                       \/ /\ l.until \in Nat /\ l.by \in {None, Wallet}
                          /\ l = Core!Held(l.by, l.until)
<1>1. ASSUME NEW h \in {None, Wallet}, NEW t \in Nat
      PROVE  Typed(Core!Held(h, t))
  BY DEF Core!Held
<1>2. \A p \in Proc : job[p].at + MeltExpiry \in Nat
  BY ParameterAssumption DEF TypeOK, Job, Agent
<1>3. now..MaxTime \subseteq Nat
  BY ParameterAssumption DEF TypeOK
<1>4. ASSUME NEW y \in P
      PROVE  Typed(lock'[y])
  <2>1. Typed(lock[y])
    BY DEF LocksTyped
  <2>2. Typed(Core!Free) /\ Typed(Core!Spent)
    OBVIOUS
  <2> HIDE DEF Typed
  <2> QED
    BY <1>1, <1>2, <1>3, <2>1, <2>2, LocksChange DEF LockChange
<1>5. \A y \in P : Typed(lock'[y])
  BY <1>4
<1> QED
  BY <1>5 DEF LocksTyped, Core!Free, Core!Spent, Core!Held

\* Clowder never has a proof consumed twice.
LEMMA StepLedgers ==
    ASSUME InOrder, LedgersAgree, [Next]_vars
    PROVE  LedgersAgree'
<1>1. /\ consumed \subseteq consumed' /\ settled \subseteq settled'
      /\ \A q \in Stored(melts, Qid) : melts'[q].inputs = melts[q].inputs
  BY LedgersGrow, MeltsChange DEF MeltChange, Stored, InOrder
<1>2. swapped' = swapped \/ SwapSignal
  BY DEF Next, QuoteStep, QuoteStart, Spendable, ListPendingMelts, LoadPendingMelt,
     LosePendingMelt, CrossCheck, CheckReserve, StoreDenied, ReserveInputs, StoreMeltop,
     MeltStep, MeltStart, VerifyUnspent, LoadMeltop, Settle, BurnInputs, StoreFees, SetPaid,
     Skip, StoreMintop, MonitorStep, ListPendingMints, VerifyPayment, SignMint, SignalMint,
     SetMinted, RoundDone, DeleteDenied, WalletStep, WalletCommits, SwapStart, SwapInsert,
     Clean, Deposit, Fail, Tick, Crash, vars, clowder
<1>3. ASSUME SwapSignal
      PROVE  /\ settled' = settled
             /\ \E y \in P \ consumed : consumed' = consumed \cup {y} /\ swapped' = swapped \cup {y}
  BY <1>3 DEF SwapSignal, InOrder, TypeOK
<1>4. swapped' \subseteq consumed'
  BY <1>1, <1>2, <1>3 DEF LedgersAgree
<1>5. ASSUME NEW q \in settled' PROVE melts[q].inputs \subseteq consumed' \ swapped'
  <2>1. CASE q \in settled
    BY <1>1, <1>2, <1>3, <2>1 DEF LedgersAgree
  <2>2. CASE q \notin settled
    BY <2>2, SettledChange DEF LedgersAgree
  <2> QED
    BY <2>1, <2>2
<1>6. \A q \in settled' : melts'[q].inputs = melts[q].inputs
  BY <1>1, SettledChange
<1> QED
  BY <1>4, <1>5, <1>6 DEF LedgersAgree

\* What is reserved until a time stays reserved until then, or is burned by a melt that was
\* paid or by a swap that was acknowledged; then a quote that needs it is not paid.
LEMMA OwedStays ==
    ASSUME InOrder, LedgersAgree, [Next]_vars, NEW y \in P, NEW t \in Nat, now' <= t,
           NEW q, q = None \/ (q \in Qid /\ y \in melts[q].inputs), Owed(y, t, q)
    PROVE  Owed(y, t, q)'
<1> USE DEF InOrder
<1>1. /\ now \in Nat /\ now' \in Nat /\ now <= now'
      /\ settled \subseteq settled' /\ swapped \subseteq swapped'
  BY StepType, LedgersGrow, ParameterAssumption DEF TypeOK
<1>2. \A r \in settled : r \in Qid /\ melts'[r].inputs = melts[r].inputs
  BY MeltsChange DEF MeltChange, MeltsInOrder, Stored
<1>3. ASSUME NEW p \in Proc, BurnInputs(p), y \in job[p].inputs
      PROVE  \E r \in settled : y \in melts[r].inputs
  BY <1>3 DEF BurnInputs, MeltsInOrder, MeltInOrder
<1>4. ASSUME y \in swapped, q \notin settled
      PROVE  q \notin settled'
  <2>1. CASE q = None
    BY <2>1, SettledChange, ParameterAssumption DEF Stored
  <2>2. CASE q \in Qid /\ y \in melts[q].inputs
    BY <1>4, <2>2, SettledChange DEF LedgersAgree
  <2> QED
    BY <2>1, <2>2
<1>5. ASSUME y \in swapped
      PROVE  q \notin settled \/ \E r \in settled : y \in melts[r].inputs
  BY <1>5, ParameterAssumption DEF MeltsInOrder, Stored
<1>6. CASE lock[y] = Core!Held(None, t)
  <2>1. \/ lock'[y] = lock[y]
        \/ lock'[y] = Core!Spent /\ \E r \in settled : y \in melts[r].inputs
        \/ lock'[y] = Core!Spent /\ y \in swapped
    <3>1. lock[y].state = "held" /\ lock[y].until = t
      BY <1>6 DEF Core!Held
    <3>2. lock[y] # Core!Free /\ ~(lock[y].until < now)
      BY <1>1, <3>1 DEF Core!Free
    <3> QED
      BY <1>3, <3>2, LocksChange DEF LockChange
  <2> QED
    BY <1>1, <1>2, <1>4, <1>5, <1>6, <2>1 DEF Owed, Core!Held, Core!Spent
<1>7. CASE lock[y] = Core!Spent
  <2>1. lock'[y] = Core!Spent
    BY <1>7, LocksChange DEF LockChange, Core!Free, Core!Spent
  <2>2. \/ \E r \in settled : y \in melts[r].inputs
        \/ y \in swapped /\ q \notin settled
    BY <1>7 DEF Owed, Core!Held, Core!Spent
  <2> QED
    BY <1>1, <1>2, <1>4, <2>1, <2>2 DEF Owed, Core!Spent
<1> QED
  BY <1>6, <1>7 DEF Owed

\* A quote that was promised its inputs has them when it is stored.
LEMMA StepReserved ==
    ASSUME InOrder, LedgersAgree, ReservedForStore, [Next]_vars
    PROVE  ReservedForStore'
<1> USE DEF InOrder
<1> SUFFICES ASSUME NEW p \in Proc, pc'[p] = "store", job'[p].at + MeltExpiry >= now',
                    NEW y \in job'[p].inputs
             PROVE  Owed(y, job[p].at + MeltExpiry, None)'
  BY DEF ReservedForStore
<1>0. p \in Agent /\ pc \in [Agent -> PCs] /\ job \in [Agent -> Job] /\ p # Monitor
  BY ParameterAssumption DEF TypeOK, Agent
<1>1. now \in Nat /\ now' \in Nat /\ now <= now'
  BY StepType, LedgersGrow, ParameterAssumption DEF TypeOK
<1>2. CASE Stays(p)
  <2>1. PICK t \in Nat : t = job[p].at + MeltExpiry
    BY <1>0, ParameterAssumption DEF Job
  <2>2. y \in P /\ Owed(y, t, None) /\ now' <= t
    BY <1>0, <1>1, <1>2, <2>1 DEF Stays, ReservedForStore, Job
  <2>3. Owed(y, t, None)'
    BY <2>2, OwedStays
  <2> QED
    BY <1>2, <2>1, <2>3 DEF Stays, Owed
<1>3. CASE QuoteStep(p)
  <2>1. ReserveInputs(p)
    BY <1>0, <1>3 DEF QuoteStep, QuoteStart, Spendable, ListPendingMelts, LoadPendingMelt,
       LosePendingMelt, CrossCheck, CheckReserve, StoreDenied, StoreMeltop, Begin, End, Goto
  <2>2. Core!Hold(job[p].inputs, None, job[p].at + MeltExpiry) /\ job' = job
    BY <1>0, <2>1 DEF ReserveInputs, End, Goto
  <2>3. y \in P
    BY <1>0, <2>2 DEF Job
  <2> QED
    BY <2>2, <2>3 DEF Core!Hold, Core!Change, Owed, Core!Held
<1>4. CASE MeltStep(p)
  BY <1>0, <1>4 DEF MeltStep, MeltStart, VerifyUnspent, LoadMeltop, Settle, BurnInputs,
     StoreFees, SetPaid, Skip, Begin, End, Goto
<1> QED
  BY <1>0, <1>2, <1>3, <1>4, OwnSteps

\* A quote that becomes pending is new, and not paid.
LEMMA NewIsUnpaid ==
    ASSUME InOrder, [Next]_vars, NEW q \in Qid, NEW p \in Proc, StoreMeltop(p),
           ~(melts[q] # None /\ melts[q].status = "pending"),
           melts'[q] # None, melts'[q].status = "pending"
    PROVE  q \notin settled'
<1> USE DEF InOrder
<1>1. PICK r \in Qid \ (Stored(melts, Qid) \cup denied) : StoreMeltop(p)!(r)
  BY DEF StoreMeltop
<1> DEFINE table == Expire(melts, Qid, job[p].at)
           op == [inputs |-> job[p].inputs, outflow |-> job[p].outflow,
                  expiry |-> job[p].at + MeltExpiry, status |-> "pending"]
<1>2. melts' = table \/ melts' = [table EXCEPT ![r] = op]
  BY <1>1
<1>3. table \in [Qid -> MeltOp \cup {None}]
  BY ExpireMelts
<1>4. ~(table[q] # None /\ table[q].status = "pending")
  BY ExpireMelts
<1> HIDE DEF op, table
<1>5. q = r
  BY <1>2, <1>3, <1>4
<1> QED
  BY <1>5, SettledChange

\* And keeps them.
LEMMA StepHolds ==
    ASSUME InOrder, LedgersAgree, ReservedForStore, QuoteHoldsInputs, [Next]_vars
    PROVE  QuoteHoldsInputs'
<1> USE DEF InOrder
<1> SUFFICES ASSUME NEW q \in Qid, melts'[q] # None, melts'[q].status = "pending",
                    melts'[q].expiry >= now', NEW y \in melts'[q].inputs
             PROVE  Owed(y, melts[q].expiry, q)'
  BY DEF QuoteHoldsInputs, Pending, Stored, Owed
<1>1. now \in Nat /\ now' \in Nat /\ now <= now' /\ melts' \in [Qid -> MeltOp \cup {None}]
  BY StepType, LedgersGrow, ParameterAssumption DEF TypeOK
<1>2. PICK t \in Nat : t = melts'[q].expiry
  BY <1>1 DEF MeltOp
<1>3. y \in P /\ now' <= t /\ now <= t
  BY <1>1, <1>2 DEF MeltOp
<1>4. CASE melts[q] # None /\ melts[q].status = "pending"
  <2>1. melts'[q].inputs = melts[q].inputs /\ melts'[q].expiry = melts[q].expiry
    BY <1>4, MeltsChange DEF MeltChange
  <2>2. q \in Pending(melts, Qid) /\ melts[q].expiry >= now
    BY <1>2, <1>3, <1>4, <2>1 DEF Pending, Stored
  <2>3. y \in melts[q].inputs /\ Owed(y, t, q)
    BY <1>2, <2>1, <2>2 DEF QuoteHoldsInputs
  <2>4. Owed(y, t, q)'
    BY <1>3, <2>3, OwedStays
  <2> QED
    BY <1>2, <2>4 DEF Owed
<1>5. CASE ~(melts[q] # None /\ melts[q].status = "pending")
  <2>1. PICK p \in Proc : /\ StoreMeltop(p) /\ melts'[q].inputs = job[p].inputs
                          /\ melts'[q].expiry = job[p].at + MeltExpiry
    BY <1>5, MeltsChange DEF MeltChange
  <2>2. pc[p] = "store"
    BY <2>1 DEF StoreMeltop
  <2>3. Owed(y, t, None)
    BY <1>2, <1>3, <2>1, <2>2 DEF ReservedForStore
  <2>4. Owed(y, t, None)'
    BY <1>3, <2>3, OwedStays
  <2>5. q \notin settled'
    BY <1>5, <2>1, NewIsUnpaid
  <2> QED
    BY <1>2, <2>4, <2>5 DEF Owed
<1> QED
  BY <1>4, <1>5

-----------------------------------------------------------------------------
(* The ledgers of melts and mints. *)

LEMMA StepPaid ==
    ASSUME InOrder, PaidIsSettled, [Next]_vars
    PROVE  PaidIsSettled'
<1> USE DEF InOrder
<1>1. settled \subseteq settled'
  BY LedgersGrow
<1>2. fees' = fees \/ \E p \in Proc : StoreFees(p)
  BY DEF Next, QuoteStep, QuoteStart, Spendable, ListPendingMelts, LoadPendingMelt,
     LosePendingMelt, CrossCheck, CheckReserve, StoreDenied, ReserveInputs, StoreMeltop,
     MeltStep, MeltStart, VerifyUnspent, LoadMeltop, Settle, BurnInputs, SetPaid, Skip,
     StoreMintop, MonitorStep, ListPendingMints, VerifyPayment, SignMint, SignalMint,
     SetMinted, RoundDone, DeleteDenied, WalletStep, WalletCommits, SwapStart, SwapSignal, SwapInsert, Clean, Deposit, Fail, Tick, Crash, vars
<1>3. \A p \in Proc : StoreFees(p) => fees' = fees \cup {job[p].id} /\ job[p].id \in settled
  BY DEF StoreFees, MeltsInOrder, MeltInOrder
<1>4. \A q \in Qid : q \in fees' => q \in settled'
  BY <1>1, <1>2, <1>3 DEF PaidIsSettled
<1>5. \A p \in Proc : SetPaid(p) => job[p].id \in settled
  BY DEF SetPaid, MeltsInOrder, MeltInOrder
<1>6. \A q \in Qid : melts'[q] # None /\ melts'[q].status = "paid" => q \in settled'
  BY <1>1, <1>5, MeltsChange DEF MeltChange, PaidIsSettled
<1> QED
  BY <1>4, <1>6 DEF PaidIsSettled

LEMMA StepMinted ==
    ASSUME InOrder, MintedIsPaidFor, [Next]_vars
    PROVE  MintedIsPaidFor'
<1> USE DEF InOrder
<1>1. deposits \subseteq deposits' /\ signed \subseteq signed' /\ events \subseteq events'
  BY LedgersGrow
<1>2. events' = events \/ SignalMint
  BY DEF Next, QuoteStep, QuoteStart, Spendable, ListPendingMelts, LoadPendingMelt,
     LosePendingMelt, CrossCheck, CheckReserve, StoreDenied, ReserveInputs, StoreMeltop,
     MeltStep, MeltStart, VerifyUnspent, LoadMeltop, Settle, BurnInputs, StoreFees, SetPaid,
     Skip, StoreMintop, MonitorStep, ListPendingMints, VerifyPayment, SignMint, SetMinted,
     RoundDone, DeleteDenied, WalletStep, WalletCommits, SwapStart, SwapSignal, SwapInsert, Clean, Deposit, Fail, Tick, Crash, vars, clowder
<1>3. SignalMint => /\ events' = events \cup {job[Monitor].id}
                    /\ job[Monitor].id \in deposits \cap signed
  BY DEF SignalMint, MonitorInOrder
<1>4. events' \subseteq deposits' \cap signed'
  BY <1>1, <1>2, <1>3 DEF MintedIsPaidFor
<1>5. SetMinted => job[Monitor].id \in events
  BY DEF SetMinted, MonitorInOrder
<1>6. \A u \in Uid : mints'[u] # None /\ mints'[u].status = "paid" => u \in events'
  BY <1>1, <1>5, MintsChange DEF MintChange, MintedIsPaidFor
<1> QED
  BY <1>4, <1>6 DEF MintedIsPaidFor

-----------------------------------------------------------------------------
(* The inductive invariant. *)

LEMMA InitInv == Init => OnchainInv
<1> SUFFICES ASSUME Init PROVE OnchainInv
  OBVIOUS
<1>1. TypeOK
  BY InitType
<1>2. LocksTyped
  BY DEF Init, Core!Init, LocksTyped
<1>5. LedgersAgree
  BY DEF Init, LedgersAgree
<1>3. MeltsInOrder /\ MonitorInOrder /\ ReservedForStore
  BY ParameterAssumption
  DEF Init, MeltsInOrder, MeltInOrder, MonitorInOrder, ReservedForStore, Agent
<1>4. QuoteHoldsInputs /\ PaidIsSettled /\ MintedIsPaidFor
  BY DEF Init, QuoteHoldsInputs, Pending, Stored, PaidIsSettled, MintedIsPaidFor
<1> QED
  BY <1>1, <1>2, <1>3, <1>4, <1>5 DEF OnchainInv

LEMMA StepInv ==
    ASSUME OnchainInv, [Next]_vars
    PROVE  OnchainInv'
BY StepType, StepLocks, StepLedgers, StepMelts, StepMonitor, StepHolds, StepReserved, StepPaid, StepMinted
DEF OnchainInv, InOrder

\* The invariant that the theorems below rest on holds in every reachable state: what is
\* stored, reserved and recorded agrees with where each handler is with its calls.
THEOREM Inductive == Spec => []OnchainInv
BY InitInv, StepInv, PTL DEF Spec

\* Quotes, operations, jobs and ledgers are of their types in every reachable state.
THEOREM Typed == Spec => []TypeOK
<1>1. OnchainInv => TypeOK
  BY DEF OnchainInv
<1> QED
  BY <1>1, Inductive, PTL

\* create_onchain_melt_quote looks at proofs, at pending quotes and at the reserve before it
\* reserves the inputs and stores the quote, with other requests between any two calls.
\* However many there are, the inputs of a pending quote are reserved for it until it
\* expires, or were burned by a melt that clowder paid, or spent by a swap that got past its
\* commitment before that lapsed and that clowder acknowledged: then the quote is not paid.
THEOREM Holds == Spec => []QuoteHoldsInputs
<1>1. OnchainInv => QuoteHoldsInputs
  BY DEF OnchainInv
<1> QED
  BY <1>1, Inductive, PTL

\* melt_onchain goes on after clowder's answer whatever fails then, and any number of
\* requests may melt one quote: fees are banked and a quote is recorded as paid only if
\* clowder paid it.
THEOREM Paid == Spec => []PaidIsSettled
<1>1. OnchainInv => PaidIsSettled
  BY DEF OnchainInv
<1> QED
  BY <1>1, Inductive, PTL

-----------------------------------------------------------------------------
(* Onchain asks no more of the core service than ProofLocks promises. *)

\* A request does not come from the future.
Arrived == \A p \in Proc : job[p].at <= now

\* A handler keeps the instant at which its request arrived.
LEMMA AtStays ==
    ASSUME TypeOK, [Next]_vars, NEW a \in Agent
    PROVE  job'[a].at \in {0, now, job[a].at}
<1>0. /\ job \in [Agent -> Job] /\ job[a] \in Job /\ NoJob.at = 0
      /\ \A inputs, outflow, id, todo : NewJob(inputs, outflow, id, todo).at = now
  BY DEF TypeOK, NoJob, NewJob
<1>1. ASSUME NEW b \in Agent, NEW l, NEW inputs, NEW outflow, NEW id, NEW todo,
             Begin(b, l, NewJob(inputs, outflow, id, todo))
      PROVE  job'[a].at \in {0, now, job[a].at}
  BY <1>0, <1>1 DEF Begin
<1>2. CASE ListPendingMints \/ \E p \in Proc : QuoteStart(p) \/ MeltStart(p)
  BY <1>1, <1>2 DEF ListPendingMints, QuoteStart, MeltStart, Agent
<1>3. ASSUME NEW b \in Agent, NEW j, job' = [job EXCEPT ![b] = j], j.at = job[b].at
      PROVE  job'[a].at = job[a].at
  BY <1>0, <1>3
<1>4. ASSUME NEW p \in Proc, ListPendingMelts(p) \/ LoadPendingMelt(p) \/ LosePendingMelt(p)
      PROVE  job'[a].at = job[a].at
  <2>1. p \in Agent /\ job[p] \in Job
    BY DEF TypeOK, Agent
  <2>2. \A todo, ops : /\ [job[p] EXCEPT !.todo = todo].at = job[p].at
                       /\ [job[p] EXCEPT !.todo = todo, !.ops = ops].at = job[p].at
    BY <2>1 DEF Job
  <2>3. CASE ListPendingMelts(p)
    <3>1. job' = [job EXCEPT ![p] = [job[p] EXCEPT !.todo = Pending(melts', Qid)]]
      BY <2>3 DEF ListPendingMelts
    <3> QED
      BY <1>3, <2>1, <2>2, <3>1
  <2>4. ASSUME NEW q, \/ job' = [job EXCEPT ![p].todo = @ \ {q}, ![p].ops = @ \cup {q}]
                      \/ job' = [job EXCEPT ![p].todo = @ \ {q}]
        PROVE  job'[a].at = job[a].at
    <3> DEFINE both == [job[p] EXCEPT !.todo = job[p].todo \ {q}, !.ops = job[p].ops \cup {q}]
               one == [job[p] EXCEPT !.todo = job[p].todo \ {q}]
    <3>1. job' = [job EXCEPT ![p] = both] \/ job' = [job EXCEPT ![p] = one]
      BY <1>0, <2>1, <2>4
    <3>2. both.at = job[p].at /\ one.at = job[p].at
      BY <2>2
    <3> HIDE DEF both, one
    <3> QED
      BY <1>3, <2>1, <3>1, <3>2
  <2> QED
    BY <1>4, <2>3, <2>4 DEF LoadPendingMelt, LosePendingMelt
<1>5. CASE VerifyPayment \/ SetMinted
  <2> DEFINE m == job[Monitor]
  <2>1. Monitor \in Agent /\ m \in Job
    BY DEF TypeOK, Agent
  <2>2. \A todo, id : /\ [m EXCEPT !.todo = todo].at = m.at
                      /\ [m EXCEPT !.id = id].at = m.at
                      /\ [m EXCEPT !.todo = todo, !.id = id].at = m.at
    BY <2>1 DEF Job
  <2>3. CASE SetMinted
    <3>1. job' = [job EXCEPT ![Monitor] = [m EXCEPT !.id = None]]
      BY <2>3 DEF SetMinted
    <3> QED
      BY <1>3, <2>1, <2>2, <3>1
  <2>4. ASSUME NEW u, \/ job' = [job EXCEPT ![Monitor].todo = @ \ {u}, ![Monitor].id = u]
                      \/ job' = [job EXCEPT ![Monitor].todo = @ \ {u}]
        PROVE  job'[a].at = job[a].at
    <3> DEFINE both == [m EXCEPT !.todo = m.todo \ {u}, !.id = u]
               one == [m EXCEPT !.todo = m.todo \ {u}]
    <3>1. job' = [job EXCEPT ![Monitor] = both] \/ job' = [job EXCEPT ![Monitor] = one]
      BY <1>0, <2>1, <2>4
    <3>2. both.at = m.at /\ one.at = m.at
      BY <2>2
    <3> HIDE DEF both, one
    <3> QED
      BY <1>3, <2>1, <3>1, <3>2
  <2> QED
    BY <1>5, <2>3, <2>4 DEF VerifyPayment
<1>6. CASE \/ \E p \in Proc : \/ QuoteStep(p) /\ ~QuoteStart(p) /\ ~ListPendingMelts(p)
                                 /\ ~LoadPendingMelt(p) /\ ~LosePendingMelt(p)
                              \/ MeltStep(p) /\ ~MeltStart(p)
           \/ SignMint \/ SignalMint \/ RoundDone
           \/ OutsideStep \/ Crash \/ (\E b \in Agent : Fail(b)) \/ UNCHANGED vars
  <2>1. job'[a] = job[a] \/ job'[a] = NoJob
    BY <1>0, <1>6 DEF QuoteStep, Spendable, CrossCheck, CheckReserve, StoreDenied,
       ReserveInputs, StoreMeltop, MeltStep, VerifyUnspent, LoadMeltop, Settle, BurnInputs,
       StoreFees, SetPaid, Skip, SignMint, SignalMint, RoundDone, OutsideStep, StoreMintop,
       DeleteDenied, WalletStep, WalletCommits, SwapStart, SwapSignal, SwapInsert, Clean, Deposit, Tick, Fail, Crash, End, vars
  <2> QED
    BY <1>0, <2>1
<1> QED
  BY <1>2, <1>4, <1>5, <1>6 DEF Next, QuoteStep, MeltStep, MonitorStep, OutsideStep

LEMMA StepArrived ==
    ASSUME TypeOK, Arrived, [Next]_vars
    PROVE  Arrived'
<1>1. ASSUME NEW p \in Proc PROVE job'[p].at <= now'
  <2>1. p \in Agent /\ job[p].at \in Nat /\ now \in Nat
    BY ParameterAssumption DEF TypeOK, Job, Agent
  <2>2. now <= now' /\ (now' = now \/ now' = now + 1)
    BY LedgersGrow DEF Next, QuoteStep, QuoteStart, Spendable, ListPendingMelts,
     LoadPendingMelt, LosePendingMelt, CrossCheck, CheckReserve, StoreDenied, ReserveInputs,
     Core!Hold, StoreMeltop, MeltStep, MeltStart, VerifyUnspent, LoadMeltop, Settle,
     BurnInputs, Core!Spend, SetPaid, StoreFees, Skip, StoreMintop, MonitorStep,
     ListPendingMints, VerifyPayment, SignMint, SignalMint, SetMinted, RoundDone,
     DeleteDenied, WalletStep, WalletCommits, SwapStart, SwapSignal, SwapInsert, Clean, Core!Lapse, Deposit, Fail, Tick, Crash, vars
  <2> QED
    BY <2>1, <2>2, AtStays DEF Arrived
<1> QED
  BY <1>1 DEF Arrived

\* Every step is one that ProofLocks allows, or asks nothing of the core service.
LEMMA StepCore ==
    ASSUME TypeOK, Arrived, [Next]_vars
    PROVE  [Core!Next]_<<now, lock>>
<1>0. now \in Nat /\ now <= MaxTime /\ MaxTime \in Nat /\ MeltExpiry \in Nat
  BY ParameterAssumption DEF TypeOK
<1>1. ASSUME NEW p \in Proc, ReserveInputs(p) PROVE Core!Next \/ UNCHANGED <<now, lock>>
  <2>1. job[p] \in Job /\ job[p].at <= now
    BY DEF TypeOK, Agent, Arrived
  <2>2. job[p].inputs \in SUBSET P /\ job[p].at \in Nat
    BY <2>1 DEF Job
  <2>3. job[p].at + MeltExpiry \in 0..(MaxTime + MeltExpiry)
    BY <1>0, <2>1, <2>2
  <2> QED
    BY <1>1, <2>2, <2>3 DEF ReserveInputs, Core!Next
<1>2. ASSUME NEW p \in Proc, BurnInputs(p) PROVE Core!Next \/ UNCHANGED <<now, lock>>
  <2>1. job[p].inputs \in SUBSET P
    BY DEF TypeOK, Agent, Job
  <2> QED
    BY <1>2, <2>1 DEF BurnInputs, Core!Next
<1>3. CASE Clean \/ SwapInsert
  <2>1. swapped \subseteq P
    BY DEF TypeOK
  <2> QED
    BY <1>3, <2>1 DEF SwapInsert, Clean, Core!Next
<1>6. CASE WalletCommits
  <2>1. PICK y \in SwapRequests, t \in now..MaxTime : Core!Hold({y}, Wallet, t)
    BY <1>6 DEF WalletCommits
  <2>2. {y} \in SUBSET P /\ t \in 0..(MaxTime + MeltExpiry)
    BY <1>0, ParameterAssumption
  <2> QED
    BY <2>1, <2>2 DEF Core!Next
<1>4. CASE Tick
  <2>1. now' \in now..(MaxTime + MeltExpiry) /\ lock' = lock
    BY <1>0, <1>4 DEF Tick, core
  <2> QED
    BY <2>1 DEF Core!Next, Core!Tick
<1>5. \/ UNCHANGED <<now, lock>>
      \/ \E p \in Proc : ReserveInputs(p) \/ BurnInputs(p)
      \/ WalletCommits \/ SwapInsert \/ Clean \/ Tick
  BY DEF Next, QuoteStep, QuoteStart, Spendable, ListPendingMelts, LoadPendingMelt,
     LosePendingMelt, CrossCheck, CheckReserve, StoreDenied, StoreMeltop, MeltStep, MeltStart,
     VerifyUnspent, LoadMeltop, Settle, SetPaid, StoreFees, Skip, StoreMintop, MonitorStep,
     ListPendingMints, VerifyPayment, SignMint, SignalMint, SetMinted, RoundDone, DeleteDenied,
     WalletStep, SwapStart, SwapSignal, Deposit, Fail, Crash, vars, core
<1> QED
  BY <1>1, <1>2, <1>3, <1>4, <1>5, <1>6

\* The core service is composed by its promise: what reserving, burning, swapping and cleaning
\* do to the locks, with any number of requests that hold on to the instant they arrived at,
\* is allowed by ProofLocks, which CoreMint implements.
THEOREM ComposesProofLocks == Spec => Core!Spec
<1>1. Init => Core!Init /\ Arrived
  <2>1. ASSUME Init PROVE Arrived
    BY <2>1, ParameterAssumption DEF Init, Core!Init, Arrived, NoJob, Agent
  <2> QED
    BY <2>1 DEF Init
<1>2. TypeOK /\ Arrived /\ [Next]_vars => Arrived'
  BY StepArrived
<1>3. TypeOK /\ Arrived /\ [Next]_vars => [Core!Next]_<<now, lock>>
  BY StepCore
<1> QED
  BY <1>1, <1>2, <1>3, Typed, PTL DEF Spec, Core!Spec
=============================================================================
