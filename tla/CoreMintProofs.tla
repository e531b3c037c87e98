--------------------------- MODULE CoreMintProofs ---------------------------
(* Theorems about CoreMint, for any proofs, outputs, signatures, handlers and *)
(* bounds.                                                                    *)
EXTENDS CoreMint, TLAPS

-----------------------------------------------------------------------------
(* Lemmas about the operators that the actions share. *)

\* The reply of a handler leaves its slot well-typed.
LEMMA EndType ==
    ASSUME TypeOK, NEW p \in Proc, End(p)
    PROVE  /\ pc' \in [Proc -> PCs]
           /\ job' \in [Proc -> Jobs]
           /\ todo' \in [Proc -> SUBSET (Y \cup B)]
           /\ seen' \in [Proc -> [Y -> States]]
<1>1. pc' \in [Proc -> PCs]
  BY DEF TypeOK, End, Goto, PCs
<1>2. NoJob \in Jobs
  BY DEF NoJob, Jobs
<1>3. job' \in [Proc -> Jobs]
  BY <1>2 DEF TypeOK, End
<1>4. todo' \in [Proc -> SUBSET (Y \cup B)]
  BY DEF TypeOK, End
<1>5. [y \in Y |-> "Unspent"] \in [Y -> States]
  BY DEF States
<1>6. seen' \in [Proc -> [Y -> States]]
  BY <1>5 DEF TypeOK, End
<1> QED
  BY <1>1, <1>3, <1>4, <1>6

\* Deleting commitments, with the cascade, leaves the repository well-typed.
LEMMA DeleteType ==
    ASSUME TypeOK, NEW D \in SUBSET Sig, DeleteCommitments(D)
    PROVE  /\ proofs' \in [Y -> Row] /\ \A y \in Y : OneColumn(proofs'[y])
           /\ commitments' \in [Sig -> Commitment \cup {None}]
           /\ outputs' \in [B -> Sig \cup {None}]
<1>1. NoRow \in Row /\ OneColumn(NoRow)
  BY DEF NoRow, Row, OneColumn
<1>2. proofs' \in [Y -> Row] /\ \A y \in Y : OneColumn(proofs'[y])
  BY <1>1 DEF TypeOK, DeleteCommitments
<1>3. commitments' \in [Sig -> Commitment \cup {None}]
  BY DEF TypeOK, DeleteCommitments
<1>4. outputs' \in [B -> Sig \cup {None}]
  BY DEF TypeOK, DeleteCommitments
<1> QED
  BY <1>2, <1>3, <1>4

\* Marking proofs spent leaves every row well-typed.
LEMMA MarkSpentType ==
    ASSUME TypeOK, NEW ys \in SUBSET Y, MarkSpent(ys)
    PROVE  proofs' \in [Y -> Row] /\ \A y \in Y : OneColumn(proofs'[y])
<1>1. \A row \in Row : SpentRow(row) \in Row /\ OneColumn(SpentRow(row))
  BY DEF SpentRow, Row, OneColumn
<1> QED
  BY <1>1 DEF TypeOK, MarkSpent

\* The contents of a request may be completed field by field.
LEMMA JobExceptType ==
    ASSUME NEW j \in Jobs
    PROVE  /\ \A s \in Sig : [j EXCEPT !.sig = s] \in Jobs
           /\ \A o \in {"Unsigned", "Alpha", "Beta"} : [j EXCEPT !.owner = o] \in Jobs
BY DEF Jobs

-----------------------------------------------------------------------------
(* Type correctness. *)

\* The empty repository is well-typed.
LEMMA InitType == Init => TypeOK
<1> SUFFICES ASSUME Init PROVE TypeOK
  OBVIOUS
<1>1. clock \in Nat /\ settleDeadline \in Nat /\ crashes \in Nat
  BY ParameterAssumption DEF Init
<1>2. proofs \in [Y -> Row] /\ \A y \in Y : OneColumn(proofs[y])
  <2>1. NoRow \in Row /\ OneColumn(NoRow)
    BY DEF NoRow, Row, OneColumn
  <2> QED
    BY <2>1 DEF Init
<1>3. /\ commitments \in [Sig -> Commitment \cup {None}]
      /\ outputs \in [B -> Sig \cup {None}]
      /\ issued \in [Sig -> Contents \cup {None}]
  BY DEF Init
<1>4. pc \in [Proc -> PCs] /\ job \in [Proc -> Jobs]
  <2>1. NoJob \in Jobs
    BY DEF NoJob, Jobs
  <2> QED
    BY <2>1 DEF Init, PCs
<1>5. todo \in [Proc -> SUBSET (Y \cup B)]
  BY DEF Init
<1>6. seen \in [Proc -> [Y -> States]]
  BY DEF Init, States
<1>7. paid \in [Y -> Nat]
  BY DEF Init
<1> QED
  BY <1>1, <1>2, <1>3, <1>4, <1>5, <1>6, <1>7 DEF Init, TypeOK

\* Each step of commit_to_swap and check_state keeps the types.
LEMMA CommitStepType ==
    ASSUME TypeOK, HandlersInOrder, NEW p \in Proc, CommitStep(p)
    PROVE  TypeOK'
<1> USE DEF TypeOK
<1>1. CASE CommitStart(p)
  <2>1. PICK r \in Contents, owner \in Owners : CommitStart(p)!(r, owner)
    BY <1>1 DEF CommitStart
  <2>2. Earlier(r.expiry, clock + MaxExpiry) \in Nat
    BY ContentsAssumption, ParameterAssumption DEF Earlier
  <2>3. [NoJob EXCEPT !.kind = "commit", !.inputs = r.inputs, !.outputs = r.outputs,
                      !.content = r, !.owner = owner,
                      !.expiry = Earlier(r.expiry, clock + MaxExpiry), !.now = clock] \in Jobs
    BY <2>2, ContentsAssumption, ParameterAssumption DEF NoJob, Jobs
  <2>4. job' \in [Proc -> Jobs] /\ pc' \in [Proc -> PCs]
    BY <2>1, <2>3 DEF Begin, Goto, PCs
  <2> QED
    BY <2>1, <2>4 DEF Begin, service, store, clowder, replies
<1>2. CASE CheckStart(p)
  <2>1. PICK ys \in CheckedSets : CheckStart(p)!(ys)
    BY <1>2 DEF CheckStart
  <2>2. [NoJob EXCEPT !.kind = "check", !.inputs = ys, !.now = clock] \in Jobs
    BY ParameterAssumption DEF NoJob, Jobs
  <2>3. job' \in [Proc -> Jobs] /\ pc' \in [Proc -> PCs]
    BY <2>1, <2>2 DEF Begin, Goto, PCs
  <2> QED
    BY <2>1, <2>3 DEF Begin, service, store, clowder, replies
<1>3. CASE CleanCommitments(p)
  <2>1. /\ proofs' \in [Y -> Row] /\ \A y \in Y : OneColumn(proofs'[y])
        /\ commitments' \in [Sig -> Commitment \cup {None}]
        /\ outputs' \in [B -> Sig \cup {None}]
    BY <1>3, DeleteType DEF CleanCommitments
  <2>2. pc' \in [Proc -> PCs]
    BY <1>3 DEF CleanCommitments, Goto, PCs
  <2> QED
    BY <1>3, <2>1, <2>2 DEF CleanCommitments, service, clowder, replies
<1>4. CASE CleanYs(p)
  <2>1. NoRow \in Row /\ OneColumn(NoRow)
    BY DEF NoRow, Row, OneColumn
  <2>2. proofs' \in [Y -> Row] /\ \A y \in Y : OneColumn(proofs'[y])
    BY <1>4, <2>1 DEF CleanYs
  <2>3. pc' \in [Proc -> PCs]
    BY <1>4 DEF CleanYs, Goto, PCs
  <2>4. todo' \in [Proc -> SUBSET (Y \cup B)]
    BY <1>4 DEF CleanYs, Jobs
  <2> QED
    BY <1>4, <2>2, <2>3, <2>4 DEF CleanYs, service, clowder, replies
<1>5. CASE ReadSpent(p)
  <2>1. PICK y \in todo[p] : ReadSpent(p)!(y)
    BY <1>5 DEF ReadSpent
  <2>2. PICK v \in States : seen' = [seen EXCEPT ![p] = [seen[p] EXCEPT ![y] = v]]
    BY <2>1 DEF States
  <2>3. [seen[p] EXCEPT ![y] = v] \in [Y -> States]
    OBVIOUS
  <2>4. seen' \in [Proc -> [Y -> States]]
    BY <2>2, <2>3
  <2> QED
    BY <2>1, <2>4 DEF service, store, clowder, replies
<1>6. CASE ReadReserved(p)
  <2>1. seen' \in [Proc -> [Y -> States]]
    BY <1>6 DEF ReadReserved, States
  <2>2. pc' \in [Proc -> PCs] /\ todo' \in [Proc -> SUBSET (Y \cup B)]
    BY <1>6 DEF ReadReserved, Goto, PCs, Jobs
  <2> QED
    BY <1>6, <2>1, <2>2 DEF ReadReserved, service, store, clowder, replies
<1>7. CASE ReadCommitted(p)
  <2>1. PICK y \in todo[p] : ReadCommitted(p)!(y)
    BY <1>7 DEF ReadCommitted
  <2>2. PICK v \in States : seen' = [seen EXCEPT ![p] = [seen[p] EXCEPT ![y] = v]]
    BY <2>1 DEF States
  <2>3. [seen[p] EXCEPT ![y] = v] \in [Y -> States]
    OBVIOUS
  <2>4. seen' \in [Proc -> [Y -> States]]
    BY <2>2, <2>3
  <2> QED
    BY <2>1, <2>4 DEF service, store, clowder, replies
<1>8. CASE CheckReply(p)
  BY <1>8, EndType DEF CheckReply, service, store, clowder, replies
<1>9. CASE CommitCheckOutputs(p)
  <2>1. CASE End(p)
    BY <1>9, <2>1, EndType DEF CommitCheckOutputs, service, store, clowder, replies
  <2>2. CASE Goto(p, "clowder") /\ UNCHANGED <<job, todo, seen>>
    <3>1. pc' \in [Proc -> PCs]
      BY <2>2 DEF Goto, PCs
    <3> QED
      BY <1>9, <2>2, <3>1 DEF CommitCheckOutputs, service, store, clowder, replies
  <2> QED
    BY <1>9, <2>1, <2>2 DEF CommitCheckOutputs
<1>10. CASE ClowderCommits(p)
  <2>1. PICK s \in Sig : ClowderCommits(p)!(s)
    BY <1>10 DEF ClowderCommits
  <2>2. issued' \in [Sig -> Contents \cup {None}]
    BY <2>1 DEF Jobs
  <2>3. [job[p] EXCEPT !.sig = s] \in Jobs
    BY JobExceptType
  <2>4. job' \in [Proc -> Jobs]
    BY <2>1, <2>3
  <2>5. pc' \in [Proc -> PCs]
    BY <2>1 DEF Goto, PCs
  <2> QED
    BY <2>1, <2>2, <2>4, <2>5 DEF service, store, replies
<1>11. CASE StoreCommitment(p)
  <2>1. CASE UNCHANGED <<commitments, proofs, outputs>>
    BY <1>11, <2>1, EndType DEF StoreCommitment, service, clowder, replies
  <2>2. CASE /\ commitments' = [commitments EXCEPT ![job[p].sig] =
                    [inputs |-> job[p].inputs, expiration |-> job[p].expiry,
                     owner |-> job[p].owner]]
             /\ proofs' = [y \in Y |-> IF y \in job[p].inputs
                                       THEN CommittedRow(job[p].sig) ELSE proofs[y]]
             /\ outputs' = [b \in B |-> IF b \in job[p].outputs
                                        THEN job[p].sig ELSE outputs[b]]
    <3>1. commitments' \in [Sig -> Commitment \cup {None}]
      BY <2>2 DEF Jobs, Commitment
    <3>2. \A s \in Sig \cup {None} : CommittedRow(s) \in Row /\ OneColumn(CommittedRow(s))
      BY DEF CommittedRow, Row, OneColumn
    <3>3. proofs' \in [Y -> Row] /\ \A y \in Y : OneColumn(proofs'[y])
      BY <2>2, <3>2 DEF Jobs
    <3>4. outputs' \in [B -> Sig \cup {None}]
      BY <2>2 DEF Jobs
    <3> QED
      BY <1>11, <3>1, <3>3, <3>4, EndType DEF StoreCommitment, service, clowder, replies
  <2> QED
    BY <1>11, <2>1, <2>2 DEF StoreCommitment
<1> QED
  BY <1>1, <1>2, <1>3, <1>4, <1>5, <1>6, <1>7, <1>8, <1>9, <1>10, <1>11 DEF CommitStep

\* Each step of swap keeps the types.
LEMMA SwapStepType ==
    ASSUME TypeOK, HandlersInOrder, NEW p \in Proc, SwapStep(p)
    PROVE  TypeOK'
<1> USE DEF TypeOK
<1>1. CASE SwapStart(p)
  <2>1. PICK s \in Sig, r \in Contents, q \in Contents : SwapStart(p)!(s, r, q)
    BY <1>1 DEF SwapStart
  <2>2. [NoJob EXCEPT !.kind = "swap", !.inputs = r.inputs, !.outputs = q.outputs,
                      !.sig = s, !.now = clock] \in Jobs
    BY ContentsAssumption DEF NoJob, Jobs
  <2>3. job' \in [Proc -> Jobs] /\ pc' \in [Proc -> PCs]
    BY <2>1, <2>2 DEF Begin, Goto, PCs
  <2> QED
    BY <2>1, <2>3 DEF Begin, service, store, clowder, replies
<1>2. CASE LoadCommitment(p)
  <2>1. CASE End(p)
    BY <1>2, <2>1, EndType DEF LoadCommitment, service, store, clowder, replies
  <2>2. CASE Redeemable(job[p])
    <3>1. commitments[job[p].sig] \in Commitment
      BY <1>2, <2>2 DEF LoadCommitment, Redeemable, HandlersInOrder, InOrder
    <3>2. [job[p] EXCEPT !.owner = commitments[job[p].sig].owner] \in Jobs
      BY <3>1, JobExceptType DEF Commitment
    <3>3. job' \in [Proc -> Jobs]
      BY <1>2, <2>2, <3>2 DEF LoadCommitment
    <3>4. pc' \in [Proc -> PCs]
      BY <1>2, <2>2 DEF LoadCommitment, Goto, PCs
    <3> QED
      BY <1>2, <2>2, <3>3, <3>4 DEF LoadCommitment, service, store, clowder, replies
  <2> QED
    BY <1>2, <2>1, <2>2 DEF LoadCommitment
<1>3. CASE LoadOutputs(p)
  <2>1. CASE End(p)
    BY <1>3, <2>1, EndType DEF LoadOutputs, service, store, clowder, replies
  <2>2. CASE OutputsMatch(job[p])
    <3>1. todo' \in [Proc -> SUBSET (Y \cup B)]
      BY <1>3, <2>2 DEF LoadOutputs, Jobs
    <3>2. pc' \in [Proc -> PCs]
      BY <1>3, <2>2 DEF LoadOutputs, Goto, PCs
    <3> QED
      BY <1>3, <2>2, <3>1, <3>2 DEF LoadOutputs, service, store, clowder, replies
  <2> QED
    BY <1>3, <2>1, <2>2 DEF LoadOutputs
<1>4. CASE SignBlind(p)
  <2>1. PICK b \in todo[p] : SignBlind(p)!(b)
    BY <1>4 DEF SignBlind
  <2>2. CASE b \in signatures
    BY <2>1, <2>2, EndType DEF service, clowder, replies
  <2>3. CASE b \notin signatures
    <3>1. b \in B
      BY <2>1 DEF HandlersInOrder, InOrder, Jobs
    <3>2. signatures' \in SUBSET B /\ todo' \in [Proc -> SUBSET (Y \cup B)]
      BY <2>1, <2>3, <3>1
    <3> QED
      BY <2>1, <2>3, <3>2 DEF service, clowder, replies
  <2> QED
    BY <2>2, <2>3
<1>5. CASE SignalSwap(p)
  <2>1. job[p].sig \in Sig
    BY <1>5 DEF SignalSwap, AllSigned, HandlersInOrder, InOrder
  <2>2. acked' \in SUBSET Event
    BY <1>5, <2>1 DEF SignalSwap, Event, Jobs
  <2>3. CASE End(p)
    BY <1>5, <2>2, <2>3, EndType DEF SignalSwap, service, store, replies
  <2>4. CASE Goto(p, "insert") /\ UNCHANGED <<job, todo, seen>>
    <3>1. pc' \in [Proc -> PCs]
      BY <2>4 DEF Goto, PCs
    <3> QED
      BY <1>5, <2>2, <2>4, <3>1 DEF SignalSwap, service, store, replies
  <2> QED
    BY <1>5, <2>3, <2>4 DEF SignalSwap
<1>6. CASE SignalRefused(p)
  BY <1>6, EndType DEF SignalRefused, service, store, clowder, replies
<1>7. CASE InsertProofs(p)
  <2>1. proofs' \in [Y -> Row] /\ \A y \in Y : OneColumn(proofs'[y])
    BY <1>7, MarkSpentType DEF InsertProofs, Jobs
  <2>2. pc' \in [Proc -> PCs]
    BY <1>7 DEF InsertProofs, Goto, PCs
  <2> QED
    BY <1>7, <2>1, <2>2 DEF InsertProofs, service, clowder, replies
<1>8. CASE InsertProofsRefused(p)
  <2>1. paid' \in [Y -> Nat]
    BY <1>8 DEF InsertProofsRefused, Pay
  <2> QED
    BY <1>8, <2>1, EndType DEF InsertProofsRefused, service, store, clowder
<1>9. CASE DeleteCommitment(p)
  <2>1. {job[p].sig} \in SUBSET Sig
    BY <1>9 DEF DeleteCommitment, HandlersInOrder, InOrder, Acknowledged
  <2>2. /\ proofs' \in [Y -> Row] /\ \A y \in Y : OneColumn(proofs'[y])
        /\ commitments' \in [Sig -> Commitment \cup {None}]
        /\ outputs' \in [B -> Sig \cup {None}]
    BY <1>9, <2>1, DeleteType DEF DeleteCommitment
  <2>3. pc' \in [Proc -> PCs]
    BY <1>9 DEF DeleteCommitment, Goto, PCs
  <2> QED
    BY <1>9, <2>2, <2>3 DEF DeleteCommitment, service, clowder, replies
<1>10. CASE StoreFees(p)
  <2>1. fees' \in SUBSET Sig
    BY <1>10 DEF StoreFees, HandlersInOrder, InOrder, Acknowledged
  <2>2. paid' \in [Y -> Nat]
    BY <1>10 DEF StoreFees, Pay
  <2> QED
    BY <1>10, <2>1, <2>2, EndType DEF StoreFees, service, store, clowder
<1> QED
  BY <1>1, <1>2, <1>3, <1>4, <1>5, <1>6, <1>7, <1>8, <1>9, <1>10 DEF SwapStep

\* Every other step keeps the types.
LEMMA OtherStepType ==
    ASSUME TypeOK,
           \/ \E p \in Proc : Fail(p)
           \/ ClowderMelts \/ Burn \/ Reserve \/ Recover \/ Restore \/ Tick \/ Crash
           \/ UNCHANGED vars
    PROVE  TypeOK'
<1> USE DEF TypeOK
<1>1. ASSUME NEW p \in Proc, Fail(p) PROVE TypeOK'
  BY <1>1, EndType DEF Fail, service, store, clowder, replies
<1>2. CASE ClowderMelts
  BY <1>2, ParameterAssumption DEF ClowderMelts, service, store, handlers, replies
<1>3. CASE Burn
  <2>1. PICK ys \in {m \in Melts : m \subseteq melted} \cup AdminBurns : Burn!(ys)
    BY <1>3 DEF Burn
  <2>2. proofs' \in [Y -> Row] /\ \A y \in Y : OneColumn(proofs'[y])
    BY <2>1, MarkSpentType, ParameterAssumption
  <2> QED
    BY <2>1, <2>2 DEF service, handlers, clowder, replies
<1>4. CASE Reserve
  <2>1. PICK ys \in Melts, deadline \in clock..MaxClock : Reserve!(ys, deadline)
    BY <1>4 DEF Reserve
  <2>2. deadline \in Nat
    BY ParameterAssumption
  <2>3. ReservedRow(deadline) \in Row /\ OneColumn(ReservedRow(deadline))
    BY <2>2 DEF ReservedRow, Row, OneColumn
  <2>4. proofs' \in [Y -> Row] /\ \A y \in Y : OneColumn(proofs'[y])
    BY <2>1, <2>3
  <2> QED
    BY <2>1, <2>4 DEF service, handlers, clowder, replies
<1>5. CASE Recover
  <2>1. PICK ys \in SUBSET Y : Recover!(ys)
    BY <1>5 DEF Recover
  <2>2. NoRow \in Row /\ OneColumn(NoRow)
    BY DEF NoRow, Row, OneColumn
  <2>3. proofs' \in [Y -> Row] /\ \A y \in Y : OneColumn(proofs'[y])
    BY <2>1, <2>2
  <2> QED
    BY <2>1, <2>3 DEF service, handlers, clowder
<1>6. CASE Restore
  BY <1>6 DEF Restore, SignatureStored, service, store, handlers, clowder
<1>7. CASE Tick
  BY <1>7 DEF Tick, service, store, handlers, clowder, replies
<1>8. CASE Crash
  <2>1. NoJob \in Jobs
    BY DEF NoJob, Jobs
  <2>2. /\ pc' \in [Proc -> PCs] /\ job' \in [Proc -> Jobs]
        /\ todo' \in [Proc -> SUBSET (Y \cup B)] /\ seen' \in [Proc -> [Y -> States]]
    BY <1>8, <2>1 DEF Crash, PCs, States
  <2> QED
    BY <1>8, <2>2, ParameterAssumption DEF Crash, store, clowder, replies
<1>9. CASE UNCHANGED vars
  BY <1>9 DEF vars, service, store, handlers, clowder, replies
<1> QED
  BY <1>1, <1>2, <1>3, <1>4, <1>5, <1>6, <1>7, <1>8, <1>9

-----------------------------------------------------------------------------
(* The order in which a handler gets things done. *)

\* Handlers that stay where they are remain in order, and the others are to be looked at.
LEMMA OrderFrame ==
    ASSUME TypeOK, HandlersInOrder, signatures \subseteq signatures',
           \A q \in Proc : InOrder(q)' \/ (pc'[q] = pc[q] /\ job'[q] = job[q] /\ todo'[q] = todo[q])
    PROVE  HandlersInOrder'
<1> SUFFICES ASSUME NEW q \in Proc PROVE InOrder(q)'
  BY DEF HandlersInOrder
<1>1. CASE pc'[q] = pc[q] /\ job'[q] = job[q] /\ todo'[q] = todo[q]
  BY <1>1 DEF HandlersInOrder, InOrder, Acknowledged
<1> QED
  BY <1>1

\* A handler that replies leaves every handler in order.
LEMMA EndOrder ==
    ASSUME TypeOK, HandlersInOrder, NEW p \in Proc, End(p), signatures \subseteq signatures'
    PROVE  HandlersInOrder'
<1>1. InOrder(p)'
  BY DEF TypeOK, End, Goto, InOrder, Acknowledged
<1>2. \A q \in Proc : q # p => pc'[q] = pc[q] /\ job'[q] = job[q] /\ todo'[q] = todo[q]
  BY DEF TypeOK, End, Goto
<1> QED
  BY <1>1, <1>2, OrderFrame

\* Each step of commit_to_swap and check_state leaves the handlers in order.
LEMMA CommitStepOrder ==
    ASSUME TypeOK, HandlersInOrder, NEW p \in Proc, CommitStep(p)
    PROVE  HandlersInOrder'
<1>1. signatures \subseteq signatures'
  BY DEF CommitStep, CommitStart, CheckStart, CleanCommitments, CleanYs, ReadSpent,
         ReadReserved, ReadCommitted, CheckReply, CommitCheckOutputs, ClowderCommits,
         StoreCommitment, store
<1>2. CASE End(p)
  BY <1>1, <1>2, EndOrder
<1>3. CASE ~End(p)
  <2>1. \A q \in Proc : q # p => pc'[q] = pc[q] /\ job'[q] = job[q] /\ todo'[q] = todo[q]
    BY <1>3 DEF TypeOK, CommitStep, CommitStart, CheckStart, CleanCommitments, CleanYs,
                ReadSpent, ReadReserved, ReadCommitted, CheckReply, CommitCheckOutputs,
                ClowderCommits, StoreCommitment, Begin, Goto
  <2>2. CASE ClowderCommits(p)
    <3>1. PICK s \in Sig : ClowderCommits(p)!(s)
      BY <2>2 DEF ClowderCommits
    <3>2. pc'[p] = "store" /\ job'[p].sig = s
      BY <3>1 DEF TypeOK, Goto, Jobs
    <3>3. InOrder(p)'
      BY <3>2 DEF InOrder, Acknowledged
    <3> QED
      BY <1>1, <2>1, <3>3, OrderFrame
  <2>3. CASE ~ClowderCommits(p)
    <3>1. pc'[p] \in {"clean_commitments", "clean_ys", "spent", "committed", "clowder"}
      BY <1>3, <2>3 DEF TypeOK, CommitStep, CommitStart, CheckStart, CleanCommitments, CleanYs,
                ReadSpent, ReadReserved, ReadCommitted, CheckReply, CommitCheckOutputs,
                StoreCommitment, Begin, Goto
    <3>2. InOrder(p)'
      BY <3>1 DEF InOrder, Acknowledged
    <3> QED
      BY <1>1, <2>1, <3>2, OrderFrame
  <2> QED
    BY <2>2, <2>3
<1> QED
  BY <1>2, <1>3

\* Each step of swap leaves the handlers in order: it signs what it has loaded, and
\* signals only once nothing is left to sign.
LEMMA SwapStepOrder ==
    ASSUME TypeOK, HandlersInOrder, NEW p \in Proc, SwapStep(p)
    PROVE  HandlersInOrder'
<1>1. signatures \subseteq signatures'
  BY DEF SwapStep, SwapStart, LoadCommitment, LoadOutputs, SignBlind, SignalSwap,
         SignalRefused, InsertProofs, InsertProofsRefused, DeleteCommitment, StoreFees, store
<1>2. CASE End(p)
  BY <1>1, <1>2, EndOrder
<1>3. CASE ~End(p)
  <2>1. \A q \in Proc : q # p => pc'[q] = pc[q] /\ job'[q] = job[q] /\ todo'[q] = todo[q]
    BY <1>3 DEF TypeOK, SwapStep, SwapStart, LoadCommitment, LoadOutputs, SignBlind,
                SignalSwap, SignalRefused, InsertProofs, InsertProofsRefused,
                DeleteCommitment, StoreFees, Begin, Goto
  <2>2. InOrder(p)'
    <3> USE DEF TypeOK, InOrder, HandlersInOrder, Acknowledged
    <3>1. CASE SwapStart(p)
      <4>1. PICK s \in Sig, r \in Contents, q \in Contents : SwapStart(p)!(s, r, q)
        BY <3>1 DEF SwapStart
      <4>2. pc'[p] = "load" /\ job'[p].sig = s
        BY <4>1 DEF Begin, Goto, NoJob
      <4> QED
        BY <4>2
    <3>2. CASE LoadCommitment(p)
      <4>1. pc[p] = "load" /\ pc'[p] = "load_outputs" /\ job'[p].sig = job[p].sig
        BY <1>3, <3>2 DEF LoadCommitment, Goto, Jobs
      <4> QED
        BY <4>1
    <3>3. CASE LoadOutputs(p)
      <4>1. /\ pc[p] = "load_outputs" /\ pc'[p] = "sign" /\ job'[p] = job[p]
            /\ todo'[p] = job[p].outputs
        BY <1>3, <3>3 DEF LoadOutputs, Goto
      <4> QED
        BY <4>1
    <3>4. CASE SignBlind(p)
      <4>1. PICK b \in todo[p] : SignBlind(p)!(b)
        BY <3>4 DEF SignBlind
      <4>2. /\ pc[p] = "sign" /\ pc'[p] = "sign" /\ job'[p] = job[p]
            /\ todo'[p] = todo[p] \ {b} /\ signatures' = signatures \cup {b}
        BY <1>3, <4>1
      <4> QED
        BY <4>2
    <3>5. CASE SignalSwap(p)
      <4>1. pc[p] = "sign" /\ pc'[p] = "insert" /\ job'[p] = job[p]
        BY <1>3, <3>5 DEF SignalSwap, AllSigned, Goto
      <4> QED
        BY <4>1
    <3>6. CASE InsertProofs(p)
      <4>1. pc[p] = "insert" /\ pc'[p] = "delete" /\ job'[p] = job[p]
        BY <3>6 DEF InsertProofs, Goto
      <4> QED
        BY <4>1
    <3>7. CASE DeleteCommitment(p)
      <4>1. pc[p] = "delete" /\ pc'[p] = "fees" /\ job'[p] = job[p]
        BY <3>7 DEF DeleteCommitment, Goto
      <4> QED
        BY <4>1
    <3> QED
      BY <1>3, <3>1, <3>2, <3>3, <3>4, <3>5, <3>6, <3>7
         DEF SwapStep, SignalRefused, InsertProofsRefused, StoreFees
  <2> QED
    BY <1>1, <2>1, <2>2, OrderFrame
<1> QED
  BY <1>2, <1>3

\* A failure, a restart and the calls of others leave the handlers in order.
LEMMA OtherStepOrder ==
    ASSUME TypeOK, HandlersInOrder,
           \/ \E p \in Proc : Fail(p)
           \/ ClowderMelts \/ Burn \/ Reserve \/ Recover \/ Restore \/ Tick \/ Crash
           \/ UNCHANGED vars
    PROVE  HandlersInOrder'
<1>1. ASSUME NEW p \in Proc, Fail(p) PROVE HandlersInOrder'
  BY <1>1, EndOrder DEF Fail, store
<1>2. CASE Crash
  <2>1. \A q \in Proc : pc'[q] = "idle"
    BY <1>2 DEF Crash
  <2> QED
    BY <2>1 DEF HandlersInOrder, InOrder, Acknowledged
<1>3. CASE ClowderMelts \/ Burn \/ Reserve \/ Recover \/ Restore \/ Tick \/ UNCHANGED vars
  <2>1. UNCHANGED <<handlers, signatures>>
    BY <1>3 DEF ClowderMelts, Burn, Reserve, Recover, Restore, Tick, vars, store
  <2> QED
    BY <2>1, OrderFrame DEF handlers
<1> QED
  BY <1>1, <1>2, <1>3

\* What Next is made of.
LEMMA NextSplit ==
    ASSUME [Next]_vars
    PROVE  \/ \E p \in Proc : CommitStep(p) \/ SwapStep(p)
           \/ \/ \E p \in Proc : Fail(p)
              \/ ClowderMelts \/ Burn \/ Reserve \/ Recover \/ Restore \/ Tick \/ Crash
              \/ UNCHANGED vars
BY DEF Next

\* TypeOK holds in every behaviour: rows of core_proofs never have two columns set, and a
\* handler holds a signature of clowder whenever the code uses one.
THEOREM TypeCorrect == Spec => [](TypeOK /\ HandlersInOrder)
<1>1. Init => TypeOK /\ HandlersInOrder
  <2>1. Init => HandlersInOrder
    BY DEF Init, HandlersInOrder, InOrder, Acknowledged
  <2> QED
    BY <2>1, InitType
<1>2. TypeOK /\ HandlersInOrder /\ [Next]_vars => (TypeOK /\ HandlersInOrder)'
  <2> SUFFICES ASSUME TypeOK, HandlersInOrder, [Next]_vars
               PROVE  TypeOK' /\ HandlersInOrder'
    OBVIOUS
  <2>1. ASSUME NEW p \in Proc, CommitStep(p) PROVE TypeOK' /\ HandlersInOrder'
    BY <2>1, CommitStepType, CommitStepOrder
  <2>2. ASSUME NEW p \in Proc, SwapStep(p) PROVE TypeOK' /\ HandlersInOrder'
    BY <2>2, SwapStepType, SwapStepOrder
  <2> QED
    BY <2>1, <2>2, NextSplit, OtherStepType, OtherStepOrder
<1> QED
  BY <1>1, <1>2, PTL DEF Spec

-----------------------------------------------------------------------------
(* Locks.  A row that carries a commitment's signature is lost in one way only: with  *)
(* the commitment.                                                                    *)

\* Deleting commitments leaves the inputs of the others locked.
LEMMA DeleteLocks ==
    ASSUME TypeOK, LockHolds, NEW D \in SUBSET Sig, DeleteCommitments(D), UNCHANGED recovered
    PROVE  LockHolds'
<1> SUFFICES ASSUME NEW s \in Sig, commitments'[s] # None,
                    NEW y \in commitments'[s].inputs \ recovered
             PROVE  proofs'[y].signature = s \/ proofs'[y].spent
  BY DEF LockHolds
<1>1. s \notin D /\ commitments'[s] = commitments[s]
  BY DEF DeleteCommitments
<1>2. y \in Y
  BY <1>1 DEF TypeOK, Commitment
<1>3. proofs[y].signature = s \/ proofs[y].spent
  BY <1>1 DEF LockHolds
<1>4. proofs[y].signature \notin D
  BY <1>1, <1>2, <1>3, NoneAssumption DEF TypeOK, OneColumn
<1> QED
  BY <1>2, <1>3, <1>4 DEF DeleteCommitments

\* Marking proofs spent leaves every commitment's inputs locked or spent.
LEMMA MarkSpentLocks ==
    ASSUME TypeOK, LockHolds, NEW ys \in SUBSET Y, MarkSpent(ys),
           UNCHANGED <<commitments, recovered>>
    PROVE  LockHolds'
<1> SUFFICES ASSUME NEW s \in Sig, commitments[s] # None,
                    NEW y \in commitments[s].inputs \ recovered
             PROVE  proofs'[y].signature = s \/ proofs'[y].spent
  BY DEF LockHolds
<1>1. y \in Y
  BY DEF TypeOK, Commitment
<1> QED
  BY <1>1 DEF MarkSpent, SpentRow, LockHolds

\* A commitment is stored over vacant rows, so it takes no input of another.
LEMMA StoreLocks ==
    ASSUME TypeOK, HandlersInOrder, LockHolds, NEW p \in Proc, StoreCommitment(p)
    PROVE  LockHolds'
<1>1. UNCHANGED recovered
  BY DEF StoreCommitment, replies
<1>2. CASE ~Insertable(job[p])
  BY <1>1, <1>2 DEF StoreCommitment, LockHolds
<1>3. CASE Insertable(job[p])
  <2> DEFINE j == job[p]
  <2>1. j \in Jobs /\ j.sig \in Sig
    BY DEF TypeOK, HandlersInOrder, InOrder, StoreCommitment
  <2> SUFFICES ASSUME NEW s \in Sig, commitments'[s] # None,
                      NEW y \in commitments'[s].inputs \ recovered
               PROVE  proofs'[y].signature = s \/ proofs'[y].spent
    BY <1>1 DEF LockHolds
  <2>2. proofs' = [x \in Y |-> IF x \in j.inputs THEN CommittedRow(j.sig) ELSE proofs[x]]
    BY <1>3 DEF StoreCommitment
  <2>3. CASE s = j.sig
    <3>1. commitments'[s].inputs = j.inputs /\ j.inputs \subseteq Y
      BY <1>3, <2>1, <2>3 DEF StoreCommitment, TypeOK, Jobs
    <3> QED
      BY <2>2, <2>3, <3>1 DEF CommittedRow
  <2>4. CASE s # j.sig
    <3>1. commitments'[s] = commitments[s]
      BY <1>3, <2>1, <2>4 DEF StoreCommitment, TypeOK
    <3>2. y \in Y
      BY <3>1 DEF TypeOK, Commitment
    <3>3. proofs[y].signature = s \/ proofs[y].spent
      BY <3>1 DEF LockHolds
    <3>4. y \notin j.inputs
      BY <1>3, <3>3, NoneAssumption DEF Insertable, Vacant, NoRow
    <3> QED
      BY <2>2, <3>2, <3>3, <3>4
  <2> QED
    BY <2>3, <2>4
<1> QED
  BY <1>2, <1>3

\* Each step of commit_to_swap and check_state keeps the locks: only its store and its
\* two cleanings write rows.
LEMMA CommitStepLocks ==
    ASSUME TypeOK, HandlersInOrder, LockHolds, NEW p \in Proc, CommitStep(p)
    PROVE  LockHolds'
<1>1. CASE StoreCommitment(p)
  BY <1>1, StoreLocks
<1>2. CASE CleanCommitments(p)
  BY <1>2, DeleteLocks DEF CleanCommitments, replies
<1>3. CASE CleanYs(p)
  <2> SUFFICES ASSUME NEW s \in Sig, commitments[s] # None,
                      NEW y \in commitments[s].inputs \ recovered
               PROVE  proofs'[y].signature = s \/ proofs'[y].spent
    BY <1>3 DEF LockHolds, CleanYs, replies
  <2>1. y \in Y
    BY DEF TypeOK, Commitment
  <2>2. proofs[y].signature = s \/ proofs[y].spent
    BY DEF LockHolds
  <2>3. proofs[y].deadline = None
    BY <2>1, <2>2, NoneAssumption DEF TypeOK, OneColumn
  <2> QED
    BY <1>3, <2>1, <2>2, <2>3 DEF CleanYs
<1>4. CASE UNCHANGED <<store, recovered>>
  BY <1>4 DEF LockHolds, store
<1> QED
  BY <1>1, <1>2, <1>3, <1>4 DEF CommitStep, CommitStart, CheckStart, ReadSpent,
     ReadReserved, ReadCommitted, CheckReply, CommitCheckOutputs, ClowderCommits, replies

\* Each step of swap keeps the locks: only proofs_insert and commitment_delete write rows.
LEMMA SwapStepLocks ==
    ASSUME TypeOK, HandlersInOrder, LockHolds, NEW p \in Proc, SwapStep(p)
    PROVE  LockHolds'
<1>1. CASE InsertProofs(p)
  <2>1. job[p].inputs \in SUBSET Y
    BY DEF TypeOK, Jobs
  <2> QED
    BY <1>1, <2>1, MarkSpentLocks DEF InsertProofs, replies
<1>2. CASE DeleteCommitment(p)
  <2>1. {job[p].sig} \in SUBSET Sig
    BY <1>2 DEF DeleteCommitment, HandlersInOrder, InOrder, Acknowledged
  <2> QED
    BY <1>2, <2>1, DeleteLocks DEF DeleteCommitment, replies
<1>3. CASE UNCHANGED <<proofs, commitments, recovered>>
  BY <1>3 DEF LockHolds
<1> QED
  BY <1>1, <1>2, <1>3 DEF SwapStep, SwapStart, LoadCommitment, LoadOutputs, SignBlind,
     SignalSwap, SignalRefused, InsertProofsRefused, StoreFees, replies, store

\* Burning, reserving and recovering proofs keep the locks of every other proof.
LEMMA OtherStepLocks ==
    ASSUME TypeOK, LockHolds,
           \/ \E p \in Proc : Fail(p)
           \/ ClowderMelts \/ Burn \/ Reserve \/ Recover \/ Restore \/ Tick \/ Crash
           \/ UNCHANGED vars
    PROVE  LockHolds'
<1>1. CASE Burn
  <2>1. PICK ys \in {m \in Melts : m \subseteq melted} \cup AdminBurns : Burn!(ys)
    BY <1>1 DEF Burn
  <2>2. ys \in SUBSET Y
    BY ParameterAssumption
  <2> QED
    BY <2>1, <2>2, MarkSpentLocks DEF replies
<1>2. CASE Reserve
  <2>1. PICK ys \in Melts, deadline \in clock..MaxClock : Reserve!(ys, deadline)
    BY <1>2 DEF Reserve
  <2> SUFFICES ASSUME NEW s \in Sig, commitments[s] # None,
                      NEW y \in commitments[s].inputs \ recovered
               PROVE  proofs'[y].signature = s \/ proofs'[y].spent
    BY <2>1 DEF LockHolds, replies
  <2>2. y \in Y
    BY DEF TypeOK, Commitment
  <2>3. proofs[y].signature = s \/ proofs[y].spent
    BY DEF LockHolds
  <2>4. y \notin ys
    BY <2>1, <2>3, NoneAssumption DEF Reservable, Vacant, NoRow
  <2> QED
    BY <2>1, <2>2, <2>3, <2>4
<1>3. CASE Recover
  <2>1. PICK ys \in SUBSET Y : Recover!(ys)
    BY <1>3 DEF Recover
  <2> SUFFICES ASSUME NEW s \in Sig, commitments[s] # None,
                      NEW y \in commitments[s].inputs \ recovered'
               PROVE  proofs'[y].signature = s \/ proofs'[y].spent
    BY <2>1 DEF LockHolds
  <2>2. y \in Y \ ys /\ y \notin recovered
    BY <2>1 DEF TypeOK, Commitment
  <2> QED
    BY <2>1, <2>2 DEF LockHolds
<1>4. CASE UNCHANGED <<proofs, commitments, recovered>>
  BY <1>4 DEF LockHolds
<1> QED
  BY <1>1, <1>2, <1>3, <1>4
     DEF Fail, ClowderMelts, Restore, Tick, Crash, vars, store, replies

\* While a commitment is stored its inputs are locked by it or spent, for any number of
\* handlers whose reads and writes interleave: commitment_store and ys_store refuse rows
\* that are not vacant, and cleaning only takes rows of the tables it cleans.
THEOREM LocksHold == Spec => []LockHolds
<1>1. Init => LockHolds
  BY DEF Init, LockHolds
<1>2. TypeOK /\ HandlersInOrder /\ LockHolds /\ [Next]_vars => LockHolds'
  <2> SUFFICES ASSUME TypeOK, HandlersInOrder, LockHolds, [Next]_vars
               PROVE  LockHolds'
    OBVIOUS
  <2>1. ASSUME NEW p \in Proc, CommitStep(p) \/ SwapStep(p) PROVE LockHolds'
    BY <2>1, CommitStepLocks, SwapStepLocks
  <2> QED
    BY <2>1, NextSplit, OtherStepLocks
<1> QED
  BY <1>1, <1>2, TypeCorrect, PTL DEF Spec

-----------------------------------------------------------------------------
(* Acknowledged swaps. *)

\* Only SignalSwap tells clowder of a swap, once every output has its signature stored.
LEMMA StepRestorable ==
    ASSUME TypeOK, HandlersInOrder, AckedIsRestorable, [Next]_vars
    PROVE  AckedIsRestorable'
<1>1. ASSUME NEW p \in Proc, SignalSwap(p) PROVE AckedIsRestorable'
  <2>1. job[p].outputs \subseteq signatures
    BY <1>1 DEF SignalSwap, AllSigned, HandlersInOrder, InOrder
  <2> QED
    BY <1>1, <2>1 DEF SignalSwap, AckedIsRestorable, store
<1>2. ASSUME NEW p \in Proc, SignBlind(p) PROVE AckedIsRestorable'
  BY <1>2 DEF SignBlind, AckedIsRestorable, clowder
<1>3. CASE acked' = acked /\ signatures' = signatures
  BY <1>3 DEF AckedIsRestorable
<1>4. ASSUME NEW p \in Proc, CommitStep(p) PROVE acked' = acked /\ signatures' = signatures
  BY <1>4 DEF CommitStep, CommitStart, CheckStart, CleanCommitments, CleanYs, ReadSpent,
     ReadReserved, ReadCommitted, CheckReply, CommitCheckOutputs, ClowderCommits,
     StoreCommitment, store, clowder
<1>5. ASSUME NEW p \in Proc, SwapStep(p), ~SignalSwap(p), ~SignBlind(p)
      PROVE  acked' = acked /\ signatures' = signatures
  BY <1>5 DEF SwapStep, SwapStart, LoadCommitment, LoadOutputs, SignalRefused, InsertProofs,
     InsertProofsRefused, DeleteCommitment, StoreFees, store, clowder
<1>6. CASE \/ \E p \in Proc : Fail(p)
           \/ ClowderMelts \/ Burn \/ Reserve \/ Recover \/ Restore \/ Tick \/ Crash
           \/ UNCHANGED vars
  BY <1>3, <1>6 DEF Fail, ClowderMelts, Burn, Reserve, Recover, Restore, Tick, Crash, vars,
     store, clowder
<1> QED
  BY <1>1, <1>2, <1>3, <1>4, <1>5, <1>6, NextSplit

\* Every acknowledged swap can be completed by its wallet: the signatures are stored
\* before clowder hears of the swap, so a lost reply or a restart loses none of them.
THEOREM Restorable == Spec => []AckedIsRestorable
<1>1. Init => AckedIsRestorable
  BY DEF Init, AckedIsRestorable
<1>2. TypeOK /\ HandlersInOrder /\ AckedIsRestorable /\ [Next]_vars => AckedIsRestorable'
  BY StepRestorable
<1> QED
  BY <1>1, <1>2, TypeCorrect, PTL DEF Spec

-----------------------------------------------------------------------------
(* Payments.  clowder lets each proof be consumed once, by one handler; that handler *)
(* ends with its reply.                                                              *)

\* A step that acknowledges and pays nothing keeps proofs in the hands they are in.
LEMMA OnceFrame ==
    ASSUME ConsumedOnce, Consumed \subseteq Consumed', UNCHANGED paid,
           \A q \in Proc : Acknowledged(q)' => Acknowledged(q) /\ job'[q].inputs = job[q].inputs
    PROVE  ConsumedOnce'
BY DEF ConsumedOnce

\* A handler that pays for its inputs replies with it, and nobody else holds them.
LEMMA PayOnce ==
    ASSUME TypeOK, ConsumedOnce, NoInputPaysTwice, NEW p \in Proc, Acknowledged(p),
           Pay(p), End(p), Consumed' = Consumed
    PROVE  ConsumedOnce' /\ NoInputPaysTwice'
<1>1. ~Acknowledged(p)'
  BY DEF TypeOK, End, Goto, Acknowledged
<1>2. \A q \in Proc : q # p => pc'[q] = pc[q] /\ job'[q] = job[q]
  BY DEF TypeOK, End, Goto
<1>3. \A q \in Proc : Acknowledged(q)' =>
          q # p /\ Acknowledged(q) /\ job'[q].inputs = job[q].inputs
  BY <1>1, <1>2 DEF Acknowledged
<1>4. \A q \in Proc : job[q].inputs \subseteq Y
  BY DEF TypeOK, Jobs
<1>5. ASSUME NEW q \in Proc, Acknowledged(q)', NEW y \in job'[q].inputs
      PROVE  y \in Consumed' /\ paid'[y] = 0
  <2>1. q # p /\ Acknowledged(q) /\ y \in job[q].inputs /\ y \in Y
    BY <1>3, <1>4, <1>5
  <2>2. y \notin job[p].inputs /\ y \in Consumed /\ paid[y] = 0
    BY <2>1 DEF ConsumedOnce
  <2> QED
    BY <2>1, <2>2 DEF Pay
<1>6. ASSUME NEW y \in Y PROVE paid'[y] <= 1 /\ (paid'[y] > 0 => y \in Consumed')
  <2>1. CASE y \in job[p].inputs
    <3>1. y \in Consumed /\ paid[y] = 0
      BY <2>1 DEF ConsumedOnce
    <3> QED
      BY <2>1, <3>1 DEF Pay
  <2>2. CASE y \notin job[p].inputs
    BY <2>2 DEF Pay, ConsumedOnce, NoInputPaysTwice
  <2> QED
    BY <2>1, <2>2
<1> QED
  BY <1>3, <1>5, <1>6 DEF ConsumedOnce, NoInputPaysTwice

\* Clowder acknowledges a swap whose inputs nobody consumed, so no handler has them and
\* none of them was paid for.
LEMMA SignalOnce ==
    ASSUME TypeOK, ConsumedOnce, NEW p \in Proc, SignalSwap(p)
    PROVE  ConsumedOnce'
<1>1. Consumed' = Consumed \cup job[p].inputs
  <2> DEFINE event == [sig |-> job[p].sig, inputs |-> job[p].inputs, outputs |-> job[p].outputs]
  <2>1. acked' = acked \cup {event} /\ melted' = melted
    BY DEF SignalSwap
  <2>2. event.inputs = job[p].inputs
    OBVIOUS
  <2> HIDE DEF event
  <2>3. {e.inputs : e \in acked'} = {e.inputs : e \in acked} \cup {event.inputs}
    BY <2>1, Zenon
  <2>4. UNION ({e.inputs : e \in acked} \cup {event.inputs})
           = (UNION {e.inputs : e \in acked}) \cup event.inputs
    OBVIOUS
  <2> QED
    BY <2>1, <2>2, <2>3, <2>4 DEF Consumed
<1>2. job[p].inputs \cap Consumed = {} /\ job[p].inputs \subseteq Y
  BY DEF SignalSwap, ClowderAccepts, TypeOK, Jobs
<1>3. \A q \in Proc : Acknowledged(q)' =>
          (q = p \/ Acknowledged(q)) /\ job'[q].inputs = job[q].inputs
  BY DEF SignalSwap, TypeOK, Goto, End, Acknowledged
<1>4. \A y \in job[p].inputs : paid[y] = 0
  BY <1>2 DEF ConsumedOnce, TypeOK
<1>5. \A q \in Proc : Acknowledged(q) => job[q].inputs \subseteq Consumed
  BY DEF ConsumedOnce
<1>6. paid' = paid
  BY DEF SignalSwap, replies
<1>7. ASSUME NEW q \in Proc, Acknowledged(q)', NEW y \in job'[q].inputs
      PROVE  y \in Consumed' /\ paid'[y] = 0
  <2>1. CASE q = p
    BY <1>1, <1>3, <1>4, <1>6, <1>7, <2>1
  <2>2. CASE q # p
    BY <1>1, <1>3, <1>6, <1>7, <2>2 DEF ConsumedOnce
  <2> QED
    BY <2>1, <2>2
<1>8. ASSUME NEW q \in Proc, NEW r \in Proc, q # r, Acknowledged(q)', Acknowledged(r)'
      PROVE  job'[q].inputs \cap job'[r].inputs = {}
  <2>1. CASE q = p
    BY <1>2, <1>3, <1>5, <1>8, <2>1
  <2>2. CASE r = p
    BY <1>2, <1>3, <1>5, <1>8, <2>2
  <2>3. CASE q # p /\ r # p
    BY <1>3, <1>8, <2>3 DEF ConsumedOnce
  <2> QED
    BY <2>1, <2>2, <2>3
<1>9. \A y \in Y : paid'[y] > 0 => y \in Consumed'
  BY <1>1, <1>6 DEF ConsumedOnce
<1> QED
  BY <1>7, <1>8, <1>9 DEF ConsumedOnce

\* Every step keeps consumed proofs in one hand and pays for them once.
LEMMA StepOnce ==
    ASSUME TypeOK, HandlersInOrder, ConsumedOnce, NoInputPaysTwice, [Next]_vars
    PROVE  ConsumedOnce' /\ NoInputPaysTwice'
<1>1. ASSUME NEW p \in Proc, SignalSwap(p) PROVE ConsumedOnce' /\ NoInputPaysTwice'
  BY <1>1, SignalOnce DEF SignalSwap, NoInputPaysTwice, replies
<1>2. ASSUME NEW p \in Proc, InsertProofsRefused(p) \/ StoreFees(p)
      PROVE  ConsumedOnce' /\ NoInputPaysTwice'
  <2>1. Acknowledged(p) /\ Pay(p) /\ End(p) /\ Consumed' = Consumed
    BY <1>2 DEF InsertProofsRefused, StoreFees, Acknowledged, Consumed, clowder
  <2> QED
    BY <2>1, PayOnce
<1>3. ASSUME /\ Consumed \subseteq Consumed' /\ UNCHANGED paid
             /\ \A q \in Proc :
                   Acknowledged(q)' => Acknowledged(q) /\ job'[q].inputs = job[q].inputs
      PROVE  ConsumedOnce' /\ NoInputPaysTwice'
  BY <1>3, OnceFrame DEF NoInputPaysTwice
<1>4. ASSUME NEW p \in Proc, CommitStep(p) PROVE ConsumedOnce' /\ NoInputPaysTwice'
  <2>1. UNCHANGED <<acked, melted, paid>>
    BY <1>4 DEF CommitStep, CommitStart, CheckStart, CleanCommitments, CleanYs, ReadSpent,
       ReadReserved, ReadCommitted, CheckReply, CommitCheckOutputs, ClowderCommits,
       StoreCommitment, clowder, replies
  <2>2. /\ pc'[p] \notin {"insert", "delete", "fees"}
        /\ \A q \in Proc : q # p => pc'[q] = pc[q] /\ job'[q] = job[q]
    BY <1>4 DEF TypeOK, CommitStep, CommitStart, CheckStart, CleanCommitments, CleanYs,
       ReadSpent, ReadReserved, ReadCommitted, CheckReply, CommitCheckOutputs,
       ClowderCommits, StoreCommitment, Begin, End, Goto
  <2> QED
    BY <1>3, <2>1, <2>2 DEF Consumed, Acknowledged
<1>5. ASSUME NEW p \in Proc, SwapStep(p), ~SignalSwap(p), ~InsertProofsRefused(p), ~StoreFees(p)
      PROVE  ConsumedOnce' /\ NoInputPaysTwice'
  <2>1. UNCHANGED <<acked, melted, paid>>
    BY <1>5 DEF SwapStep, SwapStart, LoadCommitment, LoadOutputs, SignBlind, SignalRefused,
       InsertProofs, DeleteCommitment, clowder, replies
  <2>2. \A q \in Proc : q # p => pc'[q] = pc[q] /\ job'[q] = job[q]
    BY <1>5 DEF TypeOK, SwapStep, SwapStart, LoadCommitment, LoadOutputs, SignBlind,
       SignalRefused, InsertProofs, DeleteCommitment, Begin, End, Goto
  <2>3. Acknowledged(p)' => Acknowledged(p) /\ job'[p] = job[p]
    BY <1>5 DEF TypeOK, SwapStep, SwapStart, LoadCommitment, LoadOutputs, SignBlind,
       SignalRefused, InsertProofs, DeleteCommitment, Begin, End, Goto, Acknowledged
  <2> QED
    BY <1>3, <2>1, <2>2, <2>3 DEF Consumed, Acknowledged
<1>6. ASSUME NEW p \in Proc, Fail(p) PROVE ConsumedOnce' /\ NoInputPaysTwice'
  <2>1. UNCHANGED <<acked, melted, paid>>
    BY <1>6 DEF Fail, clowder, replies
  <2>2. ~Acknowledged(p)' /\ \A q \in Proc : q # p => pc'[q] = pc[q] /\ job'[q] = job[q]
    BY <1>6 DEF TypeOK, Fail, End, Goto, Acknowledged
  <2> QED
    BY <1>3, <2>1, <2>2 DEF Consumed, Acknowledged
<1>7. CASE Crash
  <2>1. UNCHANGED <<acked, melted, paid>> /\ \A q \in Proc : ~Acknowledged(q)'
    BY <1>7 DEF Crash, clowder, replies, Acknowledged
  <2> QED
    BY <1>3, <2>1 DEF Consumed
<1>8. CASE ClowderMelts \/ Burn \/ Reserve \/ Recover \/ Restore \/ Tick \/ UNCHANGED vars
  <2>1. UNCHANGED <<acked, paid, pc, job>> /\ melted \subseteq melted'
    BY <1>8 DEF ClowderMelts, Burn, Reserve, Recover, Restore, Tick, vars, handlers, clowder,
       replies
  <2> QED
    BY <1>3, <2>1 DEF Consumed, Acknowledged
<1> QED
  BY <1>1, <1>2, <1>4, <1>5, <1>6, <1>7, <1>8, NextSplit

\* No proof backs two swap replies that carry signatures: however many swaps are in flight
\* on the same inputs, under one commitment or several, one of them at most passes clowder,
\* and the handler that does replies once.
THEOREM PaysOnce == Spec => []NoInputPaysTwice
<1>1. Init => ConsumedOnce /\ NoInputPaysTwice
  BY DEF Init, ConsumedOnce, NoInputPaysTwice, Acknowledged
<1>2. /\ TypeOK /\ HandlersInOrder /\ ConsumedOnce /\ NoInputPaysTwice /\ [Next]_vars
      => ConsumedOnce' /\ NoInputPaysTwice'
  BY StepOnce
<1> QED
  BY <1>1, <1>2, TypeCorrect, PTL DEF Spec
=============================================================================
