------------------------- MODULE CoreMintSwapProofs -------------------------
(* Theorems about CoreMint that relate a commitment, the swap that redeems it *)
(* and what clowder signed and acknowledged, and that CoreMint implements     *)
(* ProofLocks.                                                                *)
EXTENDS CoreMintProofs

\* One step of the handler in slot p.
HandlerStep(p) == CommitStep(p) \/ SwapStep(p) \/ Fail(p)

\* One call that is not a handler of CoreMint's, or the passing of time.
CallStep == ClowderMelts \/ Burn \/ Reserve \/ Recover \/ Restore \/ Tick

\* What the proofs below know of every state already.
Basic == TypeOK /\ HandlersInOrder

-----------------------------------------------------------------------------
(* What a step leaves alone. *)

\* A step is one of a handler, a restart, a call of somebody else, or none.
LEMMA StepKinds ==
    ASSUME [Next]_vars
    PROVE  (\E p \in Proc : HandlerStep(p)) \/ Crash \/ CallStep \/ UNCHANGED vars
BY DEF Next, HandlerStep, CallStep

\* A handler moves no other handler.
LEMMA OthersStay ==
    ASSUME TypeOK, NEW p \in Proc, HandlerStep(p), NEW q \in Proc, q # p
    PROVE  pc'[q] = pc[q] /\ job'[q] = job[q] /\ todo'[q] = todo[q]
<1>1. CASE CommitStep(p)
  BY <1>1 DEF TypeOK, CommitStep, CommitStart, CheckStart, CleanCommitments, CleanYs,
     ReadSpent, ReadReserved, ReadCommitted, CheckReply, CommitCheckOutputs, ClowderCommits,
     StoreCommitment, Begin, End, Goto
<1>2. CASE SwapStep(p)
  BY <1>2 DEF TypeOK, SwapStep, SwapStart, LoadCommitment, LoadOutputs, SignBlind,
     SignalSwap, SignalRefused, InsertProofs, InsertProofsRefused, DeleteCommitment,
     StoreFees, Begin, End, Goto
<1>3. CASE Fail(p)
  BY <1>3 DEF TypeOK, Fail, End, Goto
<1> QED
  BY <1>1, <1>2, <1>3 DEF HandlerStep

\* Calls of others, and no step at all, leave the handlers alone.
LEMMA CallsStay ==
    ASSUME CallStep \/ UNCHANGED vars
    PROVE  UNCHANGED <<handlers, commitments, outputs, signatures, issued, acked, paid,
                       settleDeadline>>
BY DEF CallStep, ClowderMelts, Burn, Reserve, Recover, Restore, Tick, vars, handlers, store,
       service, clowder, replies

\* A restart leaves the tables and clowder alone, and no handler in flight.
LEMMA CrashStays ==
    ASSUME Crash
    PROVE  /\ UNCHANGED <<clock, store, clowder, replies>>
           /\ \A p \in Proc : pc'[p] = "idle" /\ job'[p] = NoJob
BY DEF Crash

\* What clowder signed a commitment for never changes.
LEMMA IssuedOnce ==
    ASSUME TypeOK, [Next]_vars, NEW s \in Sig, issued[s] # None
    PROVE  issued'[s] = issued[s]
<1>1. ASSUME NEW p \in Proc, ClowderCommits(p) PROVE issued'[s] = issued[s]
  BY <1>1 DEF ClowderCommits, TypeOK
<1>2. ASSUME NEW p \in Proc, HandlerStep(p), ~ClowderCommits(p) PROVE issued' = issued
  BY <1>2 DEF HandlerStep, CommitStep, CommitStart, CheckStart, CleanCommitments, CleanYs,
     ReadSpent, ReadReserved, ReadCommitted, CheckReply, CommitCheckOutputs, StoreCommitment,
     SwapStep, SwapStart, LoadCommitment, LoadOutputs, SignBlind, SignalSwap, SignalRefused,
     InsertProofs, InsertProofsRefused, DeleteCommitment, StoreFees, Fail, clowder
<1> QED
  BY <1>1, <1>2, StepKinds, CallsStay, CrashStays DEF clowder

\* Clowder hears of swaps from SignalSwap only.
LEMMA OnlySignalled ==
    ASSUME [Next]_vars, \A p \in Proc : ~SignalSwap(p)
    PROVE  acked' = acked
<1>1. ASSUME NEW p \in Proc, HandlerStep(p) PROVE acked' = acked
  BY <1>1 DEF HandlerStep, CommitStep, CommitStart, CheckStart, CleanCommitments, CleanYs,
     ReadSpent, ReadReserved, ReadCommitted, CheckReply, CommitCheckOutputs, ClowderCommits,
     StoreCommitment, SwapStep, SwapStart, LoadCommitment, LoadOutputs, SignBlind,
     SignalRefused, InsertProofs, InsertProofsRefused, DeleteCommitment, StoreFees, Fail,
     clowder
<1> QED
  BY <1>1, StepKinds, CallsStay, CrashStays DEF clowder

-----------------------------------------------------------------------------
(* The tables: a stored commitment is what clowder signed. *)

\* Every stored commitment is one that clowder signed.
StoredIsIssued == \A s \in Sig : commitments[s] # None => issued[s] # None

\* Rows that at most lose the signature they carry leave commitments whole.
LEMMA WholeFrame ==
    ASSUME TypeOK, [Next]_vars, CommitmentsWhole, StoredIsIssued,
           UNCHANGED <<commitments, outputs>>,
           \A y \in Y : proofs'[y].signature \in {proofs[y].signature, None}
    PROVE  CommitmentsWhole' /\ StoredIsIssued'
<1>1. \A s \in Sig : OutputsOf(s)' = OutputsOf(s)
  BY DEF OutputsOf
<1>2. \A s \in Sig : issued[s] # None => issued'[s] = issued[s]
  BY IssuedOnce
<1> QED
  BY <1>1, <1>2 DEF CommitmentsWhole, StoredIsIssued

\* Deleting commitments takes all that they hold along, and nothing else.
LEMMA DeleteWhole ==
    ASSUME TypeOK, [Next]_vars, CommitmentsWhole, StoredIsIssued, NEW D \in SUBSET Sig,
           DeleteCommitments(D)
    PROVE  CommitmentsWhole' /\ StoredIsIssued'
<1>1. \A s \in Sig : commitments'[s] = IF s \in D THEN None ELSE commitments[s]
  BY DEF DeleteCommitments
<1>2. \A b \in B : outputs'[b] = IF outputs[b] \in D THEN None ELSE outputs[b]
  BY DEF DeleteCommitments
<1>3. \A y \in Y : proofs'[y].signature =
                      IF proofs[y].signature \in D THEN None ELSE proofs[y].signature
  BY DEF DeleteCommitments, NoRow
<1>4. \A s \in Sig : issued[s] # None => issued'[s] = issued[s]
  BY IssuedOnce
<1>5. ASSUME NEW s \in Sig, commitments'[s] # None
      PROVE  /\ commitments'[s].inputs = issued'[s].inputs /\ issued'[s] # None
             /\ OutputsOf(s)' = issued'[s].outputs
  <2>1. s \notin D /\ commitments'[s] = commitments[s]
    BY <1>1, <1>5
  <2>2. OutputsOf(s)' = OutputsOf(s)
    BY <1>2, <2>1, NoneAssumption DEF OutputsOf
  <2> QED
    BY <1>4, <1>5, <2>1, <2>2 DEF CommitmentsWhole, StoredIsIssued
<1>6. ASSUME NEW b \in B, outputs'[b] # None PROVE commitments'[outputs'[b]] # None
  <2>1. outputs'[b] = outputs[b] /\ outputs[b] \in Sig \ D
    BY <1>2, <1>6 DEF TypeOK
  <2> QED
    BY <1>1, <1>6, <2>1 DEF CommitmentsWhole
<1>7. ASSUME NEW y \in Y, proofs'[y].signature # None
      PROVE  commitments'[proofs'[y].signature] # None
  <2>1. proofs'[y].signature = proofs[y].signature /\ proofs[y].signature \in Sig \ D
    BY <1>3, <1>7 DEF TypeOK, Row
  <2> QED
    BY <1>1, <1>7, <2>1 DEF CommitmentsWhole
<1> QED
  BY <1>5, <1>6, <1>7 DEF CommitmentsWhole, StoredIsIssued

\* commitment_store writes what clowder signed, over rows that nobody holds.
LEMMA StoreWhole ==
    ASSUME Basic, [Next]_vars, CommitmentsWhole, HandlersAgree, NEW p \in Proc,
           StoreCommitment(p)
    PROVE  CommitmentsWhole' /\ StoredIsIssued'
<1> DEFINE j == job[p]
<1>1. StoredIsIssued
  BY DEF HandlersAgree, StoredIsIssued
<1>2. CASE ~Insertable(j)
  BY <1>1, <1>2, WholeFrame DEF StoreCommitment, Basic
<1>3. CASE Insertable(j)
  <2>1. /\ j.sig \in Sig /\ j.content \in Contents /\ issued[j.sig] = j.content
        /\ j.inputs = j.content.inputs /\ j.outputs = j.content.outputs
    BY DEF StoreCommitment, Basic, HandlersInOrder, InOrder, HandlersAgree, Agrees
  <2>2. \A s \in Sig : issued[s] # None => issued'[s] = issued[s]
    BY IssuedOnce DEF Basic
  <2>3. issued'[j.sig] = j.content /\ j.content # None
    BY <2>1, <2>2, NoneAssumption
  <2>4. /\ commitments'[j.sig] = [inputs |-> j.inputs, expiration |-> j.expiry, owner |-> j.owner]
        /\ \A s \in Sig : s # j.sig => commitments'[s] = commitments[s]
    BY <1>3, <2>1 DEF StoreCommitment, Basic, TypeOK
  <2>5. [inputs |-> j.inputs, expiration |-> j.expiry, owner |-> j.owner] # None
    BY NoneAssumption DEF Basic, TypeOK, Commitment, Jobs
  <2>6. /\ \A b \in B : outputs'[b] = IF b \in j.outputs THEN j.sig ELSE outputs[b]
        /\ \A b \in j.outputs : outputs[b] = None
        /\ j.outputs \subseteq B
    BY <1>3 DEF StoreCommitment, Insertable, Basic, TypeOK, Jobs
  <2>7. \A y \in Y : proofs'[y].signature = IF y \in j.inputs THEN j.sig ELSE proofs[y].signature
    BY <1>3 DEF StoreCommitment, CommittedRow
  <2>8. ASSUME NEW s \in Sig, commitments'[s] # None
        PROVE  /\ commitments'[s].inputs = issued'[s].inputs /\ issued'[s] # None
               /\ OutputsOf(s)' = issued'[s].outputs
    <3>1. CASE s = j.sig
      <4>1. \A b \in B : outputs[b] # s
        BY <1>3, <3>1, <2>1, NoneAssumption DEF CommitmentsWhole, Insertable
      <4>2. OutputsOf(s)' = j.outputs
        BY <2>6, <3>1, <4>1 DEF OutputsOf
      <4> QED
        BY <2>1, <2>3, <2>4, <3>1, <4>2
    <3>2. CASE s # j.sig
      <4>1. OutputsOf(s)' = OutputsOf(s)
        BY <2>6, <3>2, NoneAssumption DEF OutputsOf
      <4>2. commitments'[s] = commitments[s] /\ issued[s] # None /\ issued'[s] = issued[s]
        BY <1>1, <2>2, <2>4, <2>8, <3>2 DEF StoredIsIssued
      <4> QED
        BY <2>8, <4>1, <4>2 DEF CommitmentsWhole
    <3> QED
      BY <3>1, <3>2
  <2>9. ASSUME NEW b \in B, outputs'[b] # None PROVE commitments'[outputs'[b]] # None
    BY <2>1, <2>4, <2>5, <2>6, <2>9 DEF CommitmentsWhole, Basic, TypeOK
  <2>10. ASSUME NEW y \in Y, proofs'[y].signature # None
         PROVE  commitments'[proofs'[y].signature] # None
    BY <2>1, <2>4, <2>5, <2>7, <2>10 DEF CommitmentsWhole, Basic, TypeOK, Row
  <2> QED
    BY <2>8, <2>9, <2>10 DEF CommitmentsWhole, StoredIsIssued
<1> QED
  BY <1>2, <1>3

\* Every step keeps commitments whole.
LEMMA StepWhole ==
    ASSUME Basic, [Next]_vars, CommitmentsWhole, HandlersAgree
    PROVE  CommitmentsWhole' /\ StoredIsIssued'
<1>1. StoredIsIssued
  BY DEF HandlersAgree, StoredIsIssued
<1>2. CASE UNCHANGED <<commitments, outputs, proofs>>
  BY <1>1, <1>2, WholeFrame DEF Basic
<1>3. ASSUME NEW ys \in SUBSET Y, MarkSpent(ys), UNCHANGED <<commitments, outputs>>
      PROVE  CommitmentsWhole' /\ StoredIsIssued'
  <2>1. \A y \in Y : proofs'[y].signature \in {proofs[y].signature, None}
    BY <1>3 DEF MarkSpent, SpentRow
  <2> QED
    BY <1>1, <1>3, <2>1, WholeFrame DEF Basic
<1>4. ASSUME NEW p \in Proc, HandlerStep(p) PROVE CommitmentsWhole' /\ StoredIsIssued'
  <2>1. CASE StoreCommitment(p)
    BY <2>1, StoreWhole
  <2>2. CASE CleanCommitments(p)
    BY <1>1, <2>2, DeleteWhole DEF CleanCommitments, Basic
  <2>3. CASE CleanYs(p)
    <3>1. \A y \in Y : proofs'[y].signature \in {proofs[y].signature, None}
      BY <2>3 DEF CleanYs, NoRow
    <3> QED
      BY <1>1, <2>3, <3>1, WholeFrame DEF CleanYs, Basic
  <2>4. CASE InsertProofs(p)
    BY <1>3, <2>4 DEF InsertProofs, Basic, TypeOK, Jobs
  <2>5. CASE DeleteCommitment(p)
    <3>1. {job[p].sig} \in SUBSET Sig
      BY <2>5 DEF DeleteCommitment, Basic, HandlersInOrder, InOrder, Acknowledged
    <3> QED
      BY <1>1, <2>5, <3>1, DeleteWhole DEF DeleteCommitment, Basic
  <2> QED
    BY <1>2, <1>4, <2>1, <2>2, <2>3, <2>4, <2>5
       DEF HandlerStep, CommitStep, CommitStart, CheckStart, ReadSpent, ReadReserved,
           ReadCommitted, CheckReply, CommitCheckOutputs, ClowderCommits, SwapStep, SwapStart,
           LoadCommitment, LoadOutputs, SignBlind, SignalSwap, SignalRefused,
           InsertProofsRefused, StoreFees, Fail, store
<1>5. CASE CallStep
  <2>1. CASE Burn
    <3>1. PICK ys \in {m \in Melts : m \subseteq melted} \cup AdminBurns : Burn!(ys)
      BY <2>1 DEF Burn
    <3> QED
      BY <1>3, <3>1, ParameterAssumption
  <2>2. CASE Reserve \/ Recover
    <3>1. PICK ys \in SUBSET Y, row \in {NoRow} \cup {ReservedRow(t) : t \in Nat} :
             proofs' = [y \in Y |-> IF y \in ys THEN row ELSE proofs[y]]
      <4>1. CASE Reserve
        <5>1. PICK ys \in Melts, deadline \in clock..MaxClock : Reserve!(ys, deadline)
          BY <4>1 DEF Reserve
        <5>2. ReservedRow(deadline) \in {ReservedRow(t) : t \in Nat} /\ ys \in SUBSET Y
          BY ParameterAssumption DEF Basic, TypeOK
        <5> QED
          BY <5>1, <5>2
      <4>2. CASE Recover
        BY <4>2 DEF Recover
      <4> QED
        BY <2>2, <4>1, <4>2
    <3>2. \A y \in Y : proofs'[y].signature \in {proofs[y].signature, None}
      BY <3>1 DEF ReservedRow, NoRow
    <3>3. UNCHANGED <<commitments, outputs>>
      BY <2>2 DEF Reserve, Recover
    <3> QED
      BY <1>1, <3>2, <3>3, WholeFrame DEF Basic
  <2> QED
    BY <1>2, <1>5, <2>1, <2>2 DEF CallStep, ClowderMelts, Restore, Tick, store
<1>6. CASE Crash \/ UNCHANGED vars
  BY <1>2, <1>6 DEF Crash, vars, store
<1> QED
  BY <1>4, <1>5, <1>6, StepKinds

-----------------------------------------------------------------------------
(* What handlers know of their commitment. *)

\* A handler that stays where it is still agrees with what clowder signed.
LEMMA AgreesFrame ==
    ASSUME Basic, [Next]_vars, NEW q \in Proc, Agrees(q), pc'[q] = pc[q], job'[q] = job[q]
    PROVE  Agrees(q)'
<1>1. \A s \in Sig : issued[s] # None => issued'[s] = issued[s]
  BY IssuedOnce DEF Basic
<1>2. InOrder(q)
  BY DEF Basic, HandlersInOrder
<1>3. pc[q] = "store" => issued'[job[q].sig] = job[q].content
  BY <1>1, <1>2, NoneAssumption DEF Agrees, InOrder
<1>4. pc[q] \in {"load", "load_outputs", "sign"} \/ Acknowledged(q) =>
          issued'[job[q].sig] = issued[job[q].sig]
  BY <1>1, <1>2 DEF Agrees, InOrder
<1> QED
  BY <1>3, <1>4 DEF Agrees, Acknowledged

\* A handler that replies has nothing to agree with.
LEMMA EndAgrees ==
    ASSUME TypeOK, NEW p \in Proc, End(p)
    PROVE  Agrees(p)'
BY DEF TypeOK, End, Goto, NoJob, Agrees, Acknowledged

\* Each step of commit_to_swap keeps to what the wallet asked for and clowder signed.
LEMMA CommitStepAgrees ==
    ASSUME Basic, NEW p \in Proc, CommitStep(p), Agrees(p)
    PROVE  Agrees(p)'
<1> USE DEF Basic, TypeOK, Agrees, Acknowledged
<1>1. CASE CommitStart(p)
  <2>1. PICK r \in Contents, owner \in Owners : CommitStart(p)!(r, owner)
    BY <1>1 DEF CommitStart
  <2>2. /\ pc'[p] = "clean_commitments" /\ job'[p].kind = "commit" /\ job'[p].content = r
        /\ job'[p].inputs = r.inputs /\ job'[p].outputs = r.outputs
    BY <2>1 DEF Begin, Goto, NoJob
  <2> QED
    BY <2>2
<1>2. CASE CheckStart(p)
  <2>1. pc'[p] = "clean_commitments" /\ job'[p].kind = "check"
    BY <1>2 DEF CheckStart, Begin, Goto, NoJob
  <2> QED
    BY <2>1
<1>3. CASE CleanCommitments(p) \/ CleanYs(p) \/ ReadSpent(p) \/ ReadReserved(p) \/ ReadCommitted(p)
  <2>1. job'[p] = job[p] /\ pc'[p] \in {"clean_ys", "spent", "committed"}
    BY <1>3 DEF CleanCommitments, CleanYs, ReadSpent, ReadReserved, ReadCommitted, Goto
  <2> QED
    BY <2>1
<1>4. CASE End(p)
  BY <1>4, EndAgrees
<1>5. CASE CommitCheckOutputs(p) /\ ~End(p)
  <2>1. job'[p] = job[p] /\ pc'[p] = "clowder" /\ job[p].kind = "commit"
    BY <1>5 DEF CommitCheckOutputs, Goto
  <2> QED
    BY <2>1
<1>6. CASE ClowderCommits(p)
  <2>1. PICK s \in Sig : ClowderCommits(p)!(s)
    BY <1>6 DEF ClowderCommits
  <2>2. /\ pc'[p] = "store" /\ job'[p] = [job[p] EXCEPT !.sig = s] /\ job[p].kind = "commit"
        /\ issued'[s] = job[p].content
    BY <2>1 DEF Goto
  <2>3. /\ job'[p].sig = s /\ job'[p].kind = job[p].kind /\ job'[p].content = job[p].content
        /\ job'[p].inputs = job[p].inputs /\ job'[p].outputs = job[p].outputs
    BY <2>2 DEF Jobs
  <2> QED
    BY <2>2, <2>3
<1> QED
  BY <1>1, <1>2, <1>3, <1>4, <1>5, <1>6 DEF CommitStep, CheckReply, StoreCommitment

\* Each step of swap keeps to what clowder signed: the inputs are compared with the digest
\* of the commitment, the outputs with rows that only a commitment that is stored has.
LEMMA SwapStepAgrees ==
    ASSUME Basic, CommitmentsWhole, NEW p \in Proc, SwapStep(p), Agrees(p)
    PROVE  Agrees(p)'
<1>1. CASE SwapStart(p)
  <2>1. PICK s \in Sig, r \in Contents, q \in Contents : SwapStart(p)!(s, r, q)
    BY <1>1 DEF SwapStart
  <2>2. /\ pc'[p] = "load" /\ job'[p].kind = "swap" /\ job'[p].sig = s
        /\ job'[p].outputs = q.outputs /\ issued' = issued
    BY <2>1 DEF Basic, TypeOK, Begin, Goto, NoJob, clowder
  <2> QED
    BY <2>1, <2>2, ContentsAssumption DEF Agrees, Acknowledged
<1>2. CASE LoadCommitment(p) /\ ~End(p)
  <2>1. /\ pc[p] = "load" /\ pc'[p] = "load_outputs" /\ Redeemable(job[p]) /\ issued' = issued
        /\ job'[p] = [job[p] EXCEPT !.owner = commitments[job[p].sig].owner]
    BY <1>2 DEF LoadCommitment, Basic, TypeOK, Goto, clowder
  <2>2. /\ job'[p].sig = job[p].sig /\ job'[p].kind = job[p].kind
        /\ job'[p].inputs = job[p].inputs /\ job'[p].outputs = job[p].outputs
        /\ job'[p].content = job[p].content
    BY <2>1 DEF Basic, TypeOK, Jobs
  <2>3. job[p].sig \in Sig
    BY <2>1 DEF Basic, HandlersInOrder, InOrder
  <2>4. job[p].inputs = issued[job[p].sig].inputs
    BY <2>1, <2>3 DEF Redeemable, CommitmentsWhole
  <2> QED
    BY <2>1, <2>2, <2>4 DEF Agrees, Acknowledged
<1>3. CASE LoadOutputs(p) /\ ~End(p)
  <2>1. /\ pc[p] = "load_outputs" /\ pc'[p] = "sign" /\ job'[p] = job[p] /\ issued' = issued
        /\ OutputsOf(job[p].sig) = job[p].outputs
    BY <1>3 DEF LoadOutputs, OutputsMatch, Basic, TypeOK, Goto, clowder
  <2>2. job[p].sig \in Sig /\ job[p].outputs # {}
    BY <2>1 DEF Basic, HandlersInOrder, InOrder, Agrees
  <2>3. PICK b \in B : outputs[b] = job[p].sig
    BY <2>1, <2>2 DEF OutputsOf
  <2>4. commitments[job[p].sig] # None
    BY <2>2, <2>3, NoneAssumption DEF CommitmentsWhole
  <2>5. job[p].outputs = issued[job[p].sig].outputs
    BY <2>1, <2>2, <2>4 DEF CommitmentsWhole
  <2> QED
    BY <2>1, <2>2, <2>5 DEF Agrees, Acknowledged
<1>4. CASE /\ SignBlind(p) \/ SignalSwap(p) \/ InsertProofs(p) \/ DeleteCommitment(p)
           /\ ~End(p)
  <2>1. /\ job'[p] = job[p] /\ issued' = issued
        /\ pc[p] = "sign" \/ Acknowledged(p)
        /\ pc'[p] = "sign" \/ Acknowledged(p)'
    BY <1>4 DEF SignBlind, SignalSwap, AllSigned, InsertProofs, DeleteCommitment, Acknowledged,
       Basic, TypeOK, Goto, clowder
  <2> QED
    BY <2>1 DEF Agrees, Acknowledged
<1>5. CASE End(p)
  BY <1>5, EndAgrees DEF Basic
<1> QED
  BY <1>1, <1>2, <1>3, <1>4, <1>5 DEF SwapStep, SignalRefused, InsertProofsRefused, StoreFees

\* Every step keeps handlers in agreement with what clowder signed.
LEMMA StepAgrees ==
    ASSUME Basic, [Next]_vars, CommitmentsWhole, HandlersAgree
    PROVE  HandlersAgree'
<1>1. StoredIsIssued'
  BY StepWhole
<1> SUFFICES ASSUME NEW q \in Proc PROVE Agrees(q)'
  BY <1>1 DEF HandlersAgree, StoredIsIssued
<1>2. Agrees(q)
  BY DEF HandlersAgree
<1>3. ASSUME NEW p \in Proc, HandlerStep(p) PROVE Agrees(q)'
  <2>1. CASE q # p
    BY <1>2, <1>3, <2>1, OthersStay, AgreesFrame DEF Basic
  <2>2. CASE q = p
    BY <1>2, <1>3, <2>2, CommitStepAgrees, SwapStepAgrees, EndAgrees DEF HandlerStep, Fail, Basic
  <2> QED
    BY <2>1, <2>2
<1>4. CASE Crash
  BY <1>4, CrashStays DEF Agrees, Acknowledged, NoJob
<1>5. CASE CallStep \/ UNCHANGED vars
  BY <1>2, <1>5, CallsStay, AgreesFrame DEF handlers
<1> QED
  BY <1>3, <1>4, <1>5, StepKinds

\* A commitment that is stored is the one clowder signed, with every input and every output
\* of it, and what the tables hold is held by a stored commitment: for any number of
\* handlers, under storing, cleaning, deletion and spends in any order.
THEOREM Whole == Spec => []CommitmentsWhole
<1>1. Init => CommitmentsWhole /\ HandlersAgree
  BY DEF Init, CommitmentsWhole, HandlersAgree, Agrees, Acknowledged, NoJob, NoRow
<1>2. Basic /\ [Next]_vars /\ CommitmentsWhole /\ HandlersAgree => (CommitmentsWhole /\ HandlersAgree)'
  BY StepWhole, StepAgrees
<1>3. Spec => []Basic
  BY TypeCorrect, PTL DEF Basic
<1> QED
  BY <1>1, <1>2, <1>3, PTL DEF Spec

-----------------------------------------------------------------------------
(* What clowder hears. *)

\* SignalSwap passes on what clowder signed.
LEMMA StepAcked ==
    ASSUME Basic, [Next]_vars, HandlersAgree, AckedAsCommitted
    PROVE  AckedAsCommitted'
<1>1. ASSUME NEW e \in acked
      PROVE  /\ issued'[e.sig] # None
             /\ e.inputs = issued'[e.sig].inputs /\ e.outputs = issued'[e.sig].outputs
  <2>1. e.sig \in Sig
    BY DEF Basic, TypeOK, Event
  <2>2. issued'[e.sig] = issued[e.sig]
    BY <2>1, IssuedOnce DEF Basic, AckedAsCommitted
  <2> QED
    BY <2>2 DEF AckedAsCommitted
<1>2. CASE \E p \in Proc : SignalSwap(p)
  <2>1. PICK p \in Proc : SignalSwap(p)
    BY <1>2
  <2> DEFINE j == job[p]
             event == [sig |-> j.sig, inputs |-> j.inputs, outputs |-> j.outputs]
  <2>2. acked' = acked \cup {event} /\ issued' = issued /\ pc[p] = "sign"
    BY <2>1 DEF SignalSwap, AllSigned
  <2>3. /\ issued[j.sig] # None /\ j.inputs = issued[j.sig].inputs
        /\ j.outputs = issued[j.sig].outputs
    BY <2>2 DEF HandlersAgree, Agrees
  <2> QED
    BY <1>1, <2>2, <2>3 DEF AckedAsCommitted
<1>3. CASE \A p \in Proc : ~SignalSwap(p)
  BY <1>1, <1>3, OnlySignalled DEF AckedAsCommitted
<1> QED
  BY <1>2, <1>3

\* What clowder acknowledged is what it had signed the commitment for, although the swap
\* handler reads the commitment and its outputs with queries of their own, between which
\* the commitment may be deleted or stored again.
THEOREM AckedMatches == Spec => []AckedAsCommitted
<1>1. Init => AckedAsCommitted /\ CommitmentsWhole /\ HandlersAgree
  BY DEF Init, AckedAsCommitted, CommitmentsWhole, HandlersAgree, Agrees, Acknowledged, NoJob,
     NoRow
<1>2. Basic /\ [Next]_vars /\ CommitmentsWhole /\ HandlersAgree /\ AckedAsCommitted
      => (CommitmentsWhole /\ HandlersAgree /\ AckedAsCommitted)'
  BY StepWhole, StepAgrees, StepAcked
<1>3. Spec => []Basic
  BY TypeCorrect, PTL DEF Basic
<1> QED
  BY <1>1, <1>2, <1>3, PTL DEF Spec

-----------------------------------------------------------------------------
(* Each signature is of one handler, then of one event. *)

\* What a handler has signed is stored.
LEMMA SignedIsStored ==
    ASSUME Basic, NEW p \in Proc
    PROVE  SignedBy(p) \subseteq signatures
BY DEF Basic, HandlersInOrder, InOrder, SignedBy

\* Handlers that sign nothing new, while clowder hears of nothing, share no signature.
LEMMA SignedFrame ==
    ASSUME SignedOnce, OutputsAckedOnce, acked' = acked,
           \A q \in Proc : SignedBy(q)' \subseteq SignedBy(q)
    PROVE  SignedOnce' /\ OutputsAckedOnce'
<1>1. \A q \in Proc, e \in acked : SignedBy(q)' \cap e.outputs = {}
  BY DEF SignedOnce
<1>2. \A q, r \in Proc : q # r => SignedBy(q)' \cap SignedBy(r)' = {}
  BY DEF SignedOnce
<1> QED
  BY <1>1, <1>2 DEF SignedOnce, OutputsAckedOnce

\* An output is signed only if nobody has signed it before.
LEMMA SignOnce ==
    ASSUME Basic, AckedIsRestorable, SignedOnce, OutputsAckedOnce, NEW p \in Proc, SignBlind(p)
    PROVE  SignedOnce' /\ OutputsAckedOnce'
<1>1. acked' = acked
  BY DEF SignBlind, clowder
<1>2. \A q \in Proc : q # p => SignedBy(q)' = SignedBy(q)
  BY OthersStay DEF HandlerStep, SwapStep, Basic, SignedBy
<1>3. PICK b \in todo[p] : SignBlind(p)!(b)
  BY DEF SignBlind
<1>4. CASE b \in signatures
  <2>1. SignedBy(p)' = {}
    BY <1>3, <1>4 DEF End, Goto, SignedBy, Basic, TypeOK
  <2> QED
    BY <1>1, <1>2, <2>1, SignedFrame
<1>5. CASE b \notin signatures
  <2>1. SignedBy(p)' \subseteq SignedBy(p) \cup {b}
    BY <1>3, <1>5 DEF SignedBy, Basic, TypeOK
  <2>2. \A q \in Proc : b \notin SignedBy(q)
    BY <1>5, SignedIsStored
  <2>3. \A e \in acked : b \notin e.outputs
    BY <1>5 DEF AckedIsRestorable
  <2>4. \A q, r \in Proc : q # r => SignedBy(q)' \cap SignedBy(r)' = {}
    BY <1>2, <2>1, <2>2 DEF SignedOnce
  <2>5. \A q \in Proc, e \in acked : SignedBy(q)' \cap e.outputs = {}
    BY <1>2, <2>1, <2>3 DEF SignedOnce
  <2> QED
    BY <1>1, <2>4, <2>5 DEF SignedOnce, OutputsAckedOnce
<1> QED
  BY <1>4, <1>5

\* Clowder hears of a swap with outputs that no other event and no other handler has.
LEMMA SignalOnceOnly ==
    ASSUME Basic, HandlersAgree, AckedAsCommitted, SignedOnce, OutputsAckedOnce,
           NEW p \in Proc, SignalSwap(p)
    PROVE  SignedOnce' /\ OutputsAckedOnce'
<1> DEFINE j == job[p]
           event == [sig |-> j.sig, inputs |-> j.inputs, outputs |-> j.outputs]
<1>1. acked' = acked \cup {event} /\ pc[p] = "sign" /\ todo[p] = {}
  BY DEF SignalSwap, AllSigned
<1>2. SignedBy(p) = event.outputs
  BY <1>1 DEF SignedBy
<1>3. \A q \in Proc : q # p => SignedBy(q)' = SignedBy(q)
  BY OthersStay DEF HandlerStep, SwapStep, Basic, SignedBy
<1>4. SignedBy(p)' = {}
  BY DEF SignalSwap, End, Goto, SignedBy, Basic, TypeOK
<1>5. \A e \in acked : event.outputs \cap e.outputs = {}
  BY <1>2 DEF SignedOnce
<1>6. \A e \in acked : event.sig # e.sig
  <2> SUFFICES ASSUME NEW e \in acked, event.sig = e.sig PROVE FALSE
    OBVIOUS
  <2>1. event.outputs = issued[j.sig].outputs /\ event.outputs # {}
    BY <1>1 DEF HandlersAgree, Agrees
  <2>2. e.outputs = issued[j.sig].outputs
    BY DEF AckedAsCommitted
  <2> QED
    BY <1>5, <2>1, <2>2
<1>7. \A q \in Proc : SignedBy(q)' \cap event.outputs = {}
  BY <1>2, <1>3, <1>4 DEF SignedOnce
<1>8. SignedOnce'
  BY <1>1, <1>3, <1>4, <1>7 DEF SignedOnce
<1>9. OutputsAckedOnce'
  <2> HIDE DEF event
  <2> QED
    BY <1>1, <1>5, <1>6 DEF OutputsAckedOnce
<1> QED
  BY <1>8, <1>9

\* Every step leaves each signature with one handler or one event.
LEMMA StepSigned ==
    ASSUME Basic, [Next]_vars, HandlersAgree, AckedAsCommitted, AckedIsRestorable, SignedOnce,
           OutputsAckedOnce
    PROVE  SignedOnce' /\ OutputsAckedOnce'
<1>1. ASSUME NEW p \in Proc, HandlerStep(p) PROVE SignedOnce' /\ OutputsAckedOnce'
  <2>1. CASE SignalSwap(p)
    BY <2>1, SignalOnceOnly
  <2>2. CASE SignBlind(p)
    BY <2>2, SignOnce
  <2>3. CASE ~SignalSwap(p) /\ ~SignBlind(p)
    <3>1. acked' = acked
      BY <1>1, <2>3 DEF HandlerStep, CommitStep, CommitStart, CheckStart, CleanCommitments,
         CleanYs, ReadSpent, ReadReserved, ReadCommitted, CheckReply, CommitCheckOutputs,
         ClowderCommits, StoreCommitment, SwapStep, SwapStart, LoadCommitment, LoadOutputs,
         SignalRefused, InsertProofs, InsertProofsRefused, DeleteCommitment, StoreFees, Fail,
         clowder
    <3>2. SignedBy(p)' = {}
      <4>1. CASE LoadOutputs(p)
        BY <4>1 DEF LoadOutputs, End, Goto, SignedBy, Basic, TypeOK
      <4>2. CASE ~LoadOutputs(p)
        <5>1. pc'[p] # "sign"
          BY <1>1, <2>3, <4>2
             DEF HandlerStep, CommitStep, CommitStart, CheckStart, CleanCommitments, CleanYs,
                 ReadSpent, ReadReserved, ReadCommitted, CheckReply, CommitCheckOutputs,
                 ClowderCommits, StoreCommitment, SwapStep, SwapStart, LoadCommitment,
                 SignalRefused, InsertProofs, InsertProofsRefused, DeleteCommitment, StoreFees,
                 Fail, Begin, End, Goto, Basic, TypeOK
        <5> QED
          BY <5>1 DEF SignedBy
      <4> QED
        BY <4>1, <4>2
    <3>3. \A q \in Proc : q # p => SignedBy(q)' = SignedBy(q)
      BY <1>1, OthersStay DEF SignedBy, Basic
    <3> QED
      BY <3>1, <3>2, <3>3, SignedFrame
  <2> QED
    BY <2>1, <2>2, <2>3
<1>2. CASE Crash
  BY <1>2, CrashStays, SignedFrame DEF SignedBy, clowder
<1>3. CASE CallStep \/ UNCHANGED vars
  BY <1>3, CallsStay, SignedFrame DEF SignedBy, handlers
<1> QED
  BY <1>1, <1>2, <1>3, StepKinds

\* No output is signed for two swaps that clowder acknowledged, and no commitment redeemed
\* twice, although any number of requests may redeem one commitment side by side: a stored
\* signature ends every request but one.
THEOREM OutputsOnce == Spec => []OutputsAckedOnce
<1>1. Init => /\ AckedAsCommitted /\ CommitmentsWhole /\ HandlersAgree
              /\ SignedOnce /\ OutputsAckedOnce
  BY DEF Init, AckedAsCommitted, CommitmentsWhole, HandlersAgree, Agrees, Acknowledged, NoJob,
     NoRow, SignedOnce, SignedBy, OutputsAckedOnce
<1>2. /\ Basic /\ AckedIsRestorable /\ [Next]_vars
      /\ CommitmentsWhole /\ HandlersAgree /\ AckedAsCommitted /\ SignedOnce /\ OutputsAckedOnce
      => (/\ CommitmentsWhole /\ HandlersAgree /\ AckedAsCommitted
          /\ SignedOnce /\ OutputsAckedOnce)'
  BY StepWhole, StepAgrees, StepAcked, StepSigned
<1>3. Spec => []Basic
  BY TypeCorrect, PTL DEF Basic
<1> QED
  BY <1>1, <1>2, <1>3, Restorable, PTL DEF Spec

-----------------------------------------------------------------------------
(* The settle window. *)

\* A step of a handler brings no request from the future, and redeems no commitment in the
\* settle window but a Beta's.
LEMMA HandlerWindow ==
    ASSUME Basic, WindowSeen, NEW p \in Proc, HandlerStep(p)
    PROVE  WindowSeen'
<1>1. UNCHANGED <<clock, settleDeadline>>
  BY DEF HandlerStep, CommitStep, CommitStart, CheckStart, CleanCommitments, CleanYs,
     ReadSpent, ReadReserved, ReadCommitted, CheckReply, CommitCheckOutputs, ClowderCommits,
     StoreCommitment, SwapStep, SwapStart, LoadCommitment, LoadOutputs, SignBlind, SignalSwap,
     SignalRefused, InsertProofs, InsertProofsRefused, DeleteCommitment, StoreFees, Fail,
     service
<1> DEFINE Past == pc[p] \in {"load_outputs", "sign"} \/ Acknowledged(p)
<1>2. job'[p].now <= clock /\ (Past' => job'[p].owner = "Beta" \/ clock >= settleDeadline)
  <2> USE DEF Basic, TypeOK
  <2>1. CASE CommitStart(p) \/ CheckStart(p) \/ SwapStart(p)
    <3>1. job'[p].now = clock /\ pc'[p] \in {"clean_commitments", "load"}
      <4>1. CASE CommitStart(p)
        <5>1. PICK r \in Contents, owner \in Owners : CommitStart(p)!(r, owner)
          BY <4>1 DEF CommitStart
        <5> QED
          BY <5>1 DEF Begin, Goto, NoJob
      <4>2. CASE CheckStart(p)
        BY <4>2 DEF CheckStart, Begin, Goto, NoJob
      <4>3. CASE SwapStart(p)
        <5>1. PICK s \in Sig, r \in Contents, q \in Contents : SwapStart(p)!(s, r, q)
          BY <4>3 DEF SwapStart
        <5> QED
          BY <5>1 DEF Begin, Goto, NoJob
      <4> QED
        BY <2>1, <4>1, <4>2, <4>3
    <3> QED
      BY <3>1 DEF Acknowledged
  <2>2. CASE End(p)
    <3>1. pc'[p] = "idle" /\ job'[p].now = 0
      BY <2>2 DEF End, Goto, NoJob
    <3> QED
      BY <3>1 DEF Acknowledged
  <2>3. CASE LoadCommitment(p) /\ ~End(p)
    <3>1. /\ Redeemable(job[p]) /\ job[p].sig \in Sig
          /\ job'[p] = [job[p] EXCEPT !.owner = commitments[job[p].sig].owner]
      BY <2>3 DEF LoadCommitment, HandlersInOrder, InOrder
    <3>2. /\ job'[p].now = job[p].now /\ job'[p].owner = commitments[job[p].sig].owner
          /\ job[p].now \in Nat
      BY <3>1 DEF Jobs
    <3>3. job[p].now <= clock
      BY DEF WindowSeen
    <3>4. job'[p].owner = "Beta" \/ job[p].now >= settleDeadline
      BY <3>1, <3>2 DEF Redeemable, OutsideSettleWindow
    <3> QED
      BY <3>2, <3>3, <3>4
  <2>4. CASE ClowderCommits(p)
    <3>1. PICK s \in Sig : ClowderCommits(p)!(s)
      BY <2>4 DEF ClowderCommits
    <3>2. pc'[p] = "store" /\ job'[p].now = job[p].now
      BY <3>1 DEF Goto, Jobs
    <3> QED
      BY <3>2 DEF WindowSeen, Acknowledged
  <2>5. CASE /\ \/ CommitStep(p) /\ ~CommitStart(p) /\ ~CheckStart(p) /\ ~ClowderCommits(p)
                \/ SwapStep(p) /\ ~SwapStart(p) /\ ~LoadCommitment(p)
             /\ ~End(p)
    <3>1. job'[p] = job[p] /\ (Past' => Past)
      BY <2>5 DEF CommitStep, CleanCommitments, CleanYs, ReadSpent, ReadReserved,
         ReadCommitted, CheckReply, CommitCheckOutputs, StoreCommitment, SwapStep, LoadOutputs,
         SignBlind, SignalSwap, SignalRefused, InsertProofs, InsertProofsRefused,
         DeleteCommitment, StoreFees, AllSigned, Goto, Acknowledged
    <3> QED
      BY <3>1 DEF WindowSeen
  <2> QED
    BY <2>1, <2>2, <2>3, <2>4, <2>5 DEF HandlerStep, Fail
<1>3. \A q \in Proc : q # p => pc'[q] = pc[q] /\ job'[q] = job[q]
  BY OthersStay DEF Basic
<1> QED
  BY <1>1, <1>2, <1>3 DEF WindowSeen, Acknowledged

\* Every step keeps the window closed: it opens anew only when all requests are gone.
LEMMA StepWindow ==
    ASSUME Basic, [Next]_vars, WindowSeen
    PROVE  WindowSeen'
<1>1. CASE Crash
  <2>1. clock \in Nat
    BY DEF Basic, TypeOK
  <2> QED
    BY <1>1, <2>1, CrashStays DEF WindowSeen, NoJob, Acknowledged
<1>2. CASE CallStep \/ UNCHANGED vars
  <2>1. UNCHANGED <<pc, job, settleDeadline>>
    BY <1>2, CallsStay DEF handlers
  <2>2. clock' \in {clock, clock + 1}
    BY <1>2 DEF CallStep, ClowderMelts, Burn, Reserve, Recover, Restore, Tick, vars
  <2>3. /\ clock \in Nat /\ settleDeadline \in Nat /\ \A p \in Proc : job[p].now \in Nat
    BY DEF Basic, TypeOK, Jobs
  <2> QED
    BY <2>1, <2>2, <2>3 DEF WindowSeen, Acknowledged
<1> QED
  BY <1>1, <1>2, StepKinds, HandlerWindow

\* A swap past its checks that does not come from a Beta runs outside of the settle window,
\* however often the service restarts and whatever the requests in flight have read before.
THEOREM WindowHolds == Spec => []SettleWindowClosed
<1>1. Init => WindowSeen
  BY DEF Init, WindowSeen, NoJob, Acknowledged
<1>2. Basic /\ [Next]_vars /\ WindowSeen => WindowSeen'
  BY StepWindow
<1>3. WindowSeen => SettleWindowClosed
  BY DEF WindowSeen, SettleWindowClosed, Acknowledged
<1>4. Spec => []Basic
  BY TypeCorrect, PTL DEF Basic
<1> QED
  BY <1>1, <1>2, <1>3, <1>4, PTL DEF Spec

-----------------------------------------------------------------------------
(* Spent proofs. *)

\* A row that is spent carries nothing that a deletion or a cleaning looks for.
LEMMA StepForever ==
    ASSUME Basic, [Next]_vars, NEW y \in Y, proofs[y].spent, ~proofs'[y].spent
    PROVE  y \in recovered'
<1>1. proofs[y].signature = None /\ proofs[y].deadline = None /\ proofs[y] # NoRow
  BY DEF Basic, TypeOK, OneColumn, NoRow
<1>2. ASSUME NEW D \in SUBSET Sig, DeleteCommitments(D) PROVE FALSE
  <2>1. proofs'[y] = proofs[y]
    BY <1>1, <1>2, NoneAssumption DEF DeleteCommitments
  <2> QED
    BY <2>1
<1>3. ASSUME NEW ys, MarkSpent(ys) PROVE FALSE
  BY <1>3 DEF MarkSpent, SpentRow
<1>4. ASSUME NEW p \in Proc, HandlerStep(p) PROVE FALSE
  <2>1. CASE StoreCommitment(p)
    BY <1>1, <2>1 DEF StoreCommitment, Insertable, Vacant
  <2>2. CASE CleanCommitments(p)
    BY <1>2, <2>2 DEF CleanCommitments
  <2>3. CASE CleanYs(p)
    BY <1>1, <2>3 DEF CleanYs
  <2>4. CASE InsertProofs(p)
    BY <1>3, <2>4 DEF InsertProofs
  <2>5. CASE DeleteCommitment(p)
    <3>1. {job[p].sig} \in SUBSET Sig
      BY <2>5 DEF DeleteCommitment, Basic, HandlersInOrder, InOrder, Acknowledged
    <3> QED
      BY <1>2, <2>5, <3>1 DEF DeleteCommitment
  <2> QED
    BY <1>4, <2>1, <2>2, <2>3, <2>4, <2>5
       DEF HandlerStep, CommitStep, CommitStart, CheckStart, ReadSpent, ReadReserved,
           ReadCommitted, CheckReply, CommitCheckOutputs, ClowderCommits, SwapStep, SwapStart,
           LoadCommitment, LoadOutputs, SignBlind, SignalSwap, SignalRefused,
           InsertProofsRefused, StoreFees, Fail, store
<1>5. CASE CallStep
  <2>1. CASE Burn
    BY <1>3, <2>1 DEF Burn
  <2>2. CASE Reserve
    <3>1. PICK ys \in Melts, deadline \in clock..MaxClock : Reserve!(ys, deadline)
      BY <2>2 DEF Reserve
    <3> QED
      BY <1>1, <3>1 DEF Reservable, Vacant
  <2>3. CASE Recover
    BY <2>3 DEF Recover
  <2> QED
    BY <1>5, <2>1, <2>2, <2>3 DEF CallStep, ClowderMelts, Restore, Tick, store
<1>6. CASE Crash \/ UNCHANGED vars
  BY <1>6 DEF Crash, vars, store
<1> QED
  BY <1>4, <1>5, <1>6, StepKinds

\* A spent proof stays spent unless it is recovered: no cleaning, deletion, reservation or
\* commitment takes its row along.
THEOREM SpentForGood == Spec => SpentIsForever
<1>1. Basic /\ [Next]_vars =>
         [\A y \in Y : proofs[y].spent /\ ~proofs'[y].spent => y \in recovered']_vars
  BY StepForever
<1>2. Spec => []Basic
  BY TypeCorrect, PTL DEF Basic
<1> QED
  BY <1>1, <1>2, PTL DEF Spec, SpentIsForever

-----------------------------------------------------------------------------
(* Payments, and the commitments they redeem. *)

\* Recovered proofs stay recovered.
LEMMA RecoveredGrows ==
    ASSUME [Next]_vars
    PROVE  recovered \subseteq recovered'
BY DEF Next, CommitStep, CommitStart, CheckStart, CleanCommitments, CleanYs, ReadSpent,
   ReadReserved, ReadCommitted, CheckReply, CommitCheckOutputs, ClowderCommits,
   StoreCommitment, SwapStep, SwapStart, LoadCommitment, LoadOutputs, SignBlind, SignalSwap,
   SignalRefused, InsertProofs, InsertProofsRefused, DeleteCommitment, StoreFees, Fail,
   ClowderMelts, Burn, Reserve, Recover, Restore, Tick, Crash, vars, replies

\* How a handler gets between clowder's acknowledgement and its reply.
LEMMA Arrivals ==
    ASSUME Basic, [Next]_vars, NEW q \in Proc
    PROVE  /\ pc'[q] = "insert" =>
                 job'[q] = job[q] /\ (SignalSwap(q) \/ pc[q] = "insert")
           /\ pc'[q] \in {"delete", "fees"} =>
                 job'[q] = job[q] /\ (InsertProofs(q) \/ pc[q] \in {"delete", "fees"})
<1>1. ASSUME NEW p \in Proc, HandlerStep(p), p # q PROVE pc'[q] = pc[q] /\ job'[q] = job[q]
  BY <1>1, OthersStay DEF Basic
<1>2. ASSUME HandlerStep(q), pc'[q] \in {"insert", "delete", "fees"}
      PROVE  /\ job'[q] = job[q]
             /\ SignalSwap(q) \/ InsertProofs(q) \/ DeleteCommitment(q)
             /\ pc'[q] = "insert" => SignalSwap(q)
             /\ pc'[q] \in {"delete", "fees"} => InsertProofs(q) \/ pc[q] = "delete"
  BY <1>2 DEF HandlerStep, CommitStep, CommitStart, CheckStart, CleanCommitments, CleanYs,
     ReadSpent, ReadReserved, ReadCommitted, CheckReply, CommitCheckOutputs, ClowderCommits,
     StoreCommitment, SwapStep, SwapStart, LoadCommitment, LoadOutputs, SignBlind, SignalSwap,
     SignalRefused, InsertProofs, InsertProofsRefused, DeleteCommitment, StoreFees, Fail,
     Begin, End, Goto, Basic, TypeOK
<1>3. ASSUME HandlerStep(q), pc'[q] \in {"insert", "delete", "fees"} PROVE job'[q] = job[q]
  BY <1>2, <1>3 DEF SignalSwap, InsertProofs, DeleteCommitment, End, Goto, Basic, TypeOK
<1>4. CASE Crash
  BY <1>4, CrashStays
<1>5. CASE CallStep \/ UNCHANGED vars
  BY <1>5, CallsStay DEF handlers
<1> QED
  BY <1>1, <1>2, <1>3, <1>4, <1>5, StepKinds

\* Past proofs_insert, the inputs are marked.
MarkedWhenPast ==
    \A p \in Proc : pc[p] \in {"delete", "fees"} =>
        \A y \in job[p].inputs : proofs[y].spent \/ y \in recovered

\* Every step keeps the inputs of a handler past proofs_insert marked.
LEMMA StepMarked ==
    ASSUME Basic, [Next]_vars, MarkedWhenPast
    PROVE  MarkedWhenPast'
<1> SUFFICES ASSUME NEW q \in Proc, pc'[q] \in {"delete", "fees"}, NEW y \in job'[q].inputs
             PROVE  proofs'[y].spent \/ y \in recovered'
  BY DEF MarkedWhenPast
<1>1. job'[q] = job[q] /\ (InsertProofs(q) \/ pc[q] \in {"delete", "fees"})
  BY Arrivals
<1>2. y \in Y
  BY <1>1 DEF Basic, TypeOK, Jobs
<1>3. CASE InsertProofs(q)
  BY <1>1, <1>2, <1>3 DEF InsertProofs, MarkSpent, SpentRow
<1>4. CASE pc[q] \in {"delete", "fees"}
  <2>1. proofs[y].spent \/ y \in recovered
    BY <1>1, <1>4 DEF MarkedWhenPast
  <2> QED
    BY <1>2, <2>1, StepForever, RecoveredGrows
<1> QED
  BY <1>1, <1>3, <1>4

\* A commitment goes when it has expired by the request's clock, or when the swap that
\* redeems it has marked the inputs.
LEMMA StepKept ==
    ASSUME Basic, [Next]_vars, CommitmentsWhole, HandlersAgree, WindowSeen, MarkedWhenPast,
           NEW s \in Sig, commitments[s] # None, commitments'[s] = None
    PROVE  \/ commitments[s].expiration < clock
           \/ \A y \in commitments[s].inputs : proofs[y].spent \/ y \in recovered
<1>1. PICK p \in Proc : HandlerStep(p)
  BY StepKinds, CallsStay, CrashStays DEF store
<1>2. CASE CleanCommitments(p)
  <2>1. commitments[s].expiration < job[p].now
    BY <1>2 DEF CleanCommitments, DeleteCommitments, Expired
  <2>2. job[p].now <= clock
    BY DEF WindowSeen
  <2>3. commitments[s].expiration \in Nat /\ job[p].now \in Nat /\ clock \in Nat
    BY DEF Basic, TypeOK, Commitment, Jobs
  <2> QED
    BY <2>1, <2>2, <2>3
<1>3. CASE DeleteCommitment(p)
  <2>1. s = job[p].sig /\ pc[p] = "delete"
    BY <1>3 DEF DeleteCommitment, DeleteCommitments
  <2>2. commitments[s].inputs = job[p].inputs
    BY <2>1 DEF CommitmentsWhole, HandlersAgree, Agrees, Acknowledged
  <2> QED
    BY <2>1, <2>2 DEF MarkedWhenPast
<1>4. CASE StoreCommitment(p)
  BY <1>4, NoneAssumption
     DEF StoreCommitment, Insertable, Commitment, Basic, TypeOK, Jobs, HandlersInOrder, InOrder
<1> QED
  BY <1>1, <1>2, <1>3, <1>4
     DEF HandlerStep, CommitStep, CommitStart, CheckStart, CleanYs, ReadSpent, ReadReserved,
         ReadCommitted, CheckReply, CommitCheckOutputs, ClowderCommits, SwapStep, SwapStart,
         LoadCommitment, LoadOutputs, SignBlind, SignalSwap, SignalRefused, InsertProofs,
         InsertProofsRefused, StoreFees, Fail, store

\* A commitment in force goes only once its inputs are spent: the cleaning runs with the
\* clock of a request that may have arrived long ago, never with a later one, and the swap
\* that deletes a commitment has redeemed this one.
THEOREM Kept == Spec => CommitmentKept
<1> DEFINE Inv == CommitmentsWhole /\ HandlersAgree /\ WindowSeen /\ MarkedWhenPast
<1>1. Init => Inv
  BY DEF Init, CommitmentsWhole, HandlersAgree, Agrees, WindowSeen, MarkedWhenPast,
     Acknowledged, NoJob, NoRow
<1>2. Basic /\ [Next]_vars /\ Inv => Inv'
  BY StepWhole, StepAgrees, StepWindow, StepMarked
<1>3. Basic /\ Inv /\ [Next]_vars =>
        [\A s \in Sig :
            commitments[s] # None /\ commitments'[s] = None =>
               \/ commitments[s].expiration < clock
               \/ \A y \in commitments[s].inputs : proofs[y].spent \/ y \in recovered]_vars
  BY StepKept
<1>4. Spec => []Basic
  BY TypeCorrect, PTL DEF Basic
<1> QED
  BY <1>1, <1>2, <1>3, <1>4, PTL DEF Spec, CommitmentKept

-----------------------------------------------------------------------------
(* Replies are backed by spent proofs. *)

\* What clowder consumed stays consumed, and a melt takes nothing that was consumed before.
LEMMA StepConsumed ==
    ASSUME [Next]_vars
    PROVE  Consumed \subseteq Consumed' /\ (melted' \ melted) \cap Consumed = {}
<1>1. CASE ClowderMelts
  <2>1. PICK ys \in Melts : ClowderAccepts(ys) /\ melted' = melted \cup ys /\ acked' = acked
    BY <1>1 DEF ClowderMelts
  <2> QED
    BY <2>1 DEF ClowderAccepts, Consumed
<1>2. CASE ~ClowderMelts
  <2>1. melted' = melted /\ acked \subseteq acked'
    BY <1>2 DEF Next, CommitStep, CommitStart, CheckStart, CleanCommitments, CleanYs,
       ReadSpent, ReadReserved, ReadCommitted, CheckReply, CommitCheckOutputs, ClowderCommits,
       StoreCommitment, SwapStep, SwapStart, LoadCommitment, LoadOutputs, SignBlind,
       SignalSwap, SignalRefused, InsertProofs, InsertProofsRefused, DeleteCommitment,
       StoreFees, Fail, Burn, Reserve, Recover, Restore, Tick, Crash, vars, clowder
  <2> QED
    BY <2>1 DEF Consumed
<1> QED
  BY <1>1, <1>2

\* A proof is marked spent by the handler that has it, or by a burn.
LEMMA NewlySpent ==
    ASSUME Basic, [Next]_vars, NEW y \in Y, ~proofs[y].spent, proofs'[y].spent
    PROVE  \/ \E p \in Proc : InsertProofs(p) /\ y \in job[p].inputs
           \/ Burn /\ (AdminBurns = {} => y \in melted)
<1>1. ASSUME NEW D, DeleteCommitments(D) PROVE FALSE
  BY <1>1 DEF DeleteCommitments, NoRow
<1>2. ASSUME NEW p \in Proc, HandlerStep(p) PROVE InsertProofs(p) /\ y \in job[p].inputs
  <2>1. proofs' # proofs
    OBVIOUS
  <2>2. CASE CleanCommitments(p) \/ DeleteCommitment(p)
    BY <1>1, <2>2 DEF CleanCommitments, DeleteCommitment
  <2>3. CASE CleanYs(p)
    BY <2>3 DEF CleanYs, NoRow
  <2>4. CASE StoreCommitment(p)
    BY <2>4 DEF StoreCommitment, CommittedRow
  <2>5. CASE InsertProofs(p)
    BY <2>5 DEF InsertProofs, MarkSpent
  <2> QED
    BY <1>2, <2>1, <2>2, <2>3, <2>4, <2>5
       DEF HandlerStep, CommitStep, CommitStart, CheckStart, ReadSpent, ReadReserved,
           ReadCommitted, CheckReply, CommitCheckOutputs, ClowderCommits, SwapStep, SwapStart,
           LoadCommitment, LoadOutputs, SignBlind, SignalSwap, SignalRefused,
           InsertProofsRefused, StoreFees, Fail, store
<1>3. CASE CallStep
  <2>1. CASE Burn
    <3>1. PICK ys \in {m \in Melts : m \subseteq melted} \cup AdminBurns : MarkSpent(ys)
      BY <2>1 DEF Burn
    <3>2. y \in ys
      BY <3>1 DEF MarkSpent
    <3> QED
      BY <2>1, <3>1, <3>2
  <2>2. CASE Reserve
    BY <2>2 DEF Reserve, ReservedRow
  <2>3. CASE Recover
    BY <2>3 DEF Recover, NoRow
  <2> QED
    BY <1>3, <2>1, <2>2, <2>3 DEF CallStep, ClowderMelts, Restore, Tick, store
<1>4. CASE Crash \/ UNCHANGED vars
  BY <1>4 DEF Crash, vars, store
<1> QED
  BY <1>2, <1>3, <1>4, StepKinds

\* The wallet gets signatures from two steps only.
LEMMA NewlyPaid ==
    ASSUME [Next]_vars, NEW y \in Y, paid'[y] # paid[y]
    PROVE  \E p \in Proc : (InsertProofsRefused(p) \/ StoreFees(p)) /\ y \in job[p].inputs
<1>1. PICK p \in Proc : HandlerStep(p)
  BY StepKinds, CallsStay, CrashStays DEF replies
<1>2. InsertProofsRefused(p) \/ StoreFees(p)
  BY <1>1 DEF HandlerStep, CommitStep, CommitStart, CheckStart, CleanCommitments, CleanYs,
     ReadSpent, ReadReserved, ReadCommitted, CheckReply, CommitCheckOutputs, ClowderCommits,
     StoreCommitment, SwapStep, SwapStart, LoadCommitment, LoadOutputs, SignBlind, SignalSwap,
     SignalRefused, InsertProofs, DeleteCommitment, Fail, replies
<1> QED
  BY <1>2 DEF InsertProofsRefused, StoreFees, Pay

\* Where no operator burns proofs, clowder's ledger rules what is marked, and so what backs
\* a reply.
LEMMA StepBacked ==
    ASSUME Basic, [Next]_vars, ConsumedOnce, InsertedIsSpent, AdminBurns = {}
    PROVE  /\ \A y \in Y : proofs'[y].spent => y \in Consumed'
           /\ \A q \in Proc : pc'[q] = "insert" =>
                 \A y \in job'[q].inputs : ~proofs'[y].spent /\ y \notin melted'
           /\ PaidIsSpent'
<1>1. \A q \in Proc : job[q].inputs \subseteq Y
  BY DEF Basic, TypeOK, Jobs
<1>2. melted \subseteq Consumed
  BY DEF Consumed
<1>3. ASSUME NEW y \in Y, proofs'[y].spent PROVE y \in Consumed'
  <2>1. CASE proofs[y].spent
    BY <2>1, StepConsumed DEF InsertedIsSpent
  <2>2. CASE ~proofs[y].spent
    <3>1. y \in Consumed
      BY <1>2, <1>3, <2>2, NewlySpent DEF ConsumedOnce, InsertProofs, Acknowledged
    <3> QED
      BY <3>1, StepConsumed
  <2> QED
    BY <2>1, <2>2
<1>4. ASSUME NEW q \in Proc, pc'[q] = "insert", NEW y \in job'[q].inputs
      PROVE  ~proofs'[y].spent /\ y \notin melted'
  <2>1. job'[q] = job[q] /\ y \in Y
    BY <1>1, <1>4, Arrivals
  <2>2. CASE SignalSwap(q)
    <3>1. y \notin Consumed
      BY <2>1, <2>2 DEF SignalSwap, ClowderAccepts
    <3>2. UNCHANGED <<proofs, melted>>
      BY <2>2 DEF SignalSwap, store
    <3> QED
      BY <1>2, <2>1, <3>1, <3>2 DEF InsertedIsSpent
  <2>3. CASE pc[q] = "insert"
    <3>1. y \in Consumed /\ ~proofs[y].spent /\ y \notin melted
      BY <2>1, <2>3 DEF ConsumedOnce, Acknowledged, InsertedIsSpent
    <3>2. ASSUME NEW p \in Proc, InsertProofs(p), y \in job[p].inputs PROVE FALSE
      <4>1. p # q
        BY <1>4, <3>2 DEF InsertProofs, Goto, Basic, TypeOK
      <4>2. Acknowledged(p) /\ Acknowledged(q)
        BY <2>3, <3>2 DEF InsertProofs, Acknowledged
      <4> QED
        BY <2>1, <3>2, <4>1, <4>2 DEF ConsumedOnce
    <3> QED
      BY <2>1, <3>1, <3>2, NewlySpent, StepConsumed
  <2> QED
    BY <1>4, <2>2, <2>3, Arrivals
<1>5. ASSUME NEW y \in Y, paid'[y] > 0 PROVE proofs'[y].spent \/ y \in recovered'
  <2>1. CASE paid'[y] = paid[y]
    <3>1. proofs[y].spent \/ y \in recovered
      BY <1>5, <2>1 DEF InsertedIsSpent, PaidIsSpent
    <3> QED
      BY <3>1, StepForever, RecoveredGrows
  <2>2. CASE paid'[y] # paid[y]
    <3>1. PICK p \in Proc : (InsertProofsRefused(p) \/ StoreFees(p)) /\ y \in job[p].inputs
      BY <2>2, NewlyPaid
    <3>2. ~InsertProofsRefused(p)
      BY DEF InsertProofsRefused, NoneSpent, InsertedIsSpent
    <3>3. StoreFees(p)
      BY <3>1, <3>2
    <3>4. proofs[y].spent \/ y \in recovered
      BY <3>1, <3>3 DEF StoreFees, InsertedIsSpent
    <3> QED
      BY <3>3, <3>4 DEF StoreFees, store
  <2> QED
    BY <2>1, <2>2
<1> QED
  BY <1>3, <1>4, <1>5 DEF PaidIsSpent

\* Every step keeps handlers past proofs_insert, and replies, backed by spent proofs.
LEMMA StepInserted ==
    ASSUME Basic, [Next]_vars, ConsumedOnce, InsertedIsSpent
    PROVE  InsertedIsSpent'
<1>1. MarkedWhenPast'
  BY StepMarked DEF MarkedWhenPast, InsertedIsSpent
<1> QED
  BY <1>1, StepBacked DEF MarkedWhenPast, InsertedIsSpent

-----------------------------------------------------------------------------
(* The rows of a commitment, and the instants they are held until. *)

\* Every step keeps the rows of a commitment among its inputs.
LEMMA StepLockedInput ==
    ASSUME Basic, [Next]_vars, CommitmentsWhole, HandlersAgree, LockedIsInput
    PROVE  LockedIsInput'
<1> SUFFICES ASSUME NEW y \in Y, proofs'[y].signature # None
             PROVE  y \in issued'[proofs'[y].signature].inputs
  BY DEF LockedIsInput
<1>1. CASE proofs'[y].signature = proofs[y].signature
  <2>1. proofs[y].signature \in Sig /\ issued[proofs[y].signature] # None
    BY <1>1 DEF CommitmentsWhole, HandlersAgree, Basic, TypeOK, Row
  <2> QED
    BY <1>1, <2>1, IssuedOnce DEF LockedIsInput, Basic
<1>2. CASE proofs'[y].signature # proofs[y].signature
  <2>1. proofs' # proofs
    BY <1>2
  <2>2. ASSUME NEW p \in Proc, HandlerStep(p) PROVE StoreCommitment(p)
    <3>1. ~CleanYs(p) /\ ~CleanCommitments(p) /\ ~DeleteCommitment(p) /\ ~InsertProofs(p)
      BY <1>2 DEF CleanYs, CleanCommitments, DeleteCommitment, DeleteCommitments, InsertProofs,
         MarkSpent, SpentRow, NoRow
    <3> QED
      BY <2>1, <2>2, <3>1
         DEF HandlerStep, CommitStep, CommitStart, CheckStart, ReadSpent, ReadReserved,
             ReadCommitted, CheckReply, CommitCheckOutputs, ClowderCommits, SwapStep, SwapStart,
             LoadCommitment, LoadOutputs, SignBlind, SignalSwap, SignalRefused,
             InsertProofsRefused, StoreFees, Fail, store
  <2>3. ~Crash /\ ~UNCHANGED vars /\ ~CallStep
    <3>1. ~Burn
      BY <1>2 DEF Burn, MarkSpent, SpentRow
    <3>2. ~Reserve
      BY <1>2 DEF Reserve, ReservedRow
    <3>3. ~Recover
      <4> SUFFICES ASSUME NEW ys \in SUBSET Y, Recover!(ys) PROVE FALSE
        BY DEF Recover
      <4>1. proofs'[y] = IF y \in ys THEN NoRow ELSE proofs[y]
        OBVIOUS
      <4> QED
        BY <1>2, <4>1 DEF NoRow
    <3> QED
      BY <2>1, <3>1, <3>2, <3>3 DEF CallStep, ClowderMelts, Restore, Tick, Crash, vars, store
  <2>4. PICK p \in Proc : StoreCommitment(p)
    BY <2>2, <2>3, StepKinds
  <2>5. y \in job[p].inputs /\ proofs'[y].signature = job[p].sig /\ issued' = issued
    BY <1>2, <2>4 DEF StoreCommitment, CommittedRow, clowder
  <2>6. job[p].inputs = issued[job[p].sig].inputs
    BY <2>4 DEF StoreCommitment, HandlersAgree, Agrees
  <2> QED
    BY <2>5, <2>6
<1> QED
  BY <1>1, <1>2

\* Every step keeps the instants within the bounds.
LEMMA StepExpiry ==
    ASSUME Basic, [Next]_vars, ExpiryBounded
    PROVE  ExpiryBounded'
<1>1. clock \in Nat /\ MaxClock \in Nat /\ MaxExpiry \in Nat
  BY ParameterAssumption DEF Basic, TypeOK
<1>2. ASSUME NEW p \in Proc, HandlerStep(p) PROVE ExpiryBounded'
  <2>1. clock' = clock
    BY <1>2 DEF HandlerStep, CommitStep, CommitStart, CheckStart, CleanCommitments, CleanYs,
       ReadSpent, ReadReserved, ReadCommitted, CheckReply, CommitCheckOutputs, ClowderCommits,
       StoreCommitment, SwapStep, SwapStart, LoadCommitment, LoadOutputs, SignBlind,
       SignalSwap, SignalRefused, InsertProofs, InsertProofsRefused, DeleteCommitment,
       StoreFees, Fail
  <2>2. \A q \in Proc : q # p => job'[q] = job[q]
    BY <1>2, OthersStay DEF Basic
  <2>3. job'[p].expiry <= MaxClock + MaxExpiry
    <3> USE DEF Basic, TypeOK
    <3>1. CASE CommitStart(p)
      <4>1. PICK r \in Contents, owner \in Owners : CommitStart(p)!(r, owner)
        BY <3>1 DEF CommitStart
      <4>2. job'[p].expiry = Earlier(r.expiry, clock + MaxExpiry)
        BY <4>1 DEF Begin, NoJob
      <4>3. r.expiry \in Nat
        BY ContentsAssumption
      <4> QED
        BY <1>1, <4>2, <4>3 DEF ExpiryBounded, Earlier
    <3>2. CASE CheckStart(p) \/ SwapStart(p)
      <4>1. job'[p].expiry = 0
        BY <3>2 DEF CheckStart, SwapStart, Begin, NoJob
      <4> QED
        BY <1>1, <4>1
    <3>3. CASE End(p)
      <4>1. job'[p].expiry = 0
        BY <3>3 DEF End, NoJob
      <4> QED
        BY <1>1, <4>1
    <3>4. CASE /\ \/ CommitStep(p) /\ ~CommitStart(p) /\ ~CheckStart(p)
                  \/ SwapStep(p) /\ ~SwapStart(p)
               /\ ~End(p)
      <4>1. job'[p].expiry = job[p].expiry
        BY <3>4 DEF CommitStep, CleanCommitments, CleanYs, ReadSpent, ReadReserved,
           ReadCommitted, CheckReply, CommitCheckOutputs, ClowderCommits, StoreCommitment,
           SwapStep, LoadCommitment, LoadOutputs, SignBlind, SignalSwap, SignalRefused,
           InsertProofs, InsertProofsRefused, DeleteCommitment, StoreFees, Jobs
      <4> QED
        BY <4>1 DEF ExpiryBounded
    <3> QED
      BY <1>2, <3>1, <3>2, <3>3, <3>4 DEF HandlerStep, Fail
  <2> QED
    BY <2>1, <2>2, <2>3 DEF ExpiryBounded
<1>3. CASE Crash
  <2>1. \A p \in Proc : job'[p].expiry = 0
    BY <1>3, CrashStays DEF NoJob
  <2> QED
    BY <1>1, <1>3, <2>1 DEF Crash, ExpiryBounded
<1>4. CASE CallStep \/ UNCHANGED vars
  <2>1. clock' = clock \/ clock' <= MaxClock
    <3>1. CASE Tick
      BY <1>1, <3>1 DEF Tick
    <3> QED
      BY <1>4, <3>1 DEF CallStep, ClowderMelts, Burn, Reserve, Recover, Restore, vars
  <2>2. job' = job
    BY <1>4, CallsStay DEF handlers
  <2> QED
    BY <2>1, <2>2 DEF ExpiryBounded
<1> QED
  BY <1>2, <1>3, <1>4, StepKinds

\* The invariant that the core's theorems rest on holds in every reachable state: each of
\* its parts needs some of the others to be kept by a step.
THEOREM Inductive == Spec => []IndInv
<1>1. Init => IndInv
  BY InitType, ParameterAssumption DEF Init, IndInv, HandlersInOrder, InOrder, LockHolds, AckedIsRestorable,
     ConsumedOnce, NoInputPaysTwice, CommitmentsWhole, HandlersAgree, Agrees,
     AckedAsCommitted, SignedOnce, SignedBy, OutputsAckedOnce, WindowSeen, InsertedIsSpent,
     PaidIsSpent, LockedIsInput, ExpiryBounded, Acknowledged, NoJob, NoRow
<1>2. /\ Basic /\ [Next]_vars /\ IndInv
      => (/\ AckedIsRestorable /\ ConsumedOnce /\ NoInputPaysTwice
          /\ CommitmentsWhole /\ HandlersAgree /\ AckedAsCommitted /\ SignedOnce
          /\ OutputsAckedOnce /\ WindowSeen /\ InsertedIsSpent /\ LockedIsInput /\ ExpiryBounded)'
  BY StepRestorable, StepOnce, StepWhole, StepAgrees, StepAcked, StepSigned, StepWindow,
     StepInserted, StepLockedInput, StepExpiry DEF IndInv, Basic
<1>3. Spec => []Basic
  BY TypeCorrect, PTL DEF Basic
<1>4. Basic' /\ LockHolds'
      /\ (/\ AckedIsRestorable /\ ConsumedOnce /\ NoInputPaysTwice
          /\ CommitmentsWhole /\ HandlersAgree /\ AckedAsCommitted /\ SignedOnce
          /\ OutputsAckedOnce /\ WindowSeen /\ InsertedIsSpent /\ LockedIsInput /\ ExpiryBounded)'
      => IndInv'
  BY DEF IndInv, Basic
<1> QED
  BY <1>1, <1>2, <1>3, <1>4, LocksHold, PTL DEF Spec

\* Where no operator burns proofs, a swap is answered with signatures, and its fees kept,
\* only once every input is marked spent: clowder refuses what it consumed before, so the
\* handler's proofs_insert finds none of its inputs marked and marks them all.
THEOREM PaidForSpent == AdminBurns = {} => (Spec => []PaidIsSpent)
<1> SUFFICES ASSUME AdminBurns = {} PROVE Spec => []PaidIsSpent
  OBVIOUS
<1>1. IndInv => PaidIsSpent
  BY DEF IndInv, InsertedIsSpent
<1> QED
  BY <1>1, Inductive, PTL

-----------------------------------------------------------------------------
(* CoreMint implements ProofLocks. *)

\* The lock of a proof follows from its row, the commitment that holds it, if any, and
\* whether it was recovered.
LEMMA LockFrame ==
    ASSUME NEW y \in Y, proofs'[y] = proofs[y], y \in recovered' <=> y \in recovered,
           proofs[y].signature # None =>
               commitments'[proofs[y].signature] = commitments[proofs[y].signature]
    PROVE  LockOf(y)' = LockOf(y)
BY DEF LockOf

\* A change of the locks is given lock by lock.
LEMMA LockChange ==
    ASSUME NEW ys, NEW l, \A y \in Y : LockOf(y)' = IF y \in ys THEN l ELSE LockOf(y)
    PROVE  Locks!Change(ys, l)
BY DEF Locks!Change

\* A step that moves no row, commitment or instant moves no lock.
LEMMA LocksStay ==
    ASSUME UNCHANGED <<clock, proofs, commitments, recovered>>
    PROVE  UNCHANGED <<clock, [y \in Y |-> LockOf(y)]>>
<1>1. \A y \in Y : LockOf(y)' = LockOf(y)
  BY LockFrame
<1> QED
  BY <1>1

\* commitment_store takes free proofs for the commitment, until it expires.
LEMMA StoreHolds ==
    ASSUME IndInv, NEW p \in Proc, StoreCommitment(p)
    PROVE  Locks!Next \/ UNCHANGED <<clock, [y \in Y |-> LockOf(y)]>>
<1> DEFINE j == job[p]
           ys == j.inputs \ recovered
<1>1. CASE ~Insertable(j)
  BY <1>1, LocksStay DEF StoreCommitment, replies
<1>2. CASE Insertable(j)
  <2>1. j.sig \in Sig /\ j.inputs \subseteq Y /\ j.expiry \in Nat
    BY DEF IndInv, StoreCommitment, HandlersInOrder, InOrder, TypeOK, Jobs
  <2>2. j.expiry \in 0..(MaxClock + MaxExpiry)
    BY <2>1, ParameterAssumption DEF IndInv, ExpiryBounded
  <2>3. /\ \A y \in Y : proofs'[y] = IF y \in j.inputs THEN CommittedRow(j.sig) ELSE proofs[y]
        /\ commitments'[j.sig].expiration = j.expiry
        /\ \A s \in Sig : s # j.sig => commitments'[s] = commitments[s]
        /\ recovered' = recovered /\ clock' = clock
    BY <1>2, <2>1 DEF StoreCommitment, IndInv, TypeOK, replies
  <2>4. \A y \in ys : LockOf(y) = Locks!Free
    BY <1>2, <2>1, NoneAssumption DEF Insertable, Vacant, NoRow, LockOf, Locks!Free
  <2>5. \A y \in ys : LockOf(y)' = Locks!Held(j.sig, j.expiry)
    BY <2>1, <2>3, NoneAssumption DEF CommittedRow, LockOf, Locks!Held
  <2>6. ASSUME NEW y \in Y \ ys PROVE LockOf(y)' = LockOf(y)
    <3>1. CASE y \in recovered
      BY <2>3, <3>1 DEF LockOf
    <3>2. CASE y \notin j.inputs
      <4>1. proofs[y].signature # None =>
               proofs[y].signature \in Sig /\ proofs[y].signature # j.sig
        BY <1>2 DEF Insertable, IndInv, TypeOK, Row, CommitmentsWhole
      <4> QED
        BY <2>3, <3>2, <4>1, LockFrame
    <3> QED
      BY <3>1, <3>2
  <2>7. Locks!Change(ys, Locks!Held(j.sig, j.expiry))
    BY <2>5, <2>6, LockChange
  <2>8. Locks!Hold(ys, j.sig, j.expiry)
    BY <2>1, <2>3, <2>4, <2>7 DEF Locks!Hold
  <2> QED
    BY <2>1, <2>2, <2>8 DEF Locks!Next
<1> QED
  BY <1>1, <1>2

\* Rows that the cleaning removes were held until an instant that has passed.
LEMMA CleanLapses ==
    ASSUME IndInv, NEW p \in Proc, CleanCommitments(p) \/ CleanYs(p)
    PROVE  Locks!Next
<1>1. job[p].now \in Nat /\ job[p].now <= clock /\ clock \in Nat
  BY DEF IndInv, TypeOK, Jobs, WindowSeen
<1>2. recovered' = recovered /\ clock' = clock
  BY DEF CleanCommitments, CleanYs, replies
<1>3. CASE CleanCommitments(p)
  <2> DEFINE D == {s \in Sig : Expired(s, job[p].now)}
             ys == {y \in Y \ recovered : proofs[y].signature \in D}
  <2>1. \A y \in Y : proofs'[y] = IF proofs[y].signature \in D THEN NoRow ELSE proofs[y]
    BY <1>3 DEF CleanCommitments, DeleteCommitments
  <2>2. \A s \in Sig : s \notin D => commitments'[s] = commitments[s]
    BY <1>3 DEF CleanCommitments, DeleteCommitments
  <2>3. ASSUME NEW y \in ys PROVE LockOf(y).state = "held" /\ LockOf(y).until < clock
    <3>1. proofs[y].signature # None /\ ~proofs[y].spent
      BY NoneAssumption DEF IndInv, TypeOK, OneColumn
    <3>2. commitments[proofs[y].signature].expiration < job[p].now
      BY DEF Expired
    <3>3. commitments[proofs[y].signature].expiration \in Nat
      BY DEF Expired, IndInv, TypeOK, Commitment
    <3>4. LockOf(y) = [state |-> "held", by |-> proofs[y].signature,
                       until |-> commitments[proofs[y].signature].expiration]
      BY <3>1 DEF LockOf
    <3> QED
      BY <1>1, <3>2, <3>3, <3>4
  <2>4. \A y \in ys : LockOf(y)' = Locks!Free
    BY <1>2, <2>1 DEF NoRow, LockOf, Locks!Free
  <2>5. ASSUME NEW y \in Y \ ys PROVE LockOf(y)' = LockOf(y)
    <3>1. CASE y \in recovered
      BY <1>2, <3>1 DEF LockOf
    <3>2. CASE proofs[y].signature \notin D
      <4>1. proofs[y].signature # None => proofs[y].signature \in Sig
        BY DEF IndInv, TypeOK, Row
      <4> QED
        BY <1>2, <2>1, <2>2, <3>2, <4>1, LockFrame
    <3> QED
      BY <3>1, <3>2
  <2>6. Locks!Change(ys, Locks!Free)
    BY <2>4, <2>5, LockChange
  <2>7. Locks!Lapse(ys)
    BY <1>2, <2>3, <2>6 DEF Locks!Lapse
  <2> QED
    BY <2>7 DEF Locks!Next
<1>4. CASE CleanYs(p)
  <2> DEFINE ys == {y \in Y \ recovered : /\ proofs[y].deadline # None
                                          /\ proofs[y].deadline < job[p].now}
  <2>1. /\ \A y \in Y : proofs'[y] =
               IF proofs[y].deadline # None /\ proofs[y].deadline < job[p].now
               THEN NoRow ELSE proofs[y]
        /\ commitments' = commitments
    BY <1>4 DEF CleanYs
  <2>2. ASSUME NEW y \in ys PROVE LockOf(y).state = "held" /\ LockOf(y).until < clock
    <3>1. proofs[y].signature = None /\ ~proofs[y].spent /\ proofs[y].deadline \in Nat
      BY DEF IndInv, TypeOK, OneColumn, Row
    <3>2. LockOf(y) = [state |-> "held", by |-> None, until |-> proofs[y].deadline]
      BY <3>1 DEF LockOf
    <3> QED
      BY <1>1, <3>1, <3>2
  <2>3. \A y \in ys : LockOf(y)' = Locks!Free
    BY <1>2, <2>1 DEF NoRow, LockOf, Locks!Free
  <2>4. ASSUME NEW y \in Y \ ys PROVE LockOf(y)' = LockOf(y)
    <3>1. CASE y \in recovered
      BY <1>2, <3>1 DEF LockOf
    <3>2. CASE y \notin recovered
      BY <1>2, <2>1, <3>2, LockFrame
    <3> QED
      BY <3>1, <3>2
  <2>5. Locks!Change(ys, Locks!Free)
    BY <2>3, <2>4, LockChange
  <2>6. Locks!Lapse(ys)
    BY <1>2, <2>2, <2>5 DEF Locks!Lapse
  <2> QED
    BY <2>6 DEF Locks!Next
<1> QED
  BY <1>3, <1>4

\* The swap that deletes its commitment has spent the inputs: no lock moves.
LEMMA DeleteStutters ==
    ASSUME IndInv, NEW p \in Proc, DeleteCommitment(p)
    PROVE  UNCHANGED <<clock, [y \in Y |-> LockOf(y)]>>
<1> DEFINE s == job[p].sig
<1>1. /\ recovered' = recovered /\ clock' = clock
      /\ \A y \in Y : proofs'[y] = IF proofs[y].signature = s THEN NoRow ELSE proofs[y]
      /\ \A t \in Sig : t # s => commitments'[t] = commitments[t]
  BY DEF DeleteCommitment, DeleteCommitments, replies
<1>2. s \in Sig /\ job[p].inputs = issued[s].inputs
  BY DEF DeleteCommitment, IndInv, HandlersInOrder, InOrder, Acknowledged, HandlersAgree, Agrees
<1>3. ASSUME NEW y \in Y PROVE LockOf(y)' = LockOf(y)
  <2>1. CASE proofs[y].signature = s
    <3>1. y \in job[p].inputs /\ ~proofs[y].spent
      BY <1>2, <2>1, NoneAssumption DEF IndInv, LockedIsInput, TypeOK, OneColumn
    <3>2. y \in recovered
      BY <3>1 DEF DeleteCommitment, IndInv, InsertedIsSpent
    <3> QED
      BY <1>1, <3>2 DEF LockOf
  <2>2. CASE proofs[y].signature # s
    <3>1. proofs[y].signature # None => proofs[y].signature \in Sig
      BY DEF IndInv, TypeOK, Row
    <3> QED
      BY <1>1, <2>2, <3>1, LockFrame
  <2> QED
    BY <2>1, <2>2
<1> QED
  BY <1>1, <1>3

\* proofs_insert spends proofs that are free or held; those recovered before stay recovered.
LEMMA MarkSpends ==
    ASSUME IndInv, NEW ys \in SUBSET Y, NoneSpent(ys), MarkSpent(ys),
           UNCHANGED <<clock, commitments, recovered>>
    PROVE  Locks!Next
<1> DEFINE zs == ys \ recovered
<1>1. \A y \in Y : proofs'[y] = IF y \in ys THEN SpentRow(proofs[y]) ELSE proofs[y]
  BY DEF MarkSpent
<1>2. \A y \in zs : LockOf(y).state \in {"free", "held"}
  BY DEF NoneSpent, LockOf
<1>3. \A y \in zs : LockOf(y)' = Locks!Spent
  BY <1>1 DEF SpentRow, LockOf, Locks!Spent
<1>4. ASSUME NEW y \in Y \ zs PROVE LockOf(y)' = LockOf(y)
  <2>1. CASE y \in recovered
    BY <2>1 DEF LockOf
  <2>2. CASE y \notin ys
    BY <1>1, <2>2, LockFrame
  <2> QED
    BY <2>1, <2>2
<1>5. Locks!Spend(zs)
  BY <1>2, <1>3, <1>4, LockChange DEF Locks!Spend
<1> QED
  BY <1>5 DEF Locks!Next

\* Each call of others is one step of ProofLocks, or none.
LEMMA CallLocks ==
    ASSUME IndInv, CallStep
    PROVE  Locks!Next \/ UNCHANGED <<clock, [y \in Y |-> LockOf(y)]>>
<1>1. CASE Burn
  <2>1. PICK ys \in {m \in Melts : m \subseteq melted} \cup AdminBurns : Burn!(ys)
    BY <1>1 DEF Burn
  <2> QED
    BY <2>1, MarkSpends, ParameterAssumption DEF replies
<1>2. CASE Reserve
  <2>1. PICK ys \in Melts, deadline \in clock..MaxClock : Reserve!(ys, deadline)
    BY <1>2 DEF Reserve
  <2> DEFINE zs == ys \ recovered
  <2>2. deadline \in Nat /\ deadline \in 0..(MaxClock + MaxExpiry) /\ zs \in SUBSET Y
    BY ParameterAssumption DEF IndInv, TypeOK
  <2>3. /\ \A y \in Y : proofs'[y] = IF y \in ys THEN ReservedRow(deadline) ELSE proofs[y]
        /\ UNCHANGED <<clock, commitments, recovered>>
    BY <2>1 DEF replies
  <2>4. \A y \in zs : LockOf(y) = Locks!Free
    BY <2>1 DEF Reservable, Vacant, NoRow, LockOf, Locks!Free
  <2>5. \A y \in zs : LockOf(y)' = Locks!Held(None, deadline)
    BY <2>2, <2>3, NoneAssumption DEF ReservedRow, LockOf, Locks!Held
  <2>6. ASSUME NEW y \in Y \ zs PROVE LockOf(y)' = LockOf(y)
    <3>1. CASE y \in recovered
      BY <2>3, <3>1 DEF LockOf
    <3>2. CASE y \notin ys
      BY <2>3, <3>2, LockFrame
    <3> QED
      BY <3>1, <3>2
  <2>7. Locks!Change(zs, Locks!Held(None, deadline))
    BY <2>5, <2>6, LockChange
  <2>8. Locks!Hold(zs, None, deadline)
    BY <2>2, <2>3, <2>4, <2>7 DEF Locks!Hold
  <2> QED
    BY <2>2, <2>8 DEF Locks!Next
<1>3. CASE Recover
  <2>1. PICK ys \in SUBSET Y : Recover!(ys)
    BY <1>3 DEF Recover
  <2>2. \A y \in ys : LockOf(y) \in {Locks!Spent, Locks!Recovered}
    BY <2>1 DEF LockOf, Locks!Spent, Locks!Recovered
  <2>3. \A y \in ys : LockOf(y)' = Locks!Recovered
    BY <2>1 DEF LockOf, Locks!Recovered
  <2>4. \A y \in Y \ ys : LockOf(y)' = LockOf(y)
    BY <2>1, LockFrame
  <2>5. Locks!Change(ys, Locks!Recovered)
    BY <2>3, <2>4, LockChange
  <2>6. Locks!Forget(ys)
    BY <2>1, <2>2, <2>5 DEF Locks!Forget
  <2> QED
    BY <2>6 DEF Locks!Next
<1>4. CASE Tick
  <2>1. \A y \in Y : LockOf(y)' = LockOf(y)
    BY <1>4, LockFrame DEF Tick, store, replies
  <2>2. clock' \in clock..(MaxClock + MaxExpiry)
    BY <1>4, ParameterAssumption DEF Tick, IndInv, TypeOK
  <2> QED
    BY <2>1, <2>2 DEF Locks!Next, Locks!Tick
<1> QED
  BY <1>1, <1>2, <1>3, <1>4, LocksStay DEF CallStep, ClowderMelts, Restore, store, replies

\* Every step is one of ProofLocks, or moves no lock.
LEMMA StepLocks ==
    ASSUME IndInv, [Next]_vars
    PROVE  [Locks!Next]_<<clock, [y \in Y |-> LockOf(y)]>>
<1>1. ASSUME NEW p \in Proc, HandlerStep(p)
      PROVE  Locks!Next \/ UNCHANGED <<clock, [y \in Y |-> LockOf(y)]>>
  <2>1. CASE InsertProofs(p)
    BY <2>1, MarkSpends DEF InsertProofs, IndInv, TypeOK, Jobs, replies
  <2> QED
    BY <1>1, <2>1, StoreHolds, CleanLapses, DeleteStutters, LocksStay
       DEF HandlerStep, CommitStep, CommitStart, CheckStart, ReadSpent, ReadReserved,
           ReadCommitted, CheckReply, CommitCheckOutputs, ClowderCommits, SwapStep, SwapStart,
           LoadCommitment, LoadOutputs, SignBlind, SignalSwap, SignalRefused,
           InsertProofsRefused, StoreFees, Fail, store, replies
<1>2. CASE Crash \/ UNCHANGED vars
  BY <1>2, LocksStay DEF Crash, vars, store, replies
<1> QED
  BY <1>1, <1>2, CallLocks, StepKinds

\* CoreMint implements ProofLocks: whatever handlers do in between, each proof is free, held
\* by one holder until an instant that nobody cuts short but by spending it, or spent.
THEOREM Refinement == Spec => ImplementsLocks
<1>1. Init => Locks!Init
  <2>1. Init => \A y \in Y : LockOf(y) = Locks!Free
    BY DEF Init, NoRow, LockOf, Locks!Free
  <2> QED
    BY <2>1 DEF Init, Locks!Init
<1>2. IndInv /\ [Next]_vars => [Locks!Next]_<<clock, [y \in Y |-> LockOf(y)]>>
  BY StepLocks
<1> QED
  BY <1>1, <1>2, Inductive, PTL DEF Spec, ImplementsLocks, Locks!Spec
=============================================================================
