-------------------------- MODULE CoreTablesProofs --------------------------
(* Theorems about CoreTables, for any proofs, outputs, signatures, requests and *)
(* bounds.                                                                      *)
EXTENDS CoreTables, TLAPS

\* One step of a request in flight.
RequestStep(p) ==
    \/ CommitStart(p) \/ ClowderCommits(p) \/ StoreCommitment(p)
    \/ SwapStart(p) \/ SignBlind(p) \/ SignalSwap(p) \/ InsertProofs(p)
    \/ DeleteCommitment(p) \/ Fail(p)

\* One call of the treasury, of an operator or of clowder.
CallStep == NewKeyset \/ Reserve \/ ClowderMelts \/ Burn \/ Recover

\* One step of the programs as a whole, or of time.
ProgramStep ==
    \/ Stop \/ Start \/ Dump \/ CopyKeyset \/ CopiedKeysets \/ CopySignature
    \/ CopiedSignatures \/ CopyProofs \/ Restart \/ Tick

-----------------------------------------------------------------------------
(* Type correctness. *)

\* A request that ends leaves its slot well-typed.
LEMMA EndType ==
    ASSUME TypeOK, NEW p \in Proc, End(p)
    PROVE  pc' \in [Proc -> PCs] /\ job' \in [Proc -> Job]
<1>1. NoJob \in Job
  BY DEF NoJob, Job
<1> QED
  BY <1>1 DEF TypeOK, End, Goto, PCs

\* Each step of a request keeps the types.
LEMMA RequestType ==
    ASSUME TypeOK, NEW p \in Proc, RequestStep(p)
    PROVE  TypeOK'
<1> USE DEF TypeOK
<1>1. CASE CommitStart(p)
  <2>1. PICK r \in Contents : CommitStart(p)!(r)
    BY <1>1 DEF CommitStart
  <2> DEFINE until == IF r.expiry <= clock + MaxExpiry THEN r.expiry ELSE clock + MaxExpiry
             asked == [NoJob EXCEPT !.inputs = r.inputs, !.outputs = r.outputs,
                                    !.expiration = until]
  <2>2. until \in Nat
    BY ContentsAssumption, ParameterAssumption
  <2>3. asked \in Job
    BY <2>2, ContentsAssumption DEF NoJob, Job
  <2>4. /\ pc' = [pc EXCEPT ![p] = "clowder"] /\ job' = [job EXCEPT ![p] = asked]
        \/ UNCHANGED handlers
    BY <2>1 DEF Goto
  <2>5. pc' \in [Proc -> PCs] /\ job' \in [Proc -> Job]
    BY <2>3, <2>4 DEF handlers, PCs
  <2>6. commitments' \subseteq commitments /\ reserved' \subseteq reserved
    BY <2>1
  <2> QED
    BY <2>1, <2>5, <2>6 DEF clowder, history, migration
<1>2. CASE ClowderCommits(p)
  <2>1. PICK s \in Sig : ClowderCommits(p)!(s)
    BY <1>2 DEF ClowderCommits
  <2>2. job' \in [Proc -> Job] /\ pc' \in [Proc -> PCs]
    BY <2>1 DEF Goto, PCs, Job
  <2>3. issued' \subseteq Commitment
    BY <2>1 DEF Commitment, Job
  <2> QED
    BY <2>1, <2>2, <2>3 DEF tables, history, migration
<1>3. CASE StoreCommitment(p)
  <2>1. PICK s \in job[p].sigs : StoreCommitment(p)!(s)
    BY <1>3 DEF StoreCommitment
  <2>2. s \in Sig
    BY DEF Job
  <2>3. commitments' \subseteq Commitment
    BY <2>1, <2>2 DEF Commitment, Job
  <2> QED
    BY <2>1, <2>3, EndType DEF clowder, history, migration
<1>4. CASE SwapStart(p)
  <2>1. PICK c \in commitments : SwapStart(p)!(c)
    BY <1>4 DEF SwapStart
  <2>2. job' \in [Proc -> Job] /\ pc' \in [Proc -> PCs]
    BY <2>1 DEF Goto, PCs, Job, Commitment
  <2> QED
    BY <2>1, <2>2 DEF tables, clowder, history, migration
<1>5. CASE SignBlind(p)
  <2>1. PICK b \in job[p].todo : SignBlind(p)!(b)
    BY <1>5 DEF SignBlind
  <2>2. b \in B
    BY DEF Job
  <2>3. [job[p] EXCEPT !.todo = @ \ {b}] \in Job
    BY DEF Job
  <2>4. pc' \in [Proc -> PCs] /\ job' \in [Proc -> Job] /\ signed' \subseteq B
    BY <2>1, <2>2, <2>3, EndType
  <2> QED
    BY <2>1, <2>4 DEF clowder, history, migration
<1>6. CASE SignalSwap(p)
  <2>1. pc' \in [Proc -> PCs] /\ job' \in [Proc -> Job]
    BY <1>6, EndType DEF SignalSwap, Goto, PCs
  <2>2. consumed' \subseteq Y /\ acked' \subseteq B
    BY <1>6 DEF SignalSwap, Job
  <2> QED
    BY <1>6, <2>1, <2>2 DEF SignalSwap, tables, history, migration
<1>7. CASE InsertProofs(p)
  <2>1. pc' \in [Proc -> PCs] /\ job' \in [Proc -> Job]
    BY <1>7, EndType DEF InsertProofs, Goto, PCs
  <2>2. spent' \subseteq Y /\ paid' \in [Y -> Nat]
    BY <1>7 DEF InsertProofs, Pay, Job
  <2> QED
    BY <1>7, <2>1, <2>2 DEF InsertProofs, clowder, migration
<1>8. CASE DeleteCommitment(p)
  <2>1. paid' \in [Y -> Nat] /\ commitments' \subseteq Commitment
    BY <1>8 DEF DeleteCommitment, Pay
  <2> QED
    BY <1>8, <2>1, EndType DEF DeleteCommitment, clowder, migration
<1>9. CASE Fail(p)
  BY <1>9, EndType DEF Fail, tables, clowder, history, migration
<1> QED
  BY <1>1, <1>2, <1>3, <1>4, <1>5, <1>6, <1>7, <1>8, <1>9 DEF RequestStep

\* Each other step keeps the types.
LEMMA OtherType ==
    ASSUME TypeOK, CallStep \/ ProgramStep \/ UNCHANGED vars
    PROVE  TypeOK'
<1> USE DEF TypeOK
<1>1. CASE Reserve
  <2>1. PICK ys \in Melts, deadline \in clock..MaxClock : Reserve!(ys, deadline)
    BY <1>1 DEF Reserve
  <2>2. reserved' \subseteq [y: Y, deadline: Nat]
    BY <2>1, ParameterAssumption DEF Reservation
  <2> QED
    BY <2>1, <2>2 DEF handlers, clowder, history, migration
<1>2. CASE ClowderMelts
  BY <1>2, ParameterAssumption DEF ClowderMelts, tables, handlers, history, migration
<1>3. CASE Burn
  BY <1>3, ParameterAssumption DEF Burn, handlers, clowder, history, migration
<1>4. CASE Recover
  BY <1>4 DEF Recover, handlers, clowder, migration
<1>5. CASE Stop
  <2>1. NoJob \in Job
    BY DEF NoJob, Job
  <2> QED
    BY <1>5, <2>1 DEF Stop, tables, clowder, PCs
<1>6. CASE NewKeyset
  BY <1>6 DEF NewKeyset, handlers, clowder, history, migration
<1>7. CASE Start \/ Restart
  <2>1. phase' = "serving" /\ UNCHANGED <<rest, copied, skipped>> /\ phase # "keys"
        /\ stops' \in Nat
    BY <1>7 DEF Start, Restart, history
  <2> QED
    BY <1>7, <2>1 DEF Start, Restart, tables, handlers, clowder, history
<1>8. CASE CopyProofs
  BY <1>8 DEF CopyProofs, tables, handlers, clowder, history
<1>9. CASE Dump \/ CopiedKeysets \/ CopiedSignatures
  BY <1>9 DEF Dump, NoneSkipped, CopiedKeysets, CopiedSignatures, tables, handlers, clowder,
              history
<1>12. CASE CopyKeyset
  <2>1. PICK k \in rest : CopyKeyset!(k)
    BY <1>12 DEF CopyKeyset
  <2>2. copied' \in [keys: SUBSET Kid, signatures: SUBSET B, proofs: SUBSET Y]
        /\ skipped' \in [keys: SUBSET Kid, signatures: SUBSET B]
    BY <2>1
  <2> QED
    BY <2>1, <2>2 DEF RestAfter, tables, handlers, clowder, history
<1>13. CASE CopySignature
  <2>1. PICK b \in rest : CopySignature!(b)
    BY <1>13 DEF CopySignature
  <2>2. copied' \in [keys: SUBSET Kid, signatures: SUBSET B, proofs: SUBSET Y]
        /\ skipped' \in [keys: SUBSET Kid, signatures: SUBSET B]
    BY <2>1
  <2> QED
    BY <2>1, <2>2 DEF RestAfter, tables, handlers, clowder, history
<1>10. CASE Tick
  BY <1>10 DEF Tick, tables, handlers, clowder, history, migration
<1>11. CASE UNCHANGED vars
  BY <1>11 DEF vars, tables, handlers, clowder, history, migration
<1> QED
  BY <1>1, <1>2, <1>3, <1>4, <1>5, <1>6, <1>7, <1>8, <1>9, <1>10, <1>11, <1>12, <1>13
  DEF CallStep, ProgramStep

\* The steps, by who takes them.
LEMMA Steps ==
    [Next]_vars => \/ \E p \in Proc : RequestStep(p)
                   \/ CallStep \/ ProgramStep \/ UNCHANGED vars
BY Zenon DEF Next, RequestStep, CallStep, ProgramStep

\* Every reachable state is well-typed, whatever requests, programs and clowder do.
THEOREM TypeCorrect == Spec => []TypeOK
<1>1. Init => TypeOK
  <2>1. NoJob \in Job
    BY DEF NoJob, Job
  <2> QED
    BY <2>1 DEF Init, NoneSkipped, TypeOK, PCs
<1>2. TypeOK /\ [Next]_vars => TypeOK'
  BY Steps, RequestType, OtherType
<1> QED
  BY <1>1, <1>2, PTL DEF Spec

-----------------------------------------------------------------------------
(* Exclusive commitments. *)

\* Each step of a request leaves the stored commitments disjoint.
LEMMA RequestHeld ==
    ASSUME HeldOnce, NEW p \in Proc, RequestStep(p)
    PROVE  HeldOnce'
<1>1. CASE CommitStart(p) \/ DeleteCommitment(p)
  <2>1. commitments' \subseteq commitments
    BY <1>1 DEF CommitStart, DeleteCommitment
  <2> QED
    BY <2>1 DEF HeldOnce
<1>2. CASE StoreCommitment(p)
  <2>1. PICK s \in job[p].sigs : StoreCommitment(p)!(s)
    BY <1>2 DEF StoreCommitment
  <2> DEFINE c == [sig |-> s, inputs |-> job[p].inputs, outputs |-> job[p].outputs,
                   expiration |-> job[p].expiration]
  <2>2. CASE Insertable(c)
    <3>1. commitments' = commitments \cup {c}
      BY <2>1, <2>2
    <3>2. \A d \in commitments :
             d.sig # c.sig /\ d.inputs \cap c.inputs = {} /\ d.outputs \cap c.outputs = {}
      BY <2>2 DEF Insertable
    <3> HIDE DEF c
    <3> QED
      BY <3>1, <3>2 DEF HeldOnce
  <2>3. CASE ~Insertable(c)
    BY <2>1, <2>3 DEF HeldOnce
  <2> QED
    BY <2>2, <2>3
<1>3. CASE ClowderCommits(p) \/ SwapStart(p) \/ SignBlind(p) \/ SignalSwap(p) \/ InsertProofs(p)
           \/ Fail(p)
  <2>1. UNCHANGED commitments
    BY <1>3 DEF ClowderCommits, SwapStart, SignBlind, SignalSwap, InsertProofs, Fail, tables
  <2> QED
    BY <2>1 DEF HeldOnce
<1> QED
  BY <1>1, <1>2, <1>3 DEF RequestStep

\* No other step writes to the table of commitments.
LEMMA OtherHeld ==
    ASSUME HeldOnce, CallStep \/ ProgramStep \/ UNCHANGED vars
    PROVE  HeldOnce'
<1>1. UNCHANGED commitments
  <2>1. CASE CallStep
    BY <2>1 DEF CallStep, NewKeyset, Reserve, ClowderMelts, Burn, Recover, tables
  <2>2. CASE ProgramStep
    BY <2>2 DEF ProgramStep, Stop, Start, Dump, CopyKeyset, CopiedKeysets, CopySignature, CopiedSignatures, CopyProofs,
                Restart, Tick, tables
  <2>3. CASE UNCHANGED vars
    BY <2>3 DEF vars, tables
  <2> QED
    BY <2>1, <2>2, <2>3
<1> QED
  BY <1>1 DEF HeldOnce

\* Two stored commitments never share an input, an output or a signature: the transaction
\* of commitment_store keeps them apart for any number of commits in flight.
THEOREM Exclusive == Spec => []HeldOnce
<1>1. Init => HeldOnce
  BY DEF Init, HeldOnce
<1>2. HeldOnce /\ [Next]_vars => HeldOnce'
  BY Steps, RequestHeld, OtherHeld
<1> QED
  BY <1>1, <1>2, PTL DEF Spec

-----------------------------------------------------------------------------
(* The migration. *)

\* While requests are in flight the service is up, so nothing is being migrated.
LEMMA RequestSigned ==
    ASSUME TypeOK, SignedFirst, CopiedSoFar, NEW p \in Proc, RequestStep(p)
    PROVE  SignedFirst' /\ CopiedSoFar'
<1> USE DEF TypeOK
<1>0. phase = "serving" /\ UNCHANGED phase
  BY DEF RequestStep, CommitStart, ClowderCommits, StoreCommitment, SwapStart, SignBlind,
         SignalSwap, InsertProofs, DeleteCommitment, Fail, Serving, migration
<1>1. CopiedSoFar'
  BY <1>0 DEF CopiedSoFar
<1>2. SignedFirst'
  <2>1. CASE SignBlind(p)
    <3>1. PICK b \in job[p].todo : SignBlind(p)!(b)
      BY <2>1 DEF SignBlind
    <3>2. CASE b \in signed
      BY <3>1, <3>2 DEF SignedFirst, End, Goto, PCs, clowder
    <3>3. CASE b \notin signed
      <4>1. signed' = signed \cup {b} /\ UNCHANGED <<pc, acked>>
            /\ job' = [job EXCEPT ![p].todo = job[p].todo \ {b}]
        BY <3>1, <3>3 DEF clowder
      <4>2. \A q \in Proc : /\ job'[q].outputs = job[q].outputs
                            /\ q # p => job'[q].todo = job[q].todo
                            /\ q = p => job'[q].todo = job[q].todo \ {b}
        BY <4>1 DEF Job
      <4> QED
        BY <4>1, <4>2 DEF SignedFirst
    <3> QED
      BY <3>2, <3>3
  <2>2. CASE SignalSwap(p)
    <3>1. acked' = acked \cup job[p].outputs /\ UNCHANGED signed
          /\ pc[p] = "sign" /\ job[p].todo = {}
      BY <2>2 DEF SignalSwap, tables, Serving
    <3>2. \A q \in Proc : pc'[q] = "sign" => pc[q] = "sign" /\ job'[q] = job[q]
      BY <2>2 DEF SignalSwap, End, Goto, PCs
    <3> QED
      BY <3>1, <3>2 DEF SignedFirst
  <2>3. CASE SwapStart(p)
    <3>1. PICK c \in commitments : SwapStart(p)!(c)
      BY <2>3 DEF SwapStart
    <3>2. \A q \in Proc : q # p => pc'[q] = pc[q] /\ job'[q] = job[q]
      BY <3>1 DEF Goto
    <3>3. job'[p].outputs = job'[p].todo
      BY <3>1
    <3> QED
      BY <3>1, <3>2, <3>3 DEF SignedFirst, tables, clowder
  <2>4. CASE \/ CommitStart(p) \/ ClowderCommits(p) \/ StoreCommitment(p) \/ InsertProofs(p)
             \/ DeleteCommitment(p) \/ Fail(p)
    <3>1. UNCHANGED <<signed, acked>>
      BY <2>4 DEF CommitStart, ClowderCommits, StoreCommitment, InsertProofs,
                  DeleteCommitment, Fail, tables, clowder
    <3>2. \A q \in Proc : pc'[q] = "sign" => pc[q] = "sign" /\ job'[q] = job[q]
      BY <2>4 DEF CommitStart, ClowderCommits, StoreCommitment, InsertProofs,
                  DeleteCommitment, Fail, End, Goto, PCs, handlers
    <3> QED
      BY <3>1, <3>2 DEF SignedFirst
  <2> QED
    BY <2>1, <2>2, <2>3, <2>4 DEF RequestStep
<1> QED
  BY <1>1, <1>2

\* Each other step: proofs are burnt and recovered only while the service is up, and each
\* stage of the migration ends with its table copied.
LEMMA OtherSigned ==
    ASSUME TypeOK, SignedFirst, CopiedSoFar, CallStep \/ ProgramStep \/ UNCHANGED vars
    PROVE  SignedFirst' /\ CopiedSoFar'
<1> USE DEF TypeOK
<1>1. SignedFirst'
  <2>1. UNCHANGED <<signed, acked>>
    BY DEF CallStep, ProgramStep, NewKeyset, Reserve, ClowderMelts, Burn, Recover, Stop, Start, Dump,
           CopyKeyset, CopiedKeysets, CopySignature, CopiedSignatures, CopyProofs, Restart, Tick, vars, tables, clowder
  <2>2. CASE Stop
    BY <2>1, <2>2 DEF SignedFirst, Stop
  <2>3. CASE ~Stop
    <3>1. UNCHANGED <<pc, job>>
      BY <2>3 DEF CallStep, ProgramStep, NewKeyset, Reserve, ClowderMelts, Burn, Recover, Start, Dump,
           CopyKeyset, CopiedKeysets, CopySignature, CopiedSignatures, CopyProofs, Restart, Tick, vars, handlers
    <3> QED
      BY <2>1, <3>1 DEF SignedFirst
  <2> QED
    BY <2>2, <2>3
<1>2. CASE Reserve \/ ClowderMelts \/ Tick \/ UNCHANGED vars
  <2>1. UNCHANGED <<phase, rest, copied, skipped, keys, spent, signed>>
    BY <1>2 DEF Reserve, ClowderMelts, Tick, vars, migration, tables
  <2> QED
    BY <1>1, <2>1 DEF CopiedSoFar
<1>3. CASE NewKeyset \/ Burn \/ Recover
  <2>1. phase = "serving" /\ UNCHANGED phase
    BY <1>3 DEF NewKeyset, Burn, Recover, migration
  <2> QED
    BY <1>1, <2>1 DEF CopiedSoFar
<1>4. CASE Stop \/ Start \/ Restart
  <2>1. phase' \in {"serving", "stopped"}
    BY <1>4 DEF Stop, Start, Restart
  <2> QED
    BY <1>1, <2>1 DEF CopiedSoFar
<1>5. CASE Dump \/ CopiedKeysets \/ CopiedSignatures
  BY <1>1, <1>5 DEF Dump, CopiedKeysets, CopiedSignatures, CopiedSoFar, tables
<1>8. CASE CopyKeyset
  <2>1. PICK k \in rest : CopyKeyset!(k)
    BY <1>8 DEF CopyKeyset
  <2>2. /\ rest' = rest \ {k}
        /\ copied'.keys \cup skipped'.keys = copied.keys \cup skipped.keys \cup {k}
    BY <2>1 DEF RestAfter
  <2> QED
    BY <1>1, <2>1, <2>2 DEF CopiedSoFar, tables
<1>6. CASE CopySignature
  <2>1. PICK b \in rest : CopySignature!(b)
    BY <1>6 DEF CopySignature
  <2>2. /\ rest' = rest \ {b}
        /\ copied'.signatures \cup skipped'.signatures
              = copied.signatures \cup skipped.signatures \cup {b}
        /\ copied'.keys = copied.keys /\ skipped'.keys = skipped.keys
    BY <2>1 DEF RestAfter
  <2> QED
    BY <1>1, <2>1, <2>2 DEF CopiedSoFar, tables
<1>7. CASE CopyProofs
  <2>1. CASE ~Spent(copied.proofs)
    <3>1. /\ copied'.proofs = copied.proofs \cup spent
          /\ copied'.signatures = copied.signatures /\ copied'.keys = copied.keys
          /\ skipped' = skipped
      BY <1>7, <2>1 DEF CopyProofs
    <3> QED
      BY <1>1, <1>7, <2>1, <3>1 DEF CopyProofs, CopiedSoFar, tables
  <2>2. CASE Spent(copied.proofs)
    BY <1>1, <1>7, <2>2 DEF CopyProofs, CopiedSoFar
  <2> QED
    BY <2>1, <2>2
<1> QED
  BY <1>1, <1>2, <1>3, <1>4, <1>5, <1>6, <1>7, <1>8 DEF CallStep, ProgramStep

\* Each step of a request signs with keysets that its commitment was checked against.
LEMMA RequestKeys ==
    ASSUME TypeOK, SignedWithKeys, NEW p \in Proc, RequestStep(p)
    PROVE  SignedWithKeys'
<1> USE DEF TypeOK
<1>0. keys' = keys
  BY DEF RequestStep, CommitStart, ClowderCommits, StoreCommitment, SwapStart, SignBlind,
         SignalSwap, InsertProofs, DeleteCommitment, Fail, tables
<1>1. \A bs : Known(bs)' <=> Known(bs)
  BY <1>0 DEF Known
<1>2. \A q \in Proc : q # p => job'[q] = job[q]
  BY DEF RequestStep, CommitStart, ClowderCommits, StoreCommitment, SwapStart, SignBlind,
         SignalSwap, InsertProofs, DeleteCommitment, Fail, End, handlers
<1>3. Known(job'[p].outputs) /\ Known(job'[p].todo)
  <2>1. NoJob.outputs = {} /\ NoJob.todo = {} /\ Known({})
    BY DEF NoJob, Known
  <2>2. CASE CommitStart(p)
    <3>1. PICK r \in Contents : CommitStart(p)!(r)
      BY <2>2 DEF CommitStart
    <3>2. \/ job'[p].outputs = r.outputs /\ job'[p].todo = {}
          \/ UNCHANGED job
      BY <3>1 DEF handlers, NoJob
    <3> QED
      BY <2>1, <3>1, <3>2 DEF SignedWithKeys
  <2>3. CASE SwapStart(p)
    <3>1. PICK c \in commitments : SwapStart(p)!(c)
      BY <2>3 DEF SwapStart
    <3>2. job'[p].outputs = c.outputs /\ job'[p].todo = c.outputs
      BY <3>1
    <3> QED
      BY <3>2 DEF SignedWithKeys
  <2>4. CASE \/ ClowderCommits(p) \/ StoreCommitment(p) \/ SignBlind(p) \/ SignalSwap(p)
             \/ InsertProofs(p) \/ DeleteCommitment(p) \/ Fail(p)
    <3>1. \/ job'[p] = NoJob
          \/ job'[p].outputs = job[p].outputs /\ job'[p].todo \subseteq job[p].todo
      <4>1. CASE ClowderCommits(p)
        <5>1. PICK s \in Sig : ClowderCommits(p)!(s)
          BY <4>1 DEF ClowderCommits
        <5>2. job'[p] = [job[p] EXCEPT !.sigs = {s}]
          BY <5>1
        <5> QED
          BY <5>2 DEF Job
      <4>2. CASE SignBlind(p)
        <5>1. PICK b \in job[p].todo : SignBlind(p)!(b)
          BY <4>2 DEF SignBlind
        <5>2. job'[p] = [job[p] EXCEPT !.todo = job[p].todo \ {b}] \/ job'[p] = NoJob
          BY <5>1 DEF End
        <5> QED
          BY <5>2 DEF Job
      <4>3. CASE \/ StoreCommitment(p) \/ SignalSwap(p) \/ InsertProofs(p)
                 \/ DeleteCommitment(p) \/ Fail(p)
        BY <4>3 DEF StoreCommitment, SignalSwap, InsertProofs, DeleteCommitment, Fail, End
      <4> QED
        BY <2>4, <4>1, <4>2, <4>3
    <3> QED
      BY <2>1, <3>1 DEF SignedWithKeys, Known
  <2> QED
    BY <2>2, <2>3, <2>4 DEF RequestStep
<1>4. \A c \in commitments' : c \in commitments \/ c.outputs = job[p].outputs
  <2>1. CASE StoreCommitment(p)
    BY <2>1 DEF StoreCommitment
  <2>2. CASE ~StoreCommitment(p)
    <3>1. commitments' \subseteq commitments
      BY <2>2 DEF RequestStep, CommitStart, ClowderCommits, SwapStart, SignBlind, SignalSwap,
                  InsertProofs, DeleteCommitment, Fail, tables
    <3> QED
      BY <3>1
  <2> QED
    BY <2>1, <2>2
<1>5. signed' \subseteq signed \cup job[p].todo
  BY DEF RequestStep, CommitStart, ClowderCommits, StoreCommitment, SwapStart, SignBlind,
         SignalSwap, InsertProofs, DeleteCommitment, Fail, tables
<1> QED
  BY <1>1, <1>2, <1>3, <1>4, <1>5 DEF SignedWithKeys, Known

\* No other step removes a keyset, or adds a signature or a commitment.
LEMMA OtherKeys ==
    ASSUME SignedWithKeys, CallStep \/ ProgramStep \/ UNCHANGED vars
    PROVE  SignedWithKeys'
<1>1. keys \subseteq keys' /\ UNCHANGED <<signed, commitments>>
  BY DEF CallStep, ProgramStep, NewKeyset, Reserve, ClowderMelts, Burn, Recover, Stop, Start,
     Dump, CopyKeyset, CopiedKeysets, CopySignature, CopiedSignatures, CopyProofs, Restart,
     Tick, vars, tables
<1>2. \A p \in Proc : job'[p] = job[p] \/ job'[p] = NoJob
  BY DEF CallStep, ProgramStep, NewKeyset, Reserve, ClowderMelts, Burn, Recover, Stop, Start,
     Dump, CopyKeyset, CopiedKeysets, CopySignature, CopiedSignatures, CopyProofs, Restart,
     Tick, vars, handlers
<1>3. \A bs : Known(bs) => Known(bs)'
  BY <1>1 DEF Known
<1>4. Known(NoJob.outputs)' /\ Known(NoJob.todo)'
  BY DEF Known, NoJob
<1> QED
  BY <1>1, <1>2, <1>3, <1>4 DEF SignedWithKeys

\* A migration that ends well lacks only rows that it named as skipped, however often it was
\* broken off before and whatever failed then.
THEOREM MigrationAccounts == Spec => []GapsAreNamed
<1> DEFINE Inv == SignedFirst /\ SignedWithKeys /\ CopiedSoFar
<1>1. Init => Inv
  BY DEF Init, SignedFirst, SignedWithKeys, Known, NoJob, CopiedSoFar
<1>2. TypeOK /\ Inv /\ [Next]_vars => Inv'
  BY Steps, RequestSigned, OtherSigned, RequestKeys, OtherKeys
<1>3. Inv => GapsAreNamed
  <2>1. SignedWithKeys => \A b \in signed : KeysetOf[b] \in keys
    BY DEF SignedWithKeys, Known
  <2> QED
    BY <2>1 DEF SignedFirst, CopiedSoFar, GapsAreNamed
<1> HIDE DEF Inv
<1> QED
  BY <1>1, <1>2, <1>3, TypeCorrect, PTL DEF Spec

-----------------------------------------------------------------------------
(* Payments. *)

\* A step that pays for nothing and puts no proof in the hands of a request.
LEMMA OnceFrame ==
    ASSUME ConsumedOnce, NoInputPaysTwice, consumed \subseteq consumed', UNCHANGED paid,
           \A q \in Proc : InHand(q)' => InHand(q) /\ job'[q].inputs = job[q].inputs
    PROVE  ConsumedOnce' /\ NoInputPaysTwice'
BY DEF ConsumedOnce, NoInputPaysTwice

\* A request that pays for its inputs replies with it, and nobody else holds them.
LEMMA PayOnce ==
    ASSUME TypeOK, ConsumedOnce, NoInputPaysTwice, NEW p \in Proc, InHand(p),
           Pay(p), End(p), UNCHANGED consumed
    PROVE  ConsumedOnce' /\ NoInputPaysTwice'
<1>1. \A q \in Proc : q # p => pc'[q] = pc[q] /\ job'[q] = job[q]
  BY DEF TypeOK, End, Goto
<1>2. ~InHand(p)'
  BY DEF TypeOK, End, Goto, InHand
<1>3. \A q \in Proc : InHand(q)' => q # p /\ InHand(q) /\ job'[q] = job[q]
  BY <1>1, <1>2 DEF InHand
<1>4. ASSUME NEW q \in Proc, InHand(q)', NEW y \in job'[q].inputs
      PROVE  y \in consumed' /\ paid'[y] = 0
  <2>1. q # p /\ InHand(q) /\ y \in job[q].inputs /\ y \in Y
    BY <1>3, <1>4 DEF TypeOK, Job
  <2>2. y \notin job[p].inputs /\ y \in consumed /\ paid[y] = 0
    BY <2>1 DEF ConsumedOnce
  <2> QED
    BY <2>1, <2>2 DEF Pay
<1>5. ASSUME NEW y \in Y PROVE paid'[y] <= 1 /\ (paid'[y] > 0 => y \in consumed')
  <2>1. CASE y \in job[p].inputs
    <3>1. y \in consumed /\ paid[y] = 0
      BY <2>1 DEF ConsumedOnce
    <3> QED
      BY <2>1, <3>1 DEF Pay
  <2>2. CASE y \notin job[p].inputs
    BY <2>2 DEF Pay, ConsumedOnce, NoInputPaysTwice
  <2> QED
    BY <2>1, <2>2
<1> QED
  BY <1>3, <1>4, <1>5 DEF ConsumedOnce, NoInputPaysTwice

\* Clowder acknowledges a swap whose inputs nobody consumed, so no request has them and
\* none of them was paid for.
LEMMA SignalOnce ==
    ASSUME TypeOK, ConsumedOnce, NEW p \in Proc, SignalSwap(p)
    PROVE  ConsumedOnce'
<1>1. /\ consumed' = consumed \cup job[p].inputs /\ paid' = paid
      /\ job[p].inputs \cap consumed = {} /\ job[p].inputs \subseteq Y
  BY DEF SignalSwap, Acknowledged, ClowderAccepts, TypeOK, Job, history
<1>2. \A q \in Proc : InHand(q)' => (q = p \/ InHand(q)) /\ job'[q].inputs = job[q].inputs
  BY DEF SignalSwap, TypeOK, Goto, End, InHand
<1>3. \A y \in job[p].inputs : paid[y] = 0
  BY <1>1 DEF ConsumedOnce, TypeOK
<1>4. \A q \in Proc : InHand(q) => job[q].inputs \subseteq consumed
  BY DEF ConsumedOnce
<1>5. ASSUME NEW q \in Proc, InHand(q)', NEW y \in job'[q].inputs
      PROVE  y \in consumed' /\ paid'[y] = 0
  BY <1>1, <1>2, <1>3, <1>5 DEF ConsumedOnce
<1>6. ASSUME NEW q \in Proc, NEW r \in Proc, q # r, InHand(q)', InHand(r)'
      PROVE  job'[q].inputs \cap job'[r].inputs = {}
  <2>1. CASE q = p
    BY <1>1, <1>2, <1>4, <1>6, <2>1
  <2>2. CASE r = p
    BY <1>1, <1>2, <1>4, <1>6, <2>2
  <2>3. CASE q # p /\ r # p
    BY <1>2, <1>6, <2>3 DEF ConsumedOnce
  <2> QED
    BY <2>1, <2>2, <2>3
<1>7. \A y \in Y : paid'[y] > 0 => y \in consumed'
  BY <1>1 DEF ConsumedOnce
<1> QED
  BY <1>5, <1>6, <1>7 DEF ConsumedOnce

\* Every step keeps consumed proofs in one hand and pays for them once.
LEMMA StepOnce ==
    ASSUME TypeOK, ConsumedOnce, NoInputPaysTwice, [Next]_vars
    PROVE  ConsumedOnce' /\ NoInputPaysTwice'
<1>1. ASSUME NEW p \in Proc, SignalSwap(p) PROVE ConsumedOnce' /\ NoInputPaysTwice'
  BY <1>1, SignalOnce DEF SignalSwap, NoInputPaysTwice, history
<1>2. ASSUME NEW p \in Proc, DeleteCommitment(p) PROVE ConsumedOnce' /\ NoInputPaysTwice'
  BY <1>2, PayOnce DEF DeleteCommitment, Serving, InHand, clowder
<1>3. ASSUME NEW p \in Proc, InsertProofs(p) PROVE ConsumedOnce' /\ NoInputPaysTwice'
  <2>1. CASE ~Spent(job[p].inputs)
    <3>1. UNCHANGED <<consumed, paid, job>> /\ InHand(p)
          /\ pc' = [pc EXCEPT ![p] = "delete"]
      BY <1>3, <2>1 DEF InsertProofs, Serving, InHand, Goto, clowder
    <3> QED
      BY <3>1, OnceFrame DEF InHand, TypeOK
  <2>2. CASE Spent(job[p].inputs)
    BY <1>3, <2>2, PayOnce DEF InsertProofs, Serving, InHand, clowder
  <2> QED
    BY <2>1, <2>2
<1>4. ASSUME NEW p \in Proc,
             \/ CommitStart(p) \/ ClowderCommits(p) \/ StoreCommitment(p) \/ SwapStart(p)
             \/ SignBlind(p) \/ Fail(p)
      PROVE  ConsumedOnce' /\ NoInputPaysTwice'
  <2>1. UNCHANGED <<consumed, paid>>
    BY <1>4 DEF CommitStart, ClowderCommits, StoreCommitment, SwapStart, SignBlind, Fail,
                clowder, history
  <2>2. /\ \A q \in Proc : q # p => pc'[q] = pc[q] /\ job'[q] = job[q]
        /\ ~InHand(p)'
    BY <1>4 DEF CommitStart, ClowderCommits, StoreCommitment, SwapStart, SignBlind, Fail,
                handlers, Goto, End, Serving, InHand, TypeOK
  <2> QED
    BY <2>1, <2>2, OnceFrame DEF InHand
<1>5. ASSUME CallStep \/ ProgramStep \/ UNCHANGED vars
      PROVE  ConsumedOnce' /\ NoInputPaysTwice'
  <2>1. consumed \subseteq consumed' /\ UNCHANGED paid
    BY <1>5 DEF CallStep, ProgramStep, NewKeyset, Reserve, ClowderMelts, Burn, Recover, Stop, Start,
       Dump, CopyKeyset, CopiedKeysets, CopySignature, CopiedSignatures, CopyProofs, Restart, Tick, vars, clowder, history
  <2>2. \A q \in Proc : InHand(q)' => InHand(q) /\ job'[q] = job[q]
    BY <1>5 DEF CallStep, ProgramStep, NewKeyset, Reserve, ClowderMelts, Burn, Recover, Stop, Start,
       Dump, CopyKeyset, CopiedKeysets, CopySignature, CopiedSignatures, CopyProofs, Restart, Tick, vars, handlers, InHand
  <2> QED
    BY <2>1, <2>2, OnceFrame
<1> QED
  BY <1>1, <1>2, <1>3, <1>4, <1>5, Steps DEF RequestStep

\* No proof backs two swap replies, whatever was reserved, burnt or recovered meanwhile,
\* given only that clowder refuses what was consumed before.
THEOREM PaysOnce == Spec => []NoInputPaysTwice
<1>1. Init => ConsumedOnce /\ NoInputPaysTwice
  BY DEF Init, ConsumedOnce, NoInputPaysTwice, InHand
<1>2. TypeOK /\ ConsumedOnce /\ NoInputPaysTwice /\ [Next]_vars
      => ConsumedOnce' /\ NoInputPaysTwice'
  BY StepOnce
<1> QED
  BY <1>1, <1>2, TypeCorrect, PTL DEF Spec

-----------------------------------------------------------------------------
(* Commitments implement ProofLocks. *)

\* The commitment that a request has in its hands, under the signature s.
Asked(j, s) ==
    [sig |-> s, inputs |-> j.inputs, outputs |-> j.outputs, expiration |-> j.expiration]

\* A signature stands for one commitment, in the table and in the hands of requests.
IssuedAsAsked ==
    /\ commitments \subseteq issued
    /\ \A c, d \in issued : c.sig = d.sig => c = d
    /\ \A p \in Proc : \A s \in job[p].sigs : Asked(job[p], s) \in issued

\* No commitment is asked for beyond the longest expiry.
EndInTime ==
    /\ clock <= MaxClock
    /\ \A c \in commitments : c.expiration <= MaxClock + MaxExpiry
    /\ \A p \in Proc : job[p].expiration <= MaxClock + MaxExpiry

\* A request that goes on to delete its commitment has spent the inputs.
InsertedIsSpent ==
    \A p \in Proc : pc[p] = "delete" => job[p].inputs \subseteq spent \cup recovered

\* What the refinement rests on, beside types and exclusive commitments.
HoldInv == IssuedAsAsked /\ EndInTime /\ InsertedIsSpent

\* A request that ends, or moves on with what it has, keeps what is known of jobs.
LEMMA HoldFrame ==
    ASSUME HoldInv, commitments' \subseteq commitments, issued' = issued, clock' = clock,
           spent \cup recovered \subseteq spent' \cup recovered',
           \A q \in Proc : \/ job'[q] = NoJob
                           \/ /\ job'[q].inputs = job[q].inputs
                              /\ job'[q].outputs = job[q].outputs
                              /\ job'[q].expiration = job[q].expiration
                              /\ job'[q].sigs = job[q].sigs,
           \A q \in Proc : pc'[q] = "delete" => pc[q] = "delete" /\ job'[q].inputs = job[q].inputs
    PROVE  HoldInv'
<1>1. IssuedAsAsked'
  <2>1. ASSUME NEW q \in Proc, NEW s \in job'[q].sigs PROVE Asked(job'[q], s) \in issued
    <3>1. job'[q] # NoJob
      BY <2>1 DEF NoJob
    <3>2. s \in job[q].sigs /\ Asked(job'[q], s) = Asked(job[q], s)
      BY <2>1, <3>1 DEF Asked
    <3> QED
      BY <3>2 DEF HoldInv, IssuedAsAsked
  <2> QED
    BY <2>1 DEF HoldInv, IssuedAsAsked
<1>2. EndInTime'
  <2>1. NoJob.expiration <= MaxClock + MaxExpiry
    BY ParameterAssumption DEF NoJob
  <2> QED
    BY <2>1 DEF HoldInv, EndInTime
<1>3. InsertedIsSpent'
  BY DEF HoldInv, InsertedIsSpent
<1> QED
  BY <1>1, <1>2, <1>3 DEF HoldInv

\* Each step of a request knows what it holds and until when.
LEMMA RequestHolds ==
    ASSUME TypeOK, HoldInv, NEW p \in Proc, RequestStep(p)
    PROVE  HoldInv'
<1> USE DEF TypeOK
<1>1. CASE CommitStart(p)
  <2>1. PICK r \in Contents : CommitStart(p)!(r)
    BY <1>1 DEF CommitStart
  <2> DEFINE until == IF r.expiry <= clock + MaxExpiry THEN r.expiry ELSE clock + MaxExpiry
             asked == [NoJob EXCEPT !.inputs = r.inputs, !.outputs = r.outputs,
                                    !.expiration = until]
  <2>2. commitments' \subseteq commitments
        /\ UNCHANGED <<clock, spent, issued, recovered>>
    BY <2>1 DEF clowder, history
  <2>3. CASE UNCHANGED handlers
    BY <2>2, <2>3, HoldFrame DEF handlers
  <2>4. CASE pc' = [pc EXCEPT ![p] = "clowder"] /\ job' = [job EXCEPT ![p] = asked]
    <3>1. \A q \in Proc : q # p => pc'[q] = pc[q] /\ job'[q] = job[q]
      BY <2>4
    <3>2. pc'[p] = "clowder" /\ job'[p] = asked
      BY <2>4
    <3>3. asked.sigs = {} /\ asked.expiration = until
      BY DEF NoJob
    <3>4. r.expiry \in Nat
      BY ContentsAssumption
    <3>5. until <= MaxClock + MaxExpiry
      BY <3>4, ParameterAssumption DEF HoldInv, EndInTime
    <3> HIDE DEF asked, until
    <3>6. IssuedAsAsked'
      BY <2>2, <3>1, <3>2, <3>3 DEF HoldInv, IssuedAsAsked
    <3>7. EndInTime'
      BY <2>2, <3>1, <3>2, <3>3, <3>5 DEF HoldInv, EndInTime
    <3>8. InsertedIsSpent'
      BY <2>2, <3>1, <3>2 DEF HoldInv, InsertedIsSpent
    <3> QED
      BY <3>6, <3>7, <3>8 DEF HoldInv
  <2> QED
    BY <2>1, <2>3, <2>4 DEF Goto
<1>2. CASE ClowderCommits(p)
  <2>1. PICK s \in Sig : ClowderCommits(p)!(s)
    BY <1>2 DEF ClowderCommits
  <2> DEFINE c == Asked(job[p], s)
  <2>2. /\ \A d \in issued : d.sig # s
        /\ issued' = issued \cup {c} /\ c.sig = s
        /\ UNCHANGED <<clock, commitments, spent, recovered>>
    BY <2>1 DEF Asked, tables, history
  <2>3. \A q \in Proc : q # p => pc'[q] = pc[q] /\ job'[q] = job[q]
    BY <2>1 DEF Goto
  <2>4. pc'[p] = "store" /\ job'[p] = [job[p] EXCEPT !.sigs = {s}] /\ job[p] \in Job
    BY <2>1 DEF Goto
  <2>5. job'[p].expiration = job[p].expiration
        /\ \A t \in job'[p].sigs : Asked(job'[p], t) = c
    BY <2>4 DEF Asked, Job
  <2> HIDE DEF c
  <2>6. IssuedAsAsked'
    BY <2>2, <2>3, <2>5 DEF HoldInv, IssuedAsAsked
  <2>7. EndInTime'
    BY <2>2, <2>3, <2>5 DEF HoldInv, EndInTime
  <2>8. InsertedIsSpent'
    BY <2>2, <2>3, <2>4 DEF HoldInv, InsertedIsSpent
  <2> QED
    BY <2>6, <2>7, <2>8 DEF HoldInv
<1>3. CASE StoreCommitment(p)
  <2>1. PICK s \in job[p].sigs : StoreCommitment(p)!(s)
    BY <1>3 DEF StoreCommitment
  <2> DEFINE c == Asked(job[p], s)
  <2>2. /\ commitments' \subseteq commitments \cup {c}
        /\ UNCHANGED <<clock, issued, spent, recovered>>
    BY <2>1 DEF Asked, clowder, history
  <2>3. c \in issued
    BY DEF HoldInv, IssuedAsAsked
  <2>4. c.expiration <= MaxClock + MaxExpiry
    BY DEF HoldInv, EndInTime, Asked
  <2>5. \A q \in Proc : q # p => pc'[q] = pc[q] /\ job'[q] = job[q]
    BY <2>1 DEF End, Goto
  <2>6. pc'[p] = "idle" /\ job'[p].sigs = {} /\ job'[p].expiration = 0
    BY <2>1 DEF End, Goto, NoJob
  <2> HIDE DEF c
  <2>7. IssuedAsAsked'
    BY <2>2, <2>3, <2>5, <2>6 DEF HoldInv, IssuedAsAsked
  <2>8. EndInTime'
    BY <2>2, <2>4, <2>5, <2>6, ParameterAssumption DEF HoldInv, EndInTime
  <2>9. InsertedIsSpent'
    BY <2>2, <2>5, <2>6 DEF HoldInv, InsertedIsSpent
  <2> QED
    BY <2>7, <2>8, <2>9 DEF HoldInv
<1>4. CASE SwapStart(p)
  <2>1. PICK c \in commitments : SwapStart(p)!(c)
    BY <1>4 DEF SwapStart
  <2>2. UNCHANGED <<clock, commitments, issued, spent, recovered>>
    BY <2>1 DEF tables, clowder, history
  <2>3. \A q \in Proc : q # p => pc'[q] = pc[q] /\ job'[q] = job[q]
    BY <2>1 DEF Goto
  <2>4. /\ pc'[p] = "sign" /\ job'[p].sigs = {c.sig} /\ job'[p].expiration = c.expiration
        /\ Asked(job'[p], c.sig) = [sig |-> c.sig, inputs |-> c.inputs,
                                    outputs |-> c.outputs, expiration |-> c.expiration]
    BY <2>1 DEF Goto, Asked
  <2>5. Asked(job'[p], c.sig) = c
    BY <2>4 DEF Commitment
  <2>6. IssuedAsAsked'
    BY <2>2, <2>3, <2>4, <2>5 DEF HoldInv, IssuedAsAsked
  <2>7. EndInTime'
    BY <2>2, <2>3, <2>4 DEF HoldInv, EndInTime
  <2>8. InsertedIsSpent'
    BY <2>2, <2>3, <2>4 DEF HoldInv, InsertedIsSpent
  <2> QED
    BY <2>6, <2>7, <2>8 DEF HoldInv
<1>5. CASE SignBlind(p)
  <2>1. PICK b \in job[p].todo : SignBlind(p)!(b)
    BY <1>5 DEF SignBlind
  <2>2. /\ UNCHANGED <<clock, commitments, issued, spent, recovered>>
        /\ \A q \in Proc : pc'[q] = "delete" => pc[q] = "delete" /\ q # p
    BY <2>1 DEF clowder, history, End, Goto, Serving
  <2>3. \A q \in Proc : q # p => job'[q] = job[q]
    BY <2>1 DEF End
  <2>4. job'[p] = NoJob \/ job'[p] = [job[p] EXCEPT !.todo = @ \ {b}]
    BY <2>1 DEF End
  <2>5. job[p] \in Job
    OBVIOUS
  <2>6. \/ job'[p] = NoJob
        \/ /\ job'[p].inputs = job[p].inputs /\ job'[p].outputs = job[p].outputs
           /\ job'[p].expiration = job[p].expiration /\ job'[p].sigs = job[p].sigs
    BY <2>4, <2>5 DEF Job
  <2> QED
    BY <2>2, <2>3, <2>6, HoldFrame
<1>6. CASE SignalSwap(p) \/ Fail(p) \/ DeleteCommitment(p)
  <2>1. /\ commitments' \subseteq commitments /\ UNCHANGED <<clock, issued, spent, recovered>>
        /\ \A q \in Proc : job'[q] = job[q] \/ job'[q] = NoJob
        /\ \A q \in Proc : pc'[q] = "delete" => pc[q] = "delete" /\ job'[q] = job[q]
    BY <1>6 DEF SignalSwap, Fail, DeleteCommitment, Serving, End, Goto, tables, clowder, history
  <2> QED
    BY <2>1, HoldFrame
<1>7. CASE InsertProofs(p)
  <2>1. UNCHANGED <<clock, commitments, issued, recovered>> /\ spent \subseteq spent'
        /\ \A q \in Proc : job'[q] = job[q] \/ job'[q] = NoJob
    BY <1>7 DEF InsertProofs, End, clowder
  <2>2. CASE Spent(job[p].inputs)
    <3>1. \A q \in Proc : pc'[q] = "delete" => pc[q] = "delete" /\ job'[q] = job[q]
      BY <1>7, <2>2 DEF InsertProofs, End, Goto
    <3> QED
      BY <2>1, <3>1, HoldFrame
  <2>3. CASE ~Spent(job[p].inputs)
    <3>1. spent' = spent \cup job[p].inputs /\ pc' = [pc EXCEPT ![p] = "delete"] /\ job' = job
      BY <1>7, <2>3 DEF InsertProofs, Goto
    <3>2. InsertedIsSpent'
      BY <2>1, <3>1 DEF HoldInv, InsertedIsSpent
    <3>3. IssuedAsAsked' /\ EndInTime'
      BY <2>1, <3>1 DEF HoldInv, IssuedAsAsked, EndInTime
    <3> QED
      BY <3>2, <3>3 DEF HoldInv
  <2> QED
    BY <2>2, <2>3
<1> QED
  BY <1>1, <1>2, <1>3, <1>4, <1>5, <1>6, <1>7 DEF RequestStep

\* Each other step: recovering is the one that takes a proof from the spent ones.
LEMMA OtherHolds ==
    ASSUME TypeOK, HoldInv, CallStep \/ ProgramStep \/ UNCHANGED vars
    PROVE  HoldInv'
<1>1. CASE Tick
  <2>1. clock' <= MaxClock /\ UNCHANGED <<commitments, issued, spent, recovered, pc, job>>
    BY <1>1, ParameterAssumption
       DEF Tick, TypeOK, tables, handlers, clowder, history
  <2> QED
    BY <2>1 DEF HoldInv, IssuedAsAsked, EndInTime, InsertedIsSpent
<1>2. CASE ~Tick
  <2>1. /\ UNCHANGED <<clock, commitments, issued>>
        /\ spent \cup recovered \subseteq spent' \cup recovered'
    BY <1>2 DEF CallStep, ProgramStep, NewKeyset, Reserve, ClowderMelts, Burn, Recover, Stop,
       Start, Dump, CopyKeyset, CopiedKeysets, CopySignature, CopiedSignatures, CopyProofs,
       Restart, vars, tables, clowder, history
  <2>2. \A q \in Proc : /\ job'[q] = job[q] \/ job'[q] = NoJob
                        /\ pc'[q] = "delete" => pc[q] = "delete" /\ job'[q] = job[q]
    BY <1>2 DEF CallStep, ProgramStep, NewKeyset, Reserve, ClowderMelts, Burn, Recover, Stop,
       Start, Dump, CopyKeyset, CopiedKeysets, CopySignature, CopiedSignatures, CopyProofs,
       Restart, vars, handlers
  <2> QED
    BY <2>1, <2>2, HoldFrame
<1> QED
  BY <1>1, <1>2

\* The lock of a proof follows from the tables of commitments and of spent proofs, and from
\* whether it was recovered.
LEMMA LockFrame ==
    ASSUME NEW y \in Y, y \in recovered' <=> y \in recovered, y \in spent' <=> y \in spent,
           \/ commitments' = commitments
           \/ y \in spent \cup recovered
    PROVE  LockOf(y)' = LockOf(y)
BY DEF LockOf, HolderOf

\* A commitment that holds a proof is the only one that does.
LEMMA HolderIs ==
    ASSUME HeldOnce, NEW c \in commitments, NEW y \in c.inputs
    PROVE  HolderOf(y) = c
BY DEF HeldOnce, HolderOf

\* A change of the locks is given lock by lock.
LEMMA LockChange ==
    ASSUME NEW ys, NEW l, \A y \in Y : LockOf(y)' = IF y \in ys THEN l ELSE LockOf(y)
    PROVE  Locks!Change(ys, l)
BY DEF Locks!Change

\* A step that moves neither table, nor the time, moves no lock.
LEMMA LocksStay ==
    ASSUME UNCHANGED <<clock, commitments, spent, recovered>>
    PROVE  UNCHANGED <<clock, [y \in Y |-> LockOf(y)]>>
<1>1. \A y \in Y : LockOf(y)' = LockOf(y)
  BY LockFrame
<1> QED
  BY <1>1

\* The transaction of commitment_store takes free proofs until the commitment expires.
LEMMA StoreHolds ==
    ASSUME TypeOK, HeldOnce, HeldOnce', HoldInv, NEW p \in Proc, StoreCommitment(p)
    PROVE  Locks!Next \/ UNCHANGED <<clock, [y \in Y |-> LockOf(y)]>>
<1>1. PICK s \in job[p].sigs : StoreCommitment(p)!(s)
  BY DEF StoreCommitment
<1> DEFINE c == [sig |-> s, inputs |-> job[p].inputs, outputs |-> job[p].outputs,
                 expiration |-> job[p].expiration]
           ys == job[p].inputs \ (spent \cup recovered)
           l == Locks!Held(s, job[p].expiration)
<1>2. CASE ~Insertable(c)
  BY <1>1, <1>2, LocksStay DEF history
<1>3. CASE Insertable(c)
  <2>1. s \in Sig /\ ys \subseteq Y /\ job[p].expiration \in 0..(MaxClock + MaxExpiry)
    BY ParameterAssumption DEF TypeOK, Job, HoldInv, EndInTime
  <2>2. /\ commitments' = commitments \cup {c}
        /\ spent' = spent /\ recovered' = recovered /\ clock' = clock
    BY <1>1, <1>3 DEF history
  <2>3. /\ c.sig = s /\ c.inputs = job[p].inputs /\ c.expiration = job[p].expiration
        /\ \A d \in commitments : d.inputs \cap c.inputs = {}
    BY <1>3 DEF Insertable
  <2> HIDE DEF c
  <2>4. ASSUME NEW y \in ys PROVE LockOf(y) = Locks!Free /\ LockOf(y)' = l
    <3>1. y \notin spent /\ y \notin recovered /\ y \in c.inputs /\ c \in commitments'
      BY <2>2, <2>3
    <3>2. LockOf(y) = Locks!Free
      BY <2>3, <3>1 DEF LockOf, Locks!Free
    <3>3. HolderOf(y)' = c
      BY <3>1 DEF HeldOnce, HolderOf
    <3>4. LockOf(y)' = l
      BY <2>2, <2>3, <3>1, <3>3 DEF LockOf, Locks!Held
    <3> QED
      BY <3>2, <3>4
  <2>5. ASSUME NEW y \in Y \ ys PROVE LockOf(y)' = LockOf(y)
    <3>1. CASE y \in spent \cup recovered
      BY <2>2, <3>1, LockFrame
    <3>2. CASE y \notin spent \cup recovered
      <4>1. y \notin c.inputs
        BY <2>3, <2>5, <3>2
      <4>2. \A d : d \in commitments' /\ y \in d.inputs <=> d \in commitments /\ y \in d.inputs
        BY <2>2, <4>1
      <4>3. CASE \E d \in commitments : y \in d.inputs
        <5>1. PICK d \in commitments : y \in d.inputs
          BY <4>3
        <5>2. HolderOf(y) = d /\ HolderOf(y)' = d
          BY <4>2, <5>1 DEF HeldOnce, HolderOf
        <5> QED
          BY <2>2, <4>2, <5>1, <5>2 DEF LockOf
      <4>4. CASE ~\E d \in commitments : y \in d.inputs
        BY <2>2, <4>2, <4>4 DEF LockOf
      <4> QED
        BY <4>3, <4>4
    <3> QED
      BY <3>1, <3>2
  <2> HIDE DEF ys, l
  <2>6. Locks!Change(ys, l)
    BY <2>4, <2>5, LockChange
  <2> USE DEF l
  <2>7. Locks!Hold(ys, s, job[p].expiration)
    BY <2>1, <2>2, <2>4, <2>6 DEF Locks!Hold
  <2> QED
    BY <2>1, <2>7 DEF Locks!Next
<1> QED
  BY <1>2, <1>3

\* Rows of the table of commitments go only with holds that are over, or with proofs that
\* are spent: what the rows that stay hold, they hold on.
LEMMA RowsGo ==
    ASSUME HeldOnce, HeldOnce', NEW y \in Y, commitments' \subseteq commitments,
           UNCHANGED <<spent, recovered>>,
           y \in spent \cup recovered \/ \A c \in commitments \ commitments' : y \notin c.inputs
    PROVE  LockOf(y)' = LockOf(y)
<1>1. CASE y \in spent \cup recovered
  BY <1>1, LockFrame
<1>2. CASE y \notin spent \cup recovered
  <2>1. \A d : d \in commitments' /\ y \in d.inputs <=> d \in commitments /\ y \in d.inputs
    BY <1>2
  <2>2. CASE \E d \in commitments : y \in d.inputs
    <3>1. PICK d \in commitments : y \in d.inputs
      BY <2>2
    <3>2. HolderOf(y) = d /\ HolderOf(y)' = d
      BY <2>1, <3>1 DEF HeldOnce, HolderOf
    <3> QED
      BY <2>1, <3>1, <3>2 DEF LockOf
  <2>3. CASE ~\E d \in commitments : y \in d.inputs
    BY <2>1, <2>3 DEF LockOf
  <2> QED
    BY <2>2, <2>3
<1> QED
  BY <1>1, <1>2

\* A commit begins with cleaning: the holds that are over lapse, all at once.
LEMMA CleanLapses ==
    ASSUME TypeOK, HeldOnce, HeldOnce', NEW p \in Proc, CommitStart(p)
    PROVE  Locks!Next
<1> DEFINE gone == commitments \ commitments'
           ys == {y \in Y : y \notin spent \cup recovered /\ \E c \in gone : y \in c.inputs}
<1>1. /\ commitments' = {c \in commitments : Live(c, clock)}
      /\ UNCHANGED <<clock, spent, recovered>>
  BY DEF CommitStart, history
<1>2. ASSUME NEW y \in ys
      PROVE  /\ LockOf(y).state = "held" /\ LockOf(y).until < clock
             /\ LockOf(y)' = Locks!Free
  <2>1. PICK c \in gone : y \in c.inputs
    OBVIOUS
  <2>2. c \in commitments /\ c \notin commitments' /\ ~Live(c, clock)
    BY <1>1
  <2>3. c.expiration < clock
    BY <2>2 DEF Live, TypeOK, Commitment
  <2>4. HolderOf(y) = c
    BY <2>1, <2>2, HolderIs
  <2>5. LockOf(y).state = "held" /\ LockOf(y).until < clock
    BY <2>1, <2>2, <2>3, <2>4 DEF LockOf
  <2>6. \A d \in commitments' : y \notin d.inputs
    BY <1>1, <2>1, <2>2 DEF HeldOnce
  <2>7. LockOf(y)' = Locks!Free
    BY <1>1, <2>6 DEF LockOf, Locks!Free
  <2> QED
    BY <2>5, <2>7
<1>3. ASSUME NEW y \in Y \ ys PROVE LockOf(y)' = LockOf(y)
  BY <1>1, <1>3, RowsGo
<1>4. ys \subseteq Y
  OBVIOUS
<1> HIDE DEF ys
<1>5. Locks!Change(ys, Locks!Free)
  BY <1>2, <1>3, LockChange
<1>6. Locks!Lapse(ys)
  BY <1>1, <1>2, <1>4, <1>5 DEF Locks!Lapse
<1> QED
  BY <1>4, <1>6 DEF Locks!Next

\* A swap deletes its commitment when the inputs are spent.
LEMMA DeleteStutters ==
    ASSUME TypeOK, HeldOnce, HeldOnce', HoldInv, NEW p \in Proc, DeleteCommitment(p)
    PROVE  UNCHANGED <<clock, [y \in Y |-> LockOf(y)]>>
<1>1. /\ commitments' = {c \in commitments : c.sig \notin job[p].sigs}
      /\ UNCHANGED <<clock, spent, recovered>> /\ pc[p] = "delete"
  BY DEF DeleteCommitment, Serving
<1>2. ASSUME NEW c \in commitments \ commitments' PROVE c.inputs \subseteq spent \cup recovered
  <2>1. c.sig \in job[p].sigs
    BY <1>1
  <2>2. Asked(job[p], c.sig) \in issued /\ c \in issued /\ Asked(job[p], c.sig).sig = c.sig
    BY <2>1 DEF HoldInv, IssuedAsAsked, Asked
  <2>3. c = Asked(job[p], c.sig)
    BY <2>2 DEF HoldInv, IssuedAsAsked
  <2>4. c.inputs = job[p].inputs
    BY <2>3 DEF Asked
  <2> QED
    BY <1>1, <2>4 DEF HoldInv, InsertedIsSpent
<1>3. \A y \in Y : LockOf(y)' = LockOf(y)
  BY <1>1, <1>2, RowsGo
<1> QED
  BY <1>1, <1>3

\* Rows that are inserted spend their proofs, held or not.
LEMMA InsertSpends ==
    ASSUME TypeOK, NEW ys \in SUBSET Y, ~Spent(ys), spent' = spent \cup ys,
           UNCHANGED <<clock, commitments, recovered>>
    PROVE  Locks!Next
<1> DEFINE zs == ys \ recovered
<1>1. \A y \in zs : LockOf(y).state \in {"free", "held"} /\ LockOf(y)' = Locks!Spent
  BY DEF Spent, LockOf, Locks!Spent
<1>2. \A y \in Y \ zs : LockOf(y)' = LockOf(y)
  BY LockFrame DEF LockOf
<1>3. zs \in SUBSET Y
  OBVIOUS
<1> HIDE DEF zs
<1>4. Locks!Change(zs, Locks!Spent)
  BY <1>1, <1>2, LockChange
<1>5. Locks!Spend(zs)
  BY <1>1, <1>3, <1>4 DEF Locks!Spend
<1> QED
  BY <1>3, <1>5 DEF Locks!Next

\* A recovered proof leaves the promise.
LEMMA RecoverForgets ==
    ASSUME TypeOK, Recover
    PROVE  Locks!Next
<1>1. PICK y \in spent : spent' = spent \ {y} /\ recovered' = recovered \cup {y}
  BY DEF Recover
<1>2. UNCHANGED <<clock, commitments>> /\ y \in Y
  BY DEF Recover, TypeOK
<1>3. LockOf(y) \in {Locks!Spent, Locks!Recovered} /\ LockOf(y)' = Locks!Recovered
  BY <1>1 DEF LockOf, Locks!Spent, Locks!Recovered
<1>4. \A z \in Y : z # y => LockOf(z)' = LockOf(z)
  BY <1>1, <1>2, LockFrame
<1>5. Locks!Change({y}, Locks!Recovered)
  BY <1>3, <1>4, LockChange
<1>6. Locks!Forget({y})
  BY <1>2, <1>3, <1>5 DEF Locks!Forget
<1> QED
  BY <1>2, <1>6 DEF Locks!Next

\* Every step is one of ProofLocks, or moves no lock: reservations, signatures, clowder's
\* ledger, restarts and the migration leave the holds alone.
LEMMA StepLocks ==
    ASSUME TypeOK, HeldOnce, HeldOnce', HoldInv, [Next]_vars
    PROVE  [Locks!Next]_<<clock, [y \in Y |-> LockOf(y)]>>
<1>1. ASSUME NEW p \in Proc, RequestStep(p)
      PROVE  Locks!Next \/ UNCHANGED <<clock, [y \in Y |-> LockOf(y)]>>
  <2>1. CASE InsertProofs(p)
    <3>1. job[p].inputs \in SUBSET Y /\ UNCHANGED <<clock, commitments, recovered>>
      BY <2>1 DEF InsertProofs, TypeOK, Job
    <3>2. CASE ~Spent(job[p].inputs)
      BY <2>1, <3>1, <3>2, InsertSpends DEF InsertProofs
    <3>3. CASE Spent(job[p].inputs)
      BY <2>1, <3>1, <3>3, LocksStay DEF InsertProofs
    <3> QED
      BY <3>2, <3>3
  <2>2. CASE ClowderCommits(p) \/ SwapStart(p) \/ SignBlind(p) \/ SignalSwap(p) \/ Fail(p)
    BY <2>2, LocksStay DEF ClowderCommits, SwapStart, SignBlind, SignalSwap, Fail, tables,
                           history
  <2> QED
    BY <1>1, <2>1, <2>2, StoreHolds, CleanLapses, DeleteStutters DEF RequestStep
<1>2. CASE Burn
  <2>1. PICK ys \in {m \in Melts : m \subseteq consumed} \cup AdminBurns : Burn!(ys)
    BY <1>2 DEF Burn
  <2>2. ys \in SUBSET Y
    BY ParameterAssumption
  <2> QED
    BY <2>1, <2>2, InsertSpends DEF history
<1>3. CASE Tick
  <2>1. UNCHANGED <<commitments, spent, recovered>> /\ clock' \in clock..(MaxClock + MaxExpiry)
    BY <1>3, ParameterAssumption DEF Tick, TypeOK, tables, history
  <2>2. \A y \in Y : LockOf(y)' = LockOf(y)
    BY <2>1, LockFrame
  <2> QED
    BY <2>1, <2>2 DEF Locks!Next, Locks!Tick
<1>4. CASE (CallStep \/ ProgramStep \/ UNCHANGED vars) /\ ~Burn /\ ~Recover /\ ~Tick
  <2>1. UNCHANGED <<clock, commitments, spent, recovered>>
    BY <1>4 DEF CallStep, ProgramStep, NewKeyset, Reserve, ClowderMelts, Stop, Start, Dump,
       CopyKeyset, CopiedKeysets, CopySignature, CopiedSignatures, CopyProofs, Restart, vars,
       tables, history
  <2> QED
    BY <2>1, LocksStay
<1> QED
  BY <1>1, <1>2, <1>3, <1>4, RecoverForgets, Steps

\* Over SurrealDB commitments are exclusive holds that end by their expiry or by the spend,
\* though no table looks at another one: CoreTables implements ProofLocks.
THEOREM Refinement == Spec => ImplementsLocks
<1>1. Init => Locks!Init
  <2>1. Init => \A y \in Y : LockOf(y) = Locks!Free
    BY DEF Init, LockOf, Locks!Free
  <2> QED
    BY <2>1 DEF Init, Locks!Init
<1>2. Init => HoldInv
  <2>1. NoJob.expiration = 0 /\ NoJob.sigs = {}
    BY DEF NoJob
  <2> QED
    BY <2>1, ParameterAssumption DEF Init, HoldInv, IssuedAsAsked, EndInTime, InsertedIsSpent
<1>3. TypeOK /\ HoldInv /\ [Next]_vars => HoldInv'
  BY Steps, RequestHolds, OtherHolds
<1>4. TypeOK /\ HeldOnce /\ HeldOnce' /\ HoldInv /\ [Next]_vars
      => [Locks!Next]_<<clock, [y \in Y |-> LockOf(y)]>>
  BY StepLocks
<1> QED
  BY <1>1, <1>2, <1>3, <1>4, TypeCorrect, Exclusive, PTL DEF Spec, ImplementsLocks, Locks!Spec
=============================================================================
