------------------------------ MODULE CoreMint ------------------------------
(***************************************************************************)
(* The swap half of bcr-wdc-core-service: the Postgres repository it runs  *)
(* on and the handlers that may be in flight at the same time.             *)
(*                                                                         *)
(* A wallet trades proofs (inputs) for blind signatures (on outputs) in    *)
(* two calls.  commit_to_swap locks inputs and outputs under a commitment  *)
(* signed by clowder; swap redeems the commitment.  Every repository call  *)
(* and every call to a peer is one step, so handlers interleave exactly    *)
(* where the code awaits.                                                  *)
(*                                                                         *)
(* Abstractions.  A proof is its point y, an output its blinded secret, a  *)
(* commitment its clowder signature; fp_digest is the set of inputs it     *)
(* hashes.  Amounts, keysets and the cryptographic checks are left out:    *)
(* the inputs and outputs enumerated here are the ones that pass them.     *)
(***************************************************************************)
EXTENDS Naturals, FiniteSets

CONSTANTS
    Y,             \* proofs, by the point of their secret: key of core_proofs
    B,             \* outputs, by blinded secret: key of core_signatures
    Sig,           \* clowder's signatures on commitments: key of core_commitments
    Proc,          \* slots for requests that are in flight at the same time
    Contents,      \* what wallets ask to commit: [inputs, outputs, expiry]
    Owners,        \* who may ask: subset of {"Unsigned", "Alpha", "Beta"}
    CheckedSets,   \* sets of proofs that wallets ask the state of
    Restores,      \* outputs that wallets ask to restore
    Melts,         \* sets of proofs that the treasury melts: reserves, then burns
    AdminBurns,    \* sets of proofs that an operator burns without a melt
    None,          \* SQL NULL
    MaxExpiry,     \* Service::max_expiry
    SettleWindow,  \* settle_window_sec
    MaxClock,      \* bound: the last instant of the model
    MaxCrashes,    \* bound: restarts of the service
    MaxRecovers    \* bound: calls of the recover endpoint

ASSUME ContentsAssumption ==
    \A r \in Contents :
        /\ r \in [inputs: SUBSET Y, outputs: SUBSET B, expiry: Nat]
        /\ r.inputs # {} /\ r.outputs # {}

ASSUME ParameterAssumption ==
    /\ Owners \subseteq {"Unsigned", "Alpha", "Beta"}
    /\ CheckedSets \subseteq SUBSET Y /\ Restores \subseteq B
    /\ Melts \subseteq SUBSET Y /\ AdminBurns \subseteq SUBSET Y
    /\ MaxExpiry \in Nat /\ SettleWindow \in Nat
    /\ MaxClock \in Nat /\ MaxCrashes \in Nat /\ MaxRecovers \in Nat

VARIABLES
    \* the service's clock and configuration
    clock,           \* chrono::Utc::now()
    settleDeadline,  \* Service::settle_window_deadline, set when the service starts
    \* the repository
    proofs,          \* core_proofs: one row per y
    commitments,     \* core_commitments
    outputs,         \* core_commitment_outputs
    signatures,      \* core_signatures: outputs that have a stored blind signature
    \* the handlers in flight
    pc, job, todo, seen,
    \* external: clowder's own ledger
    issued,          \* the contents clowder signed each commitment for
    acked,           \* swap events clowder acknowledged
    melted,          \* proofs clowder consumed in a melt
    \* what left the mint, and bounded histories
    paid,            \* how many swap replies with signatures were backed by y
    restored,        \* outputs whose signature the restore endpoint returned
    fees,            \* commitments whose fee proofs reached the treasury
    recovered,       \* spent proofs that the recover endpoint forgot
    crashes

service  == <<settleDeadline, crashes>>
store    == <<proofs, commitments, outputs, signatures>>
handlers == <<pc, job, todo, seen>>
clowder  == <<issued, acked, melted>>
replies  == <<paid, restored, fees, recovered>>
vars == <<clock, service, store, handlers, clowder, replies>>

-----------------------------------------------------------------------------
(* The rows of the repository.  An absent row of core_proofs has no column set. *)

\* At most one column of a row is set: a proof is committed, reserved or spent.
OneColumn(row) ==
    /\ row.spent => row.signature = None /\ row.deadline = None
    /\ row.signature # None => row.deadline = None

Row == [signature: Sig \cup {None}, deadline: Nat \cup {None}, spent: BOOLEAN]
NoRow == [signature |-> None, deadline |-> None, spent |-> FALSE]
CommittedRow(s) == [signature |-> s, deadline |-> None, spent |-> FALSE]
ReservedRow(t) == [signature |-> None, deadline |-> t, spent |-> FALSE]

\* Mutant: the upsert that marks a proof spent leaves the other columns alone.
SpentRow_KeepsColumns(row) == [row EXCEPT !.spent = TRUE]

SpentRow(row) == [signature |-> None, deadline |-> None, spent |-> TRUE]

Commitment ==
    [inputs: SUBSET Y, expiration: Nat, owner: {"Unsigned", "Alpha", "Beta"}]

ASSUME NoneAssumption ==
    None \notin Sig /\ None \notin Nat /\ None \notin Contents /\ None \notin Commitment

States == {"Unspent", "Reserved", "Spent"}

PCs == {"idle", "clean_commitments", "clean_ys", "spent", "committed", "clowder",
        "store", "load", "load_outputs", "sign", "insert", "delete", "fees"}

Jobs == [kind: {"none", "check", "commit", "swap"}, inputs: SUBSET Y,
         outputs: SUBSET B, content: Contents \cup {None}, expiry: Nat,
         owner: {"Unsigned", "Alpha", "Beta"}, sig: Sig \cup {None}, now: Nat]

NoJob == [kind |-> "none", inputs |-> {}, outputs |-> {}, content |-> None,
          expiry |-> 0, owner |-> "Unsigned", sig |-> None, now |-> 0]

Event == [sig: Sig, inputs: SUBSET Y, outputs: SUBSET B]

\* The least of two instants: expiry.min(max_allowed).
Earlier(a, b) == IF a <= b THEN a ELSE b

\* No row: a proof that no commitment, reservation or spend holds.
Vacant(y) == proofs[y] = NoRow

\* The outputs held by commitment s.
OutputsOf(s) == {b \in B : outputs[b] = s}

\* Everything clowder has seen consumed, by a swap or by a melt.
Consumed == melted \cup UNION {e.inputs : e \in acked}

Init ==
    /\ clock = 0
    /\ settleDeadline = SettleWindow
    /\ proofs = [y \in Y |-> NoRow]
    /\ commitments = [s \in Sig |-> None]
    /\ outputs = [b \in B |-> None]
    /\ signatures = {}
    /\ pc = [p \in Proc |-> "idle"]
    /\ job = [p \in Proc |-> NoJob]
    /\ todo = [p \in Proc |-> {}]
    /\ seen = [p \in Proc |-> [y \in Y |-> "Unspent"]]
    /\ issued = [s \in Sig |-> None]
    /\ acked = {}
    /\ melted = {}
    /\ paid = [y \in Y |-> 0]
    /\ restored = {}
    /\ fees = {}
    /\ recovered = {}
    /\ crashes = 0

-----------------------------------------------------------------------------
(* Steps of a handler p.  End is the reply, with or without an error. *)

Goto(p, l) == pc' = [pc EXCEPT ![p] = l]

End(p) ==
    /\ Goto(p, "idle")
    /\ job' = [job EXCEPT ![p] = NoJob]
    /\ todo' = [todo EXCEPT ![p] = {}]
    /\ seen' = [seen EXCEPT ![p] = [y \in Y |-> "Unspent"]]

Begin(p, l, j) ==
    /\ pc[p] = "idle"
    /\ Goto(p, l)
    /\ job' = [job EXCEPT ![p] = j]
    /\ UNCHANGED <<todo, seen>>

\* Mutant: the outputs of a deleted commitment stay behind.
DeleteCommitments_OutputsStay(D) ==
    /\ commitments' = [s \in Sig |-> IF s \in D THEN None ELSE commitments[s]]
    /\ proofs' = [y \in Y |-> IF proofs[y].signature \in D THEN NoRow ELSE proofs[y]]
    /\ UNCHANGED outputs

\* Deleting the commitments of set D takes their inputs and outputs along
\* (ON DELETE CASCADE).
DeleteCommitments(D) ==
    /\ commitments' = [s \in Sig |-> IF s \in D THEN None ELSE commitments[s]]
    /\ proofs' = [y \in Y |-> IF proofs[y].signature \in D THEN NoRow ELSE proofs[y]]
    /\ outputs' = [b \in B |-> IF outputs[b] \in D THEN None ELSE outputs[b]]

\* commit_to_swap serves unsigned wallets only after the settle window; the signed
\* endpoint lets a Beta in at any time.

\* Mutant: Alpha is let in as well.
OutsideSettleWindow_AnySigner(owner, now) == owner # "Unsigned" \/ now >= settleDeadline

OutsideSettleWindow(owner, now) == owner = "Beta" \/ now >= settleDeadline

CommitStart(p) ==
    \E r \in Contents, owner \in Owners :
        /\ OutsideSettleWindow(owner, clock)
        /\ r.expiry >= clock
        /\ Begin(p, "clean_commitments",
                 [NoJob EXCEPT !.kind = "commit", !.inputs = r.inputs,
                               !.outputs = r.outputs, !.content = r, !.owner = owner,
                               !.expiry = Earlier(r.expiry, clock + MaxExpiry),
                               !.now = clock])
        /\ UNCHANGED <<clock, service, store, clowder, replies>>

CheckStart(p) ==
    \E ys \in CheckedSets :
        /\ Begin(p, "clean_commitments",
                 [NoJob EXCEPT !.kind = "check", !.inputs = ys, !.now = clock])
        /\ UNCHANGED <<clock, service, store, clowder, replies>>

-----------------------------------------------------------------------------
(* check_state, on its own or inside commit_to_swap.  `now` is the instant  *)
(* the request arrived, which may be long past when the query runs.        *)

\* Mutant: a commitment is dropped in its last instant.
Expired_Early(s, now) == commitments[s] # None /\ commitments[s].expiration <= now

Expired(s, now) == commitments[s] # None /\ commitments[s].expiration < now

CleanCommitments(p) ==
    /\ pc[p] = "clean_commitments"
    /\ DeleteCommitments({s \in Sig : Expired(s, job[p].now)})
    /\ Goto(p, "clean_ys")
    /\ UNCHANGED <<clock, service, signatures, job, todo, seen, clowder, replies>>

CleanYs(p) ==
    /\ pc[p] = "clean_ys"
    /\ proofs' = [y \in Y |-> IF proofs[y].deadline # None /\ proofs[y].deadline < job[p].now
                              THEN NoRow ELSE proofs[y]]
    /\ Goto(p, "spent")
    /\ todo' = [todo EXCEPT ![p] = job[p].inputs]
    /\ UNCHANGED <<clock, service, commitments, outputs, signatures, job, seen, clowder, replies>>

\* The spent column of every y is read by a query of its own, in any order.
ReadSpent(p) ==
    \E y \in todo[p] :
        /\ pc[p] = "spent"
        /\ seen' = [seen EXCEPT ![p][y] = IF proofs[y].spent THEN "Spent" ELSE "Unspent"]
        /\ todo' = [todo EXCEPT ![p] = @ \ {y}]
        /\ UNCHANGED <<clock, service, store, pc, job, clowder, replies>>

\* One query for the reservations of all ys; the commitments of the ys that are
\* neither spent nor reserved are then looked up one by one.
ReadReserved(p) ==
    LET reserved == {y \in job[p].inputs :
                        seen[p][y] = "Unspent" /\ proofs[y].deadline # None}
    IN  /\ pc[p] = "spent" /\ todo[p] = {}
        /\ seen' = [seen EXCEPT ![p] = [y \in Y |-> IF y \in reserved THEN "Reserved"
                                                    ELSE seen[p][y]]]
        /\ todo' = [todo EXCEPT ![p] = {y \in job[p].inputs \ reserved :
                                            seen[p][y] = "Unspent"}]
        /\ Goto(p, "committed")
        /\ UNCHANGED <<clock, service, store, job, clowder, replies>>

ReadCommitted(p) ==
    \E y \in todo[p] :
        /\ pc[p] = "committed"
        /\ seen' = [seen EXCEPT ![p][y] = IF proofs[y].signature # None THEN "Reserved"
                                          ELSE "Unspent"]
        /\ todo' = [todo EXCEPT ![p] = @ \ {y}]
        /\ UNCHANGED <<clock, service, store, pc, job, clowder, replies>>

\* The states of all ys are known.
Checked(p) == pc[p] = "committed" /\ todo[p] = {}

CheckReply(p) ==
    /\ Checked(p) /\ job[p].kind = "check"
    /\ End(p)
    /\ UNCHANGED <<clock, service, store, clowder, replies>>

-----------------------------------------------------------------------------
(* commit_to_swap, once check_state has answered. *)

\* commitment_contains_outputs
OutputsFree(bs) == \A b \in bs : outputs[b] = None

\* Refused unless every input is unspent and no output is under a commitment.
CommitCheckOutputs(p) ==
    /\ Checked(p) /\ job[p].kind = "commit"
    /\ IF /\ \A y \in job[p].inputs : seen[p][y] = "Unspent"
          /\ OutputsFree(job[p].outputs)
       THEN Goto(p, "clowder") /\ UNCHANGED <<job, todo, seen>>
       ELSE End(p)
    /\ UNCHANGED <<clock, service, store, clowder, replies>>

\* External: clowder signs the commitment.  Asked twice for the same contents it
\* may return the signature it gave before.
ClowderCommits(p) ==
    \E s \in Sig :
        /\ pc[p] = "clowder"
        /\ issued[s] \in {None, job[p].content}
        /\ issued' = [issued EXCEPT ![s] = job[p].content]
        /\ job' = [job EXCEPT ![p].sig = s]
        /\ Goto(p, "store")
        /\ UNCHANGED <<clock, service, store, todo, seen, acked, melted, replies>>

\* Mutant: inserting the inputs overwrites rows that other holders inserted.
Insertable_Overwrites(j) ==
    /\ commitments[j.sig] = None
    /\ \A y \in j.inputs : ~proofs[y].spent
    /\ \A b \in j.outputs : outputs[b] = None

\* The transaction of commitment_store inserts every row or none: the key of the
\* commitment, of each input and of each output must be free.
Insertable(j) ==
    /\ commitments[j.sig] = None
    /\ \A y \in j.inputs : Vacant(y)
    /\ \A b \in j.outputs : outputs[b] = None

\* A conflict is answered like a success, with the commitment.
StoreCommitment(p) ==
    LET j == job[p]
    IN  /\ pc[p] = "store"
        /\ IF Insertable(j)
           THEN /\ commitments' = [commitments EXCEPT ![j.sig] =
                        [inputs |-> j.inputs, expiration |-> j.expiry, owner |-> j.owner]]
                /\ proofs' = [y \in Y |-> IF y \in j.inputs THEN CommittedRow(j.sig)
                                          ELSE proofs[y]]
                /\ outputs' = [b \in B |-> IF b \in j.outputs THEN j.sig ELSE outputs[b]]
           ELSE UNCHANGED <<commitments, proofs, outputs>>
        /\ End(p)
        /\ UNCHANGED <<clock, service, signatures, clowder, replies>>
-----------------------------------------------------------------------------
(* swap: redeem a commitment. *)

\* A wallet redeems a signature clowder issued, with inputs and outputs that need
\* not be the committed ones.
SwapStart(p) ==
    \E s \in Sig, r \in Contents, q \in Contents :
        /\ issued[s] # None
        /\ Begin(p, "load", [NoJob EXCEPT !.kind = "swap", !.inputs = r.inputs,
                                          !.outputs = q.outputs, !.sig = s, !.now = clock])
        /\ UNCHANGED <<clock, service, store, clowder, replies>>

\* Mutant: the inputs are not compared with the committed digest.
Redeemable_AnyInputs(j) ==
    /\ commitments[j.sig] # None
    /\ OutsideSettleWindow(commitments[j.sig].owner, j.now)
    /\ commitments[j.sig].expiration >= j.now

\* The row of the commitment admits this swap.
Redeemable(j) ==
    /\ commitments[j.sig] # None
    /\ OutsideSettleWindow(commitments[j.sig].owner, j.now)
    /\ commitments[j.sig].expiration >= j.now
    /\ commitments[j.sig].inputs = j.inputs

LoadCommitment(p) ==
    /\ pc[p] = "load"
    /\ IF Redeemable(job[p])
       THEN /\ Goto(p, "load_outputs")
            /\ job' = [job EXCEPT ![p].owner = commitments[job[p].sig].owner]
            /\ UNCHANGED <<todo, seen>>
       ELSE End(p)
    /\ UNCHANGED <<clock, service, store, clowder, replies>>

OutputsMatch(j) == OutputsOf(j.sig) = j.outputs

\* The outputs of the commitment are read by a query of their own, outside of any
\* transaction: the commitment may be gone by then.
LoadOutputs(p) ==
    /\ pc[p] = "load_outputs"
    /\ IF OutputsMatch(job[p])
       THEN /\ Goto(p, "sign")
            /\ todo' = [todo EXCEPT ![p] = job[p].outputs]
            /\ UNCHANGED <<job, seen>>
       ELSE End(p)
    /\ UNCHANGED <<clock, service, store, clowder, replies>>

\* Mutant: an output that is signed already is signed again.
SignBlind_Twice(p) ==
    \E b \in todo[p] :
        /\ pc[p] = "sign"
        /\ signatures' = signatures \cup {b}
        /\ todo' = [todo EXCEPT ![p] = @ \ {b}]
        /\ UNCHANGED <<clock, service, proofs, commitments, outputs, pc, job, seen,
                       clowder, replies>>

\* Outputs are signed one by one and each signature is stored before the next; an
\* output that already has a signature ends the request, those before it stay.
SignBlind(p) ==
    \E b \in todo[p] :
        /\ pc[p] = "sign"
        /\ IF b \in signatures
           THEN End(p) /\ UNCHANGED signatures
           ELSE /\ signatures' = signatures \cup {b}
                /\ todo' = [todo EXCEPT ![p] = @ \ {b}]
                /\ UNCHANGED <<pc, job, seen>>
        /\ UNCHANGED <<clock, service, proofs, commitments, outputs, clowder, replies>>

\* Mutant: the event is signalled while outputs are still being signed.
AllSigned_Early(p) == pc[p] = "sign"

\* Every output of the swap has its signature stored.
AllSigned(p) == pc[p] = "sign" /\ todo[p] = {}

\* External: clowder acknowledges a swap only if nothing it consumes was consumed
\* before; its ledger is the authority on spends.
ClowderAccepts(inputs) == inputs \cap Consumed = {}

\* The event is acknowledged, and the acknowledgement may be lost on the way back.
SignalSwap(p) ==
    LET j == job[p]
    IN  /\ AllSigned(p)
        /\ ClowderAccepts(j.inputs)
        /\ acked' = acked \cup {[sig |-> j.sig, inputs |-> j.inputs, outputs |-> j.outputs]}
        /\ \/ Goto(p, "insert") /\ UNCHANGED <<job, todo, seen>>
           \/ End(p)
        /\ UNCHANGED <<clock, service, store, issued, melted, replies>>

\* Mutant: a refusal is taken for an acknowledgement.
SignalRefused_Ignored(p) ==
    /\ AllSigned(p)
    /\ Goto(p, "insert")
    /\ UNCHANGED <<clock, service, store, job, todo, seen, clowder, replies>>

\* Clowder refuses the event, or cannot be reached.
SignalRefused(p) ==
    /\ AllSigned(p)
    /\ End(p)
    /\ UNCHANGED <<clock, service, store, clowder, replies>>

\* proofs_insert marks every y spent, whatever else held its row, or none of them.
MarkSpent(ys) ==
    proofs' = [y \in Y |-> IF y \in ys THEN SpentRow(proofs[y]) ELSE proofs[y]]

\* Mutant: a strict insert, that fails on any row there is.
NoneSpent_StrictInsert(ys) == \A y \in ys : Vacant(y)

NoneSpent(ys) == \A y \in ys : ~proofs[y].spent

\* The wallet gets its signatures.
Pay(p) == paid' = [y \in Y |-> IF y \in job[p].inputs THEN paid[y] + 1 ELSE paid[y]]

InsertProofs(p) ==
    /\ pc[p] = "insert"
    /\ NoneSpent(job[p].inputs)
    /\ MarkSpent(job[p].inputs)
    /\ Goto(p, "delete")
    /\ UNCHANGED <<clock, service, commitments, outputs, signatures, job, todo, seen,
                   clowder, replies>>

\* A proof was spent already: the reply carries the signatures all the same, and the
\* commitment stays.
InsertProofsRefused(p) ==
    /\ pc[p] = "insert"
    /\ ~NoneSpent(job[p].inputs)
    /\ Pay(p)
    /\ End(p)
    /\ UNCHANGED <<clock, service, store, clowder, restored, fees, recovered>>

DeleteCommitment(p) ==
    /\ pc[p] = "delete"
    /\ DeleteCommitments({job[p].sig})
    /\ Goto(p, "fees")
    /\ UNCHANGED <<clock, service, signatures, job, todo, seen, clowder, replies>>

StoreFees(p) ==
    /\ pc[p] = "fees"
    /\ fees' = fees \cup {job[p].sig}
    /\ Pay(p)
    /\ End(p)
    /\ UNCHANGED <<clock, service, store, clowder, restored, recovered>>

\* Any call of the repository or of a peer may fail, and the server drops the
\* handler of a connection that closes: the request ends where it is.
Fail(p) ==
    /\ pc[p] # "idle"
    /\ End(p)
    /\ UNCHANGED <<clock, service, store, clowder, replies>>

-----------------------------------------------------------------------------
(* Calls that are one repository call each. *)

\* External: clowder melts proofs for the treasury, which then burns them here.
ClowderMelts ==
    \E ys \in Melts :
        /\ ClowderAccepts(ys)
        /\ melted' = melted \cup ys
        /\ UNCHANGED <<clock, service, store, handlers, issued, acked, replies>>

Burn ==
    \E ys \in {m \in Melts : m \subseteq melted} \cup AdminBurns :
        /\ NoneSpent(ys)
        /\ MarkSpent(ys)
        /\ UNCHANGED <<clock, service, commitments, outputs, signatures, handlers,
                       clowder, replies>>

\* Mutant: a reservation takes any proof that is not spent.
Reservable_Unspent(ys) == NoneSpent(ys)

Reservable(ys) == \A y \in ys : Vacant(y)

Reserve ==
    \E ys \in Melts, deadline \in clock..MaxClock :
        /\ Reservable(ys)
        /\ proofs' = [y \in Y |-> IF y \in ys THEN ReservedRow(deadline) ELSE proofs[y]]
        /\ UNCHANGED <<clock, service, commitments, outputs, signatures, handlers,
                       clowder, replies>>

\* proofs_remove deletes the rows of spent proofs and leaves the others alone; the
\* sets enumerated here hold spent proofs only.
Recover ==
    \E ys \in SUBSET Y :
        /\ ys # {} /\ \A y \in ys : proofs[y].spent
        /\ Cardinality(recovered \cup ys) <= MaxRecovers
        /\ proofs' = [y \in Y |-> IF y \in ys THEN NoRow ELSE proofs[y]]
        /\ recovered' = recovered \cup ys
        /\ UNCHANGED <<clock, service, commitments, outputs, signatures, handlers,
                       clowder, paid, restored, fees>>

SignatureStored(b) == b \in signatures

\* The restore endpoint returns the signatures it finds stored.
Restore ==
    \E b \in Restores \ restored :
        /\ SignatureStored(b)
        /\ restored' = restored \cup {b}
        /\ UNCHANGED <<clock, service, store, handlers, clowder, paid, fees, recovered>>

-----------------------------------------------------------------------------
Tick ==
    /\ clock < MaxClock
    /\ clock' = clock + 1
    /\ UNCHANGED <<service, store, handlers, clowder, replies>>

\* The service stops and starts again: requests in flight are gone, the settle
\* window opens anew.
Crash ==
    /\ crashes < MaxCrashes
    /\ crashes' = crashes + 1
    /\ settleDeadline' = clock + SettleWindow
    /\ pc' = [p \in Proc |-> "idle"]
    /\ job' = [p \in Proc |-> NoJob]
    /\ todo' = [p \in Proc |-> {}]
    /\ seen' = [p \in Proc |-> [y \in Y |-> "Unspent"]]
    /\ UNCHANGED <<clock, store, clowder, replies>>

CommitStep(p) ==
    \/ CommitStart(p) \/ CheckStart(p) \/ CleanCommitments(p) \/ CleanYs(p)
    \/ ReadSpent(p) \/ ReadReserved(p) \/ ReadCommitted(p) \/ CheckReply(p)
    \/ CommitCheckOutputs(p) \/ ClowderCommits(p) \/ StoreCommitment(p)

SwapStep(p) ==
    \/ SwapStart(p) \/ LoadCommitment(p) \/ LoadOutputs(p) \/ SignBlind(p)
    \/ SignalSwap(p) \/ SignalRefused(p) \/ InsertProofs(p) \/ InsertProofsRefused(p)
    \/ DeleteCommitment(p) \/ StoreFees(p)

Next ==
    \/ \E p \in Proc : CommitStep(p) \/ SwapStep(p) \/ Fail(p)
    \/ ClowderMelts \/ Burn \/ Reserve \/ Recover \/ Restore
    \/ Tick \/ Crash

Spec == Init /\ [][Next]_vars

-----------------------------------------------------------------------------
(* Properties. *)

TypeOK ==
    /\ clock \in Nat /\ settleDeadline \in Nat /\ crashes \in Nat
    /\ proofs \in [Y -> Row] /\ \A y \in Y : OneColumn(proofs[y])
    /\ commitments \in [Sig -> Commitment \cup {None}]
    /\ outputs \in [B -> Sig \cup {None}]
    /\ signatures \in SUBSET B
    /\ pc \in [Proc -> PCs]
    /\ job \in [Proc -> Jobs]
    /\ todo \in [Proc -> SUBSET (Y \cup B)]
    /\ seen \in [Proc -> [Y -> States]]
    /\ issued \in [Sig -> Contents \cup {None}]
    /\ acked \in SUBSET Event
    /\ melted \in SUBSET Y
    /\ paid \in [Y -> Nat]
    /\ restored \in SUBSET B
    /\ fees \in SUBSET Sig
    /\ recovered \in SUBSET Y

\* A stored commitment is exactly what clowder signed: it holds the inputs and every
\* output of the contents the signature was given for, and nothing is held by a
\* commitment that is not stored (commitment_store, commitment_delete and the cleaning
\* move rows of three tables together).
CommitmentsWhole ==
    /\ \A s \in Sig : commitments[s] # None =>
          /\ commitments[s].inputs = issued[s].inputs
          /\ OutputsOf(s) = issued[s].outputs
    /\ \A b \in B : outputs[b] # None => commitments[outputs[b]] # None
    /\ \A y \in Y : proofs[y].signature # None => commitments[proofs[y].signature] # None

\* While a commitment is stored, each of its inputs is locked by it or spent: no other
\* commitment and no reservation gets hold of it, however check_state's reads and
\* commitment_store interleave.  A proof that was recovered is the exception.
LockHolds ==
    \A s \in Sig : commitments[s] # None =>
        \A y \in commitments[s].inputs \ recovered :
            proofs[y].signature = s \/ proofs[y].spent

\* What clowder acknowledged is what it had signed the commitment for: the swap handler
\* never signals other inputs or outputs, although the commitment may be deleted,
\* expire or be stored again while it runs.
AckedAsCommitted ==
    \A e \in acked : issued[e.sig] # None
        /\ e.inputs = issued[e.sig].inputs /\ e.outputs = issued[e.sig].outputs

\* An acknowledged swap can always be completed by its wallet: every signature is stored
\* before clowder hears of the swap, so restore returns it even if the reply is lost or
\* the service stops.
AckedIsRestorable == \A e \in acked : e.outputs \subseteq signatures

\* Outputs are signed for one acknowledged swap only: swaps in flight of one commitment, or
\* of two that have an output in common and were stored one after the other, never both
\* reach clowder.
OutputsAckedOnce ==
    \A e, f \in acked : e # f => e.outputs \cap f.outputs = {} /\ e.sig # f.sig

\* No proof backs two swap replies, although a swap in flight may outlive its commitment
\* and see its inputs committed again.
NoInputPaysTwice == \A y \in Y : paid[y] <= 1

\* A swap is answered with signatures, and its fees kept, only once its inputs are marked
\* spent: the mint never pays for a proof it still lists as unspent.  An operator's burn
\* of one input is the exception (proofs_insert then marks none of them, and the reply is
\* a success), so this is checked without such burns.
PaidIsSpent ==
    \A y \in Y : paid[y] > 0 => proofs[y].spent \/ y \in recovered

\* The handlers of swaps that clowder has acknowledged.
Acknowledged(p) == pc[p] \in {"insert", "delete", "fees"}

\* What a handler has got done when it gets to a step: it holds a signature from clowder
\* on, and signs the outputs of its request and no others, storing each signature.
InOrder(p) ==
    /\ pc[p] \in {"store", "load", "load_outputs", "sign"} \/ Acknowledged(p) =>
          job[p].sig \in Sig
    /\ pc[p] = "sign" =>
          todo[p] \subseteq job[p].outputs /\ job[p].outputs \ todo[p] \subseteq signatures

HandlersInOrder == \A p \in Proc : InOrder(p)

\* A proof that clowder let a swap consume is in the hands of one handler until it is
\* paid for, and of none afterwards.
ConsumedOnce ==
    /\ \A p \in Proc : Acknowledged(p) =>
          \A y \in job[p].inputs : y \in Consumed /\ paid[y] = 0
    /\ \A p, q \in Proc : p # q /\ Acknowledged(p) /\ Acknowledged(q) =>
          job[p].inputs \cap job[q].inputs = {}
    /\ \A y \in Y : paid[y] > 0 => y \in Consumed

\* What a handler knows of its commitment: one that commits has what the wallet asked for,
\* and once clowder signed it so has clowder; one that redeems has compared its inputs, and
\* then its outputs, with what clowder signed, although the commitment may be gone by then.
Agrees(p) ==
    LET j == job[p]
    IN  /\ j.kind = "commit" =>
              j.content \in Contents /\ j.inputs = j.content.inputs /\ j.outputs = j.content.outputs
        /\ pc[p] \in {"clowder", "store"} => j.kind = "commit"
        /\ pc[p] = "store" => issued[j.sig] = j.content
        /\ pc[p] \in {"load", "load_outputs", "sign"} \/ Acknowledged(p) =>
              issued[j.sig] # None /\ j.outputs # {}
        /\ pc[p] \in {"load_outputs", "sign"} \/ Acknowledged(p) =>
              j.inputs = issued[j.sig].inputs
        /\ pc[p] = "sign" \/ Acknowledged(p) => j.outputs = issued[j.sig].outputs

\* Every stored commitment was signed by clowder, as CommitmentsWhole relates them.
HandlersAgree ==
    /\ \A s \in Sig : commitments[s] # None => issued[s] # None
    /\ \A p \in Proc : Agrees(p)

\* The outputs that handler p has signed and clowder has not heard of.
SignedBy(p) == IF pc[p] = "sign" THEN job[p].outputs \ todo[p] ELSE {}

\* Each signature is of one handler until clowder hears of it, and of one event then.
SignedOnce ==
    /\ \A p, q \in Proc : p # q => SignedBy(p) \cap SignedBy(q) = {}
    /\ \A p \in Proc, e \in acked : SignedBy(p) \cap e.outputs = {}

\* A request does not come from the future, and one that redeems a commitment has found
\* the settle window closed to it; the window only moves when all requests are gone.
WindowSeen ==
    \A p \in Proc :
        /\ job[p].now <= clock
        /\ pc[p] \in {"load_outputs", "sign"} \/ Acknowledged(p) =>
              job[p].owner = "Beta" \/ clock >= settleDeadline

\* A handler past proofs_insert has marked its inputs.  Where no operator burns proofs,
\* only what clowder consumed is marked, and nobody marks the inputs of a handler between
\* clowder's acknowledgement and its own proofs_insert.
InsertedIsSpent ==
    /\ \A p \in Proc : pc[p] \in {"delete", "fees"} =>
          \A y \in job[p].inputs : proofs[y].spent \/ y \in recovered
    /\ AdminBurns = {} =>
          /\ \A y \in Y : proofs[y].spent => y \in Consumed
          /\ \A p \in Proc : pc[p] = "insert" =>
                \A y \in job[p].inputs : ~proofs[y].spent /\ y \notin melted
          /\ PaidIsSpent

\* The rows that a commitment holds are inputs that clowder signed it for.
LockedIsInput ==
    \A y \in Y : proofs[y].signature # None => y \in issued[proofs[y].signature].inputs

\* No commitment outlives the last instant by more than Service::max_expiry.
ExpiryBounded ==
    clock <= MaxClock /\ \A p \in Proc : job[p].expiry <= MaxClock + MaxExpiry

\* The inductive invariant behind the theorems of CoreMintProofs and CoreMintSwapProofs.
IndInv ==
    /\ TypeOK /\ HandlersInOrder /\ LockHolds /\ AckedIsRestorable /\ ConsumedOnce
    /\ NoInputPaysTwice
    /\ CommitmentsWhole /\ HandlersAgree /\ AckedAsCommitted /\ SignedOnce
    /\ OutputsAckedOnce /\ WindowSeen /\ InsertedIsSpent /\ LockedIsInput /\ ExpiryBounded

\* A swap past its checks that does not come from a Beta runs outside of the settle
\* window, whenever the service was last restarted.
SettleWindowClosed ==
    \A p \in Proc : pc[p] \in {"sign", "insert", "delete", "fees"} =>
        job[p].owner = "Beta" \/ clock >= settleDeadline

\* A spent proof stays spent unless it is recovered: neither the cleaning of commitments
\* and reservations nor the deletion of a commitment takes its row along.
SpentIsForever ==
    [][\A y \in Y : proofs[y].spent /\ ~proofs'[y].spent => y \in recovered']_vars

\* A commitment still in force goes only once its inputs are spent: it is not dropped
\* before it expires by the wall clock, though the cleaning runs with the clock reading
\* of an older request.
CommitmentKept ==
    [][\A s \in Sig :
          commitments[s] # None /\ commitments'[s] = None =>
             \/ commitments[s].expiration < clock
             \/ \A y \in commitments[s].inputs : proofs[y].spent \/ y \in recovered]_vars

-----------------------------------------------------------------------------
(* The abstract specification this one implements: the lock of each proof. *)

LockOf(y) ==
    IF y \in recovered THEN [state |-> "recovered"]
    ELSE IF proofs[y].spent THEN [state |-> "spent"]
    ELSE IF proofs[y].signature # None
         THEN [state |-> "held", by |-> proofs[y].signature,
               until |-> commitments[proofs[y].signature].expiration]
    ELSE IF proofs[y].deadline # None
         THEN [state |-> "held", by |-> None, until |-> proofs[y].deadline]
    ELSE [state |-> "free"]

Locks == INSTANCE ProofLocks WITH
            Holders <- Sig \cup {None},
            MaxClock <- MaxClock + MaxExpiry,
            lock <- [y \in Y |-> LockOf(y)]

\* Whatever handlers do in between, the rows of core_proofs behave as exclusive holds that
\* end by their deadline or by the spend (commitment_store, ys_store, the cleaning,
\* proofs_insert and proofs_remove each are one step of ProofLocks; all other steps leave
\* every lock as it is).
ImplementsLocks == Locks!Spec
=============================================================================
