----------------------------- MODULE CoreTables -----------------------------
(***************************************************************************)
(* The repository the core service falls back on when no Postgres is       *)
(* configured, persistence::surreal, under the swap handlers, and the      *)
(* program that moves its data to Postgres, bin/migrate.rs.                *)
(*                                                                         *)
(* CoreMint's one row per proof is three tables here: spent proofs,        *)
(* commitments with arrays of inputs and outputs, and reserved proofs.     *)
(* No table looks at another one when it is written to, so exclusion is    *)
(* what is left of it: a commitment excludes commitments, a reservation    *)
(* reservations, a spend spends.                                           *)
(*                                                                         *)
(* Abstractions, next to those of CoreMint: check_state's reads are one    *)
(* step (CoreMint has them apart), clowder signs each commitment anew, and *)
(* the settle window is left out.  A transaction of SurrealDB is taken to  *)
(* be serialisable.                                                        *)
(***************************************************************************)
EXTENDS Naturals, FiniteSets

CONSTANTS
    Y, B, Sig,     \* proofs, outputs, clowder's signatures on commitments
    Kid,           \* keysets
    KeysetOf,      \* the keyset an output asks to be signed with
    Proc,          \* slots for requests in flight
    Contents,      \* what wallets ask to commit: [inputs, outputs, expiry]
    Melts,         \* sets of proofs that the treasury reserves, melts and burns
    AdminBurns,    \* sets of proofs that an operator burns without a melt
    MaxExpiry,     \* Service::max_expiry
    MaxClock,      \* bound: the last instant of the model
    MaxStops,      \* bound: how often the service or the migration is stopped
    MaxRecovers    \* bound: calls of the recover endpoint

ASSUME ContentsAssumption ==
    \A r \in Contents : r \in [inputs: SUBSET Y, outputs: SUBSET B, expiry: Nat]

ASSUME ParameterAssumption ==
    /\ KeysetOf \in [B -> Kid]
    /\ Melts \subseteq SUBSET Y /\ AdminBurns \subseteq SUBSET Y
    /\ MaxExpiry \in Nat /\ MaxClock \in Nat /\ MaxStops \in Nat /\ MaxRecovers \in Nat

VARIABLES
    clock,
    \* the tables, as sets of rows
    keys,          \* keys: a row per keyset
    spent,         \* proofs: a row per spent y
    commitments,   \* commitments: [sig, inputs, outputs, expiration]
    reserved,      \* reserved_ys: [y, deadline]
    signed,        \* signatures: a row per signed output
    \* the requests in flight
    pc, job,
    \* external: clowder's ledger
    issued,        \* the commitments clowder signed
    consumed,      \* proofs that swaps and melts consumed
    acked,         \* outputs of the swaps it acknowledged
    \* what left the mint, and bounded histories
    paid, recovered, stops,
    \* which program runs, what the migration has yet to copy, what Postgres holds, and
    \* what the attempt at hand has reported as skipped
    phase, rest, copied, skipped

tables == <<keys, spent, commitments, reserved, signed>>
handlers == <<pc, job>>
clowder == <<issued, consumed, acked>>
history == <<paid, recovered, stops>>
migration == <<phase, rest, copied, skipped>>
vars == <<clock, tables, handlers, clowder, history, migration>>

Commitment == [sig: Sig, inputs: SUBSET Y, outputs: SUBSET B, expiration: Nat]

\* A request: the commitment it asks for or redeems, the rest of its outputs to sign,
\* and the instant it arrived.
Job == [inputs: SUBSET Y, outputs: SUBSET B, expiration: Nat, sigs: SUBSET Sig,
        todo: SUBSET B]

PCs == {"idle", "clowder", "store", "sign", "insert", "delete"}

NoJob == [inputs |-> {}, outputs |-> {}, expiration |-> 0, sigs |-> {}, todo |-> {}]

NoneSkipped == [keys |-> {}, signatures |-> {}]

Init ==
    /\ clock = 0
    /\ keys = {} /\ spent = {} /\ commitments = {} /\ reserved = {} /\ signed = {}
    /\ pc = [p \in Proc |-> "idle"] /\ job = [p \in Proc |-> NoJob]
    /\ issued = {} /\ consumed = {} /\ acked = {}
    /\ paid = [y \in Y |-> 0] /\ recovered = {} /\ stops = 0
    /\ phase = "serving" /\ rest = {} /\ copied = [keys |-> {}, signatures |-> {}, proofs |-> {}]
    /\ skipped = NoneSkipped

Goto(p, l) == pc' = [pc EXCEPT ![p] = l]
End(p) == Goto(p, "idle") /\ job' = [job EXCEPT ![p] = NoJob]
Serving(p, l) == phase = "serving" /\ pc[p] = l

-----------------------------------------------------------------------------
(* commit_to_swap. *)

\* Mutant: what is in force for one more instant is dropped.
Live_Strict(commitment, now) == commitment.expiration > now

\* The cleaning queries leave what is not over.
Live(commitment, now) == commitment.expiration >= now

InForce(reservation, now) == reservation.deadline >= now

HoldsInput(commitment, ys) == commitment.inputs \cap ys # {}
HoldsOutput(commitment, bs) == commitment.outputs \cap bs # {}
Spent(ys) == ys \cap spent # {}
Reserved(reservations, ys) == \E t \in reservations : t.y \in ys
Known(bs) == \A b \in bs : KeysetOf[b] \in keys

\* The queries that a commit begins with: the expired rows go, and the request is refused
\* unless its keysets exist, no table lists an input and no commitment an output.
CommitStart(p) ==
    \E r \in Contents :
        LET left == {c \in commitments : Live(c, clock)}
            held == {t \in reserved : InForce(t, clock)}
            until == IF r.expiry <= clock + MaxExpiry THEN r.expiry ELSE clock + MaxExpiry
        IN  /\ Serving(p, "idle") /\ r.expiry >= clock /\ Known(r.outputs)
            /\ commitments' = left /\ reserved' = held
            /\ IF /\ ~Spent(r.inputs) /\ ~Reserved(held, r.inputs)
                  /\ \A c \in left : ~HoldsInput(c, r.inputs) /\ ~HoldsOutput(c, r.outputs)
               THEN /\ Goto(p, "clowder")
                    /\ job' = [job EXCEPT ![p] = [NoJob EXCEPT
                            !.inputs = r.inputs, !.outputs = r.outputs, !.expiration = until]]
               ELSE UNCHANGED handlers
            /\ UNCHANGED <<clock, keys, spent, signed, clowder, history, migration>>

\* External: clowder signs the commitment.
ClowderCommits(p) ==
    \E s \in Sig :
        /\ Serving(p, "clowder")
        /\ \A c \in issued : c.sig # s
        /\ issued' = issued \cup {[sig |-> s, inputs |-> job[p].inputs,
                                   outputs |-> job[p].outputs,
                                   expiration |-> job[p].expiration]}
        /\ job' = [job EXCEPT ![p].sigs = {s}]
        /\ Goto(p, "store")
        /\ UNCHANGED <<clock, tables, consumed, acked, history, migration>>

\* Mutant: inputs that another commitment holds are taken over.
Insertable_OutputsOnly(c) ==
    \A d \in commitments : d.sig # c.sig /\ d.outputs \cap c.outputs = {}

\* commitment_store looks for its key, and then, within a transaction, for rows that
\* share an input or an output.  The tables of spent and of reserved proofs are not asked.
Insertable(c) ==
    \A d \in commitments :
        d.sig # c.sig /\ d.inputs \cap c.inputs = {} /\ d.outputs \cap c.outputs = {}

\* A conflict is answered like a success.
StoreCommitment(p) ==
    \E s \in job[p].sigs :
        LET c == [sig |-> s, inputs |-> job[p].inputs, outputs |-> job[p].outputs,
                  expiration |-> job[p].expiration]
        IN  /\ Serving(p, "store")
            /\ commitments' = IF Insertable(c) THEN commitments \cup {c} ELSE commitments
            /\ End(p)
            /\ UNCHANGED <<clock, keys, spent, reserved, signed, clowder, history, migration>>

-----------------------------------------------------------------------------
(* swap. *)

\* commitment_load is one query.  Inputs and outputs have to be the committed ones.
SwapStart(p) ==
    \E c \in commitments :
        /\ Serving(p, "idle") /\ Live(c, clock)
        /\ job' = [job EXCEPT ![p] = [inputs |-> c.inputs, outputs |-> c.outputs,
                expiration |-> c.expiration, sigs |-> {c.sig}, todo |-> c.outputs]]
        /\ Goto(p, "sign")
        /\ UNCHANGED <<clock, tables, clowder, history, migration>>

\* A signature is inserted under a key that must be new; otherwise the request ends.
SignBlind(p) ==
    \E b \in job[p].todo :
        /\ Serving(p, "sign")
        /\ IF b \in signed
           THEN End(p) /\ UNCHANGED signed
           ELSE /\ signed' = signed \cup {b}
                /\ job' = [job EXCEPT ![p].todo = @ \ {b}]
                /\ UNCHANGED pc
        /\ UNCHANGED <<clock, keys, spent, commitments, reserved, clowder, history, migration>>

\* External: clowder refuses what was consumed before.
ClowderAccepts(ys) == ys \cap consumed = {}

\* Mutant: a refusal is taken for an acknowledgement.
Acknowledged_Ignored(p) == TRUE

Acknowledged(p) == ClowderAccepts(job[p].inputs)

\* The acknowledgement may be lost on its way.
SignalSwap(p) ==
    /\ Serving(p, "sign") /\ job[p].todo = {}
    /\ Acknowledged(p)
    /\ consumed' = consumed \cup job[p].inputs
    /\ acked' = acked \cup job[p].outputs
    /\ \/ Goto(p, "insert") /\ UNCHANGED job
       \/ End(p)
    /\ UNCHANGED <<clock, tables, issued, history, migration>>

Pay(p) == paid' = [y \in Y |-> IF y \in job[p].inputs THEN paid[y] + 1 ELSE paid[y]]

\* One insert of all rows, which fails if one exists.  Reservations stay where they are.
\* If it fails the reply carries the signatures all the same, and the commitment stays.
InsertProofs(p) ==
    /\ Serving(p, "insert")
    /\ IF ~Spent(job[p].inputs)
       THEN /\ spent' = spent \cup job[p].inputs
            /\ Goto(p, "delete") /\ UNCHANGED <<job, paid>>
       ELSE Pay(p) /\ End(p) /\ UNCHANGED spent
    /\ UNCHANGED <<clock, keys, commitments, reserved, signed, clowder, recovered, stops, migration>>

\* The commitment is deleted and the reply sent.
DeleteCommitment(p) ==
    /\ Serving(p, "delete")
    /\ commitments' = {c \in commitments : c.sig \notin job[p].sigs}
    /\ Pay(p) /\ End(p)
    /\ UNCHANGED <<clock, keys, spent, reserved, signed, clowder, recovered, stops, migration>>

\* A call fails, or the connection closes: the request ends where it is.
Fail(p) ==
    /\ phase = "serving" /\ pc[p] # "idle" /\ End(p)
    /\ UNCHANGED <<clock, tables, clowder, history, migration>>

-----------------------------------------------------------------------------
(* The endpoints the treasury and operators call. *)

\* A keyset is inserted once clowder knows it (Keysets has the two calls apart).
NewKeyset ==
    \E k \in Kid \ keys :
        /\ phase = "serving" /\ keys' = keys \cup {k}
        /\ UNCHANGED <<clock, spent, commitments, reserved, signed, handlers, clowder, history,
                       migration>>

Reservation(y, deadline) == [y |-> y, deadline |-> deadline]

\* ys_store inserts rows with new keys, or none; spent and committed proofs may be among
\* them.
Reserve ==
    \E ys \in Melts, deadline \in clock..MaxClock :
        /\ phase = "serving"
        /\ \A t \in reserved : t.y \notin ys
        /\ reserved' = reserved \cup {Reservation(y, deadline) : y \in ys}
        /\ UNCHANGED <<clock, keys, spent, commitments, signed, handlers, clowder, history, migration>>

\* External: clowder melts what the treasury holds.
ClowderMelts ==
    \E ys \in Melts :
        /\ ClowderAccepts(ys) /\ consumed' = consumed \cup ys
        /\ UNCHANGED <<clock, tables, handlers, issued, acked, history, migration>>

Burn ==
    \E ys \in {m \in Melts : m \subseteq consumed} \cup AdminBurns :
        /\ phase = "serving" /\ ~Spent(ys)
        /\ spent' = spent \cup ys
        /\ UNCHANGED <<clock, keys, commitments, reserved, signed, handlers, clowder, history, migration>>

\* proofs_remove deletes row after row and reads each deleted row as a cashu::Proof, whose
\* amount no row has: it fails at the first row there was, which is gone by then.
Recover ==
    \E y \in spent :
        /\ phase = "serving"
        /\ Cardinality(recovered \cup {y}) <= MaxRecovers
        /\ spent' = spent \ {y} /\ recovered' = recovered \cup {y}
        /\ UNCHANGED <<clock, keys, commitments, reserved, signed, handlers, clowder, paid, stops,
                       migration>>

-----------------------------------------------------------------------------
(* Stopping, starting, and moving to Postgres. *)

\* The service or the migration stops, whatever it is doing.
Stop ==
    /\ phase \in {"serving", "keys", "signatures", "proofs"} /\ stops < MaxStops
    /\ stops' = stops + 1 /\ phase' = "stopped" /\ rest' = {}
    /\ pc' = [p \in Proc |-> "idle"] /\ job' = [p \in Proc |-> NoJob]
    /\ UNCHANGED <<clock, tables, clowder, paid, recovered, copied, skipped>>

Start ==
    /\ phase = "stopped" /\ phase' = "serving"
    /\ UNCHANGED <<clock, tables, handlers, clowder, history, rest, copied, skipped>>

\* Mutant: the signatures come first.
Dump_SignaturesFirst ==
    /\ phase \in {"stopped", "migrated"} /\ phase' = "keys" /\ rest' = signed
    /\ skipped' = NoneSkipped
    /\ UNCHANGED <<clock, tables, handlers, clowder, history, copied>>

\* The migration reads the tables.  Operators run it, the first time or again, while the
\* service is stopped; nothing in the code sees to that.
Dump ==
    /\ phase \in {"stopped", "migrated"} /\ phase' = "keys" /\ rest' = keys
    /\ skipped' = NoneSkipped
    /\ UNCHANGED <<clock, tables, handlers, clowder, history, copied>>

\* Mutant: the loop ends at the first row that Postgres has.
RestAfter_Break(row, there) == IF row \in there THEN {} ELSE rest \ {row}

\* The loop goes on, whatever became of the row.
RestAfter(row, there) == rest \ {row}

\* keys_store inserts the row.  An insertion may fail, for whatever reason: that is a line
\* of output, and the next row's turn.  (A row that Postgres has makes it fail as well;
\* such a row is there, and is not counted as skipped.)
CopyKeyset ==
    \E k \in rest :
        /\ phase = "keys"
        /\ rest' = RestAfter(k, copied.keys)
        /\ \/ copied' = [copied EXCEPT !.keys = @ \cup {k}] /\ UNCHANGED skipped
           \/ skipped' = [skipped EXCEPT !.keys = @ \cup {k}] /\ UNCHANGED copied
        /\ UNCHANGED <<clock, tables, handlers, clowder, history, phase>>

CopiedKeysets ==
    /\ phase = "keys" /\ rest = {} /\ phase' = "signatures" /\ rest' = signed
    /\ UNCHANGED <<clock, tables, handlers, clowder, history, copied, skipped>>

\* signature_store, with the same two outcomes.
CopySignature ==
    \E b \in rest :
        /\ phase = "signatures"
        /\ rest' = RestAfter(b, copied.signatures)
        /\ \/ copied' = [copied EXCEPT !.signatures = @ \cup {b}] /\ UNCHANGED skipped
           \/ skipped' = [skipped EXCEPT !.signatures = @ \cup {b}] /\ UNCHANGED copied
        /\ UNCHANGED <<clock, tables, handlers, clowder, history, phase>>

CopiedSignatures ==
    /\ phase = "signatures" /\ rest = {} /\ phase' = "proofs"
    /\ UNCHANGED <<clock, tables, handlers, clowder, history, rest, copied, skipped>>

\* insert_v0 inserts all proofs in a transaction that any proof of Postgres undoes; it
\* may also fail for other reasons (Stop).
CopyProofs ==
    /\ phase = "proofs"
    /\ IF ~Spent(copied.proofs)
       THEN copied' = [copied EXCEPT !.proofs = @ \cup spent] /\ phase' = "migrated"
       ELSE phase' = "stopped" /\ UNCHANGED copied
    /\ UNCHANGED <<clock, tables, handlers, clowder, history, rest, skipped>>

\* After a migration that ended without an error the old database is of no use, yet the
\* service can be started on it again.
Restart ==
    /\ phase = "migrated" /\ stops < MaxStops
    /\ stops' = stops + 1 /\ phase' = "serving"
    /\ UNCHANGED <<clock, tables, handlers, clowder, paid, recovered, rest, copied, skipped>>

Tick ==
    /\ clock < MaxClock /\ clock' = clock + 1
    /\ UNCHANGED <<tables, handlers, clowder, history, migration>>

Next ==
    \/ \E p \in Proc :
          \/ CommitStart(p) \/ ClowderCommits(p) \/ StoreCommitment(p)
          \/ SwapStart(p) \/ SignBlind(p) \/ SignalSwap(p) \/ InsertProofs(p)
          \/ DeleteCommitment(p) \/ Fail(p)
    \/ NewKeyset \/ Reserve \/ ClowderMelts \/ Burn \/ Recover
    \/ Stop \/ Start \/ Dump \/ CopyKeyset \/ CopiedKeysets \/ CopySignature
    \/ CopiedSignatures \/ CopyProofs \/ Restart
    \/ Tick

Spec == Init /\ [][Next]_vars

-----------------------------------------------------------------------------
(* Properties. *)

TypeOK ==
    /\ clock \in Nat /\ stops \in Nat
    /\ spent \subseteq Y /\ consumed \subseteq Y /\ recovered \subseteq Y
    /\ signed \subseteq B /\ acked \subseteq B /\ keys \subseteq Kid
    /\ commitments \subseteq Commitment /\ issued \subseteq Commitment
    /\ reserved \subseteq [y: Y, deadline: Nat]
    /\ pc \in [Proc -> PCs]
    /\ job \in [Proc -> Job]
    /\ paid \in [Y -> Nat]
    /\ phase \in {"serving", "stopped", "keys", "signatures", "proofs", "migrated"}
    /\ rest \subseteq IF phase = "keys" THEN Kid ELSE B
    /\ copied \in [keys: SUBSET Kid, signatures: SUBSET B, proofs: SUBSET Y]
    /\ skipped \in [keys: SUBSET Kid, signatures: SUBSET B]

\* An input or an output is under one stored commitment only, though commits race between
\* their look at the tables and the insert, and though clowder signs each of them.
HeldOnce ==
    \A c, d \in commitments : c # d =>
        c.sig # d.sig /\ c.inputs \cap d.inputs = {} /\ c.outputs \cap d.outputs = {}

\* No proof backs two swap replies, although nothing here keeps a reserved, burnt or
\* recovered proof from being committed and redeemed again.
NoInputPaysTwice == \A y \in Y : paid[y] <= 1

\* After a migration that ended well Postgres lists every spent proof, and of the swaps
\* clowder acknowledged it has every signature, and the keyset of each, but those that this
\* very attempt has named as skipped: no attempt that broke off earlier, and no spell of
\* service in between, leaves a gap that the last one is silent about.  The program ends
\* well all the same when it has skipped rows, so without its output nothing is known of
\* keysets and signatures.
GapsAreNamed ==
    phase = "migrated" =>
        /\ spent \subseteq copied.proofs
        /\ acked \subseteq copied.signatures \cup skipped.signatures
        /\ \A b \in acked : KeysetOf[b] \in copied.keys \cup skipped.keys

\* Every signature of a swap in flight is stored before clowder hears of the swap.
SignedFirst ==
    /\ acked \subseteq signed
    /\ \A p \in Proc : pc[p] = "sign" => job[p].outputs \ job[p].todo \subseteq signed

\* Whatever gets signed, gets signed with a keyset there is.
SignedWithKeys ==
    /\ Known(signed) /\ \A c \in commitments : Known(c.outputs)
    /\ \A p \in Proc : Known(job[p].outputs) /\ Known(job[p].todo)

\* Clowder has let request p consume its inputs.
InHand(p) == pc[p] \in {"insert", "delete"}

\* A proof that clowder let a swap consume is in the hands of one request until it is paid
\* for, and of none afterwards.
ConsumedOnce ==
    /\ \A p \in Proc : InHand(p) =>
          \A y \in job[p].inputs : y \in consumed /\ paid[y] = 0
    /\ \A p, q \in Proc : p # q /\ InHand(p) /\ InHand(q) =>
          job[p].inputs \cap job[q].inputs = {}
    /\ \A y \in Y : paid[y] > 0 => y \in consumed

\* What the migration has copied, or skipped, at each stage.
CopiedSoFar ==
    /\ phase = "keys" => keys \subseteq rest \cup copied.keys \cup skipped.keys
    /\ phase \in {"signatures", "proofs", "migrated"} =>
          keys \subseteq copied.keys \cup skipped.keys
    /\ phase = "signatures" =>
          signed \subseteq rest \cup copied.signatures \cup skipped.signatures
    /\ phase \in {"proofs", "migrated"} =>
          signed \subseteq copied.signatures \cup skipped.signatures
    /\ phase = "migrated" => spent \subseteq copied.proofs

\* The inductive invariant behind the theorems of CoreTablesProofs.
IndInv ==
    TypeOK /\ HeldOnce /\ SignedFirst /\ SignedWithKeys /\ ConsumedOnce /\ CopiedSoFar
    /\ NoInputPaysTwice

-----------------------------------------------------------------------------
(* What is left of the lock of ProofLocks: the holds of commitments.  A reservation *)
(* holds nothing here that a commitment would respect.                              *)

HolderOf(y) == CHOOSE c \in commitments : y \in c.inputs

LockOf(y) ==
    IF y \in recovered THEN [state |-> "recovered"]
    ELSE IF y \in spent THEN [state |-> "spent"]
    ELSE IF \E c \in commitments : y \in c.inputs
         THEN [state |-> "held", by |-> HolderOf(y).sig, until |-> HolderOf(y).expiration]
    ELSE [state |-> "free"]

Locks == INSTANCE ProofLocks WITH
            Holders <- Sig, MaxClock <- MaxClock + MaxExpiry,
            lock <- [y \in Y |-> LockOf(y)]

\* Commitments behave as exclusive holds that end by their expiry or by the spend, with the
\* tables of SurrealDB as with the rows of Postgres.
ImplementsLocks == Locks!Spec
=============================================================================
