------------------------------ MODULE Onchain ------------------------------
(***************************************************************************)
(* On-chain melts and mints of bcr-wdc-treasury-service.  A melt quote     *)
(* reserves proofs at the core service and a part of clowder's reserve; a  *)
(* melt has clowder pay it, burns the proofs and banks the fees.  A mint   *)
(* quote waits for a payment, which a monitor looks for; it then has the   *)
(* outputs signed and clowder told.  The core service is composed by what  *)
(* it promises of proofs (ProofLocks).                                     *)
(*                                                                         *)
(* Abstractions.  Checks of a request that depend on nothing that changes  *)
(* (signatures, digests, addresses, amounts, dust, fees) are left out, as  *)
(* are calls that only compute; a quote's outputs are signed by one call.  *)
(* The query that marks what expired and the one it precedes are one step. *)
(* Swaps take one proof each.  The core service is the one over Postgres.  *)
(* Cached responses are left out: every request reaches its handler.       *)
(***************************************************************************)
EXTENDS Naturals, FiniteSets, FiniteSetsExt

CONSTANTS
    Qid,           \* ids of melt quotes
    Uid,           \* ids of mint quotes
    P,             \* proofs
    MeltRequests,  \* what wallets ask melt quotes for: [inputs, outflow]
    SwapRequests,  \* proofs that wallets commit to swaps
    Proc,          \* slots for requests that are in flight at the same time
    Monitor,       \* MintOpMonitor
    None,          \* also the holder of a reservation
    Wallet,        \* the holder of a commitment
    Fund,          \* clowder's reserve to begin with
    MeltExpiry,    \* Service::melt_quote_expiry
    MintExpiry,    \* Service::mint_quote_expiry
    MaxTime,       \* bound: the clock
    MaxFailures    \* bound: calls that fail and restarts of the service

Agent == Proc \cup {Monitor}

ASSUME ParameterAssumption ==
    /\ MeltRequests \subseteq [inputs: SUBSET P, outflow: Nat]
    /\ \A r \in MeltRequests : r.inputs # {}
    /\ SwapRequests \subseteq P
    /\ Monitor \notin Proc /\ None \notin Qid \cup Uid \cup P /\ Wallet # None
    /\ {Fund, MeltExpiry, MintExpiry, MaxTime, MaxFailures} \subseteq Nat

VARIABLES
    now,
    \* the repository
    melts, mints, denied,
    \* handlers
    pc, job,
    \* the core service
    lock,        \* of each proof, as ProofLocks has it
    signed,      \* mint quotes whose outputs have a stored signature
    swaps,       \* proofs of the swaps that got past their commitment, not yet to clowder
    \* the vault
    fees,        \* melts whose fees it has
    \* external: clowder
    reserve,
    settled,     \* melts it paid
    consumed,    \* proofs it knows to be melted or swapped
    swapped,     \* those of the swaps it acknowledged
    deposits,    \* mint quotes that were paid
    events,      \* mint quotes it was told to be minted
    failures

store == <<melts, mints, denied>>
core == <<lock, signed, swaps>>
clowder == <<reserve, settled, consumed, swapped, deposits, events>>

vars == <<now, store, pc, job, core, fees, clowder, failures>>

Core == INSTANCE ProofLocks WITH
           Y <- P, Holders <- {None, Wallet}, MaxClock <- MaxTime + MeltExpiry, clock <- now

-----------------------------------------------------------------------------
\* The code sets no status to "canceled".
Statuses == {"pending", "paid", "expired"}

MeltOp == [inputs: SUBSET P, outflow: Nat, expiry: Nat, status: Statuses]
MintOp == [expiry: Nat, status: Statuses]

ASSUME NoneAssumption == None \notin MeltOp \cup MintOp

PCs == {"idle", "spendable", "list", "load", "check", "deny", "lock", "store",
        "verify", "meltop", "settle", "burn", "fees", "paid",
        "payment", "sign", "event", "mark"}

\* at: when the request arrived; todo: operations to be loaded; ops: those that were.
Job == [at: Nat, inputs: SUBSET P, outflow: Nat, id: Qid \cup Uid \cup {None},
        todo: SUBSET (Qid \cup Uid), ops: SUBSET Qid]

NewJob(inputs, outflow, id, todo) ==
    [at |-> now, inputs |-> inputs, outflow |-> outflow, id |-> id, todo |-> todo, ops |-> {}]

NoJob == [at |-> 0, inputs |-> {}, outflow |-> 0, id |-> None, todo |-> {}, ops |-> {}]

Init ==
    /\ Core!Init
    /\ melts = [q \in Qid |-> None]
    /\ mints = [u \in Uid |-> None]
    /\ denied = {}
    /\ pc = [a \in Agent |-> "idle"]
    /\ job = [a \in Agent |-> NoJob]
    /\ signed = {} /\ swaps = {} /\ fees = {}
    /\ reserve = Fund
    /\ settled = {} /\ consumed = {} /\ swapped = {} /\ deposits = {} /\ events = {}
    /\ failures = 0

Stored(table, ids) == {i \in ids : table[i] # None}
Pending(table, ids) == {i \in Stored(table, ids) : table[i].status = "pending"}

Goto(a, l) == pc' = [pc EXCEPT ![a] = l]

\* The reply, with or without an error, or the end of the monitor's round.
End(a) == Goto(a, "idle") /\ job' = [job EXCEPT ![a] = NoJob]

Begin(a, l, j) ==
    /\ pc[a] = "idle"
    /\ Goto(a, l)
    /\ job' = [job EXCEPT ![a] = j]

\* Mutant: what expired is given the status that nothing uses.
Expire_Canceled(table, ids, at) ==
    [i \in ids |-> IF table[i] # None /\ table[i].expiry < at
                   THEN [table[i] EXCEPT !.status = "canceled"] ELSE table[i]]

\* meltops_mark_expired, mintops_mark_expired: operations that were paid expire as well.
Expire(table, ids, at) ==
    [i \in ids |-> IF table[i] # None /\ table[i].expiry < at
                   THEN [table[i] EXCEPT !.status = "expired"] ELSE table[i]]

-----------------------------------------------------------------------------
(* create_onchain_melt_quote. *)

QuoteStart(p) ==
    \E r \in MeltRequests :
        /\ Begin(p, "spendable", NewJob(r.inputs, r.outflow, None, {}))
        /\ UNCHANGED <<now, store, core, fees, clowder, failures>>

\* The core service has them unspent: not spent, reserved or committed.
Spendable(p) ==
    /\ pc[p] = "spendable"
    /\ IF \A y \in job[p].inputs : lock[y] = Core!Free
       THEN Goto(p, "list") /\ UNCHANGED job
       ELSE End(p)
    /\ UNCHANGED <<now, store, core, fees, clowder, failures>>

ListPendingMelts(p) ==
    /\ pc[p] = "list"
    /\ melts' = Expire(melts, Qid, job[p].at)
    /\ job' = [job EXCEPT ![p].todo = Pending(melts', Qid)]
    /\ Goto(p, "load")
    /\ UNCHANGED <<now, mints, denied, core, fees, clowder, failures>>

\* One that expires at this very instant is written back without another look.
LoadPendingMelt(p) ==
    \E q \in job[p].todo :
        /\ pc[p] = "load"
        /\ IF melts[q].expiry > job[p].at
           THEN /\ job' = [job EXCEPT ![p].todo = @ \ {q}, ![p].ops = @ \cup {q}]
                /\ UNCHANGED melts
           ELSE /\ job' = [job EXCEPT ![p].todo = @ \ {q}]
                /\ melts' = [melts EXCEPT ![q].status = "expired"]
        /\ UNCHANGED <<now, mints, denied, pc, core, fees, clowder, failures>>

\* An operation that cannot be loaded is skipped.
LosePendingMelt(p) ==
    \E q \in job[p].todo :
        /\ pc[p] = "load"
        /\ failures < MaxFailures
        /\ failures' = failures + 1
        /\ job' = [job EXCEPT ![p].todo = @ \ {q}]
        /\ UNCHANGED <<now, store, pc, core, fees, clowder>>

Sharing(ops, inputs) == {q \in ops : melts[q].inputs \cap inputs # {}}

\* cross_check_locked_fps
CrossCheck(p) ==
    /\ pc[p] = "load" /\ job[p].todo = {}
    /\ IF Sharing(job[p].ops, job[p].inputs) = {}
       THEN Goto(p, "check") /\ UNCHANGED job
       ELSE End(p)
    /\ UNCHANGED <<now, store, core, fees, clowder, failures>>

\* The reserve must cover what is pending and this quote.
CheckReserve(p) ==
    /\ pc[p] = "check"
    /\ LET promised == MapThenSumSet(LAMBDA q : melts[q].outflow, job[p].ops)
       IN  Goto(p, IF job[p].outflow + promised > reserve THEN "deny" ELSE "lock")
    /\ UNCHANGED <<now, store, job, core, fees, clowder, failures>>

StoreDenied(p) ==
    \E q \in Qid \ (Stored(melts, Qid) \cup denied) :
        /\ pc[p] = "deny"
        /\ denied' = denied \cup {q}
        /\ End(p)
        /\ UNCHANGED <<now, melts, mints, core, fees, clowder, failures>>

\* Mutant: a refusal of the core service is ignored.
ReserveInputs_Ignored(p) ==
    /\ pc[p] = "lock"
    /\ \/ Core!Hold(job[p].inputs, None, job[p].at + MeltExpiry)
       \/ (\E y \in job[p].inputs : lock[y] # Core!Free) /\ UNCHANGED <<now, lock>>
    /\ Goto(p, "store")
    /\ UNCHANGED <<store, job, signed, swaps, fees, clowder, failures>>

\* Clowder signs the quote, the core service reserves the inputs until the quote expires.
ReserveInputs(p) ==
    /\ pc[p] = "lock"
    /\ \/ /\ Core!Hold(job[p].inputs, None, job[p].at + MeltExpiry)
          /\ Goto(p, "store") /\ UNCHANGED job
       \/ /\ \E y \in job[p].inputs : lock[y] # Core!Free
          /\ End(p) /\ UNCHANGED <<now, lock>>
    /\ UNCHANGED <<store, signed, swaps, fees, clowder, failures>>

\* Inserted in a transaction, unless a pending operation has one of the inputs.
StoreMeltop(p) ==
    \E q \in Qid \ (Stored(melts, Qid) \cup denied) :
        LET table == Expire(melts, Qid, job[p].at)
            free == Sharing(Pending(table, Qid), job[p].inputs) = {}
        IN  /\ pc[p] = "store"
            /\ melts' = IF free
                        THEN [table EXCEPT ![q] = [inputs |-> job[p].inputs,
                                                   outflow |-> job[p].outflow,
                                                   expiry |-> job[p].at + MeltExpiry,
                                                   status |-> "pending"]]
                        ELSE table
            /\ End(p)
            /\ UNCHANGED <<now, mints, denied, core, fees, clowder, failures>>

DeleteDenied ==
    \E q \in denied :
        /\ denied' = denied \ {q}
        /\ UNCHANGED <<now, melts, mints, pc, job, core, fees, clowder, failures>>

-----------------------------------------------------------------------------
(* melt_onchain. *)

MeltStart(p) ==
    \E q \in Stored(melts, Qid) :
        /\ Begin(p, "verify", NewJob(melts[q].inputs, melts[q].outflow, q, {}))
        /\ UNCHANGED <<now, store, core, fees, clowder, failures>>

VerifyUnspent(p) ==
    /\ pc[p] = "verify"
    /\ IF \E y \in job[p].inputs : lock[y] = Core!Spent
       THEN End(p)
       ELSE Goto(p, "meltop") /\ UNCHANGED job
    /\ UNCHANGED <<now, store, core, fees, clowder, failures>>

\* The status of the operation is not looked at.
LoadMeltop(p) ==
    /\ pc[p] = "meltop"
    /\ IF job[p].at > melts[job[p].id].expiry
       THEN End(p)
       ELSE Goto(p, "settle") /\ UNCHANGED job
    /\ UNCHANGED <<now, store, core, fees, clowder, failures>>

\* Mutant: a refusal of clowder is ignored.
Settle_Ignored(p) ==
    /\ pc[p] = "settle"
    /\ Goto(p, "burn")
    /\ UNCHANGED <<now, store, job, core, fees, clowder, failures>>

\* Clowder pays a melt whose inputs it has not seen melted or swapped.
Settle(p) ==
    /\ pc[p] = "settle"
    /\ IF job[p].inputs \cap consumed = {} /\ job[p].outflow <= reserve
       THEN /\ settled' = settled \cup {job[p].id}
            /\ consumed' = consumed \cup job[p].inputs
            /\ reserve' = reserve - job[p].outflow
            /\ Goto(p, "burn")
            /\ UNCHANGED job
       ELSE End(p) /\ UNCHANGED <<settled, consumed, reserve>>
    /\ UNCHANGED <<now, store, core, fees, swapped, deposits, events, failures>>

\* From here on failures are logged, and the melt goes on.
BurnInputs(p) ==
    /\ pc[p] = "burn"
    /\ \/ Core!Spend(job[p].inputs)
       \/ (\E y \in job[p].inputs : lock[y] = Core!Spent) /\ UNCHANGED <<now, lock>>
    /\ Goto(p, "fees")
    /\ UNCHANGED <<store, job, signed, swaps, fees, clowder, failures>>

StoreFees(p) ==
    /\ pc[p] = "fees"
    /\ fees' = fees \cup {job[p].id}
    /\ Goto(p, "paid")
    /\ UNCHANGED <<now, store, job, core, clowder, failures>>

SetPaid(p) ==
    /\ pc[p] = "paid"
    /\ melts' = [melts EXCEPT ![job[p].id].status = "paid"]
    /\ End(p)
    /\ UNCHANGED <<now, mints, denied, core, fees, clowder, failures>>

Skip(p) ==
    /\ failures < MaxFailures
    /\ failures' = failures + 1
    /\ \/ pc[p] = "burn" /\ Goto(p, "fees") /\ UNCHANGED job
       \/ pc[p] = "fees" /\ Goto(p, "paid") /\ UNCHANGED job
       \/ pc[p] = "paid" /\ End(p)
    /\ UNCHANGED <<now, store, core, fees, clowder>>

-----------------------------------------------------------------------------
(* create_onchain_mint_quote and the monitor of mint operations. *)

InsertMintop(u, op) == mints[u] = None /\ mints' = [mints EXCEPT ![u] = op]

\* The request arrived some time ago: clowder found an address and signed the quote.
StoreMintop(u) ==
    \E at \in 0..now :
        /\ InsertMintop(u, [expiry |-> at + MintExpiry, status |-> "pending"])
        /\ UNCHANGED <<now, melts, denied, pc, job, core, fees, clowder, failures>>

\* A round over an empty table does nothing.
ListPendingMints ==
    /\ Stored(mints, Uid) # {}
    /\ mints' = Expire(mints, Uid, now)
    /\ Begin(Monitor, "payment", NewJob({}, 0, None, Pending(mints', Uid)))
    /\ UNCHANGED <<now, melts, denied, core, fees, clowder, failures>>

\* Mutant: whatever was received is enough.
VerifyPayment_AnyAmount ==
    \E u \in job[Monitor].todo :
        /\ pc[Monitor] = "payment"
        /\ job' = [job EXCEPT ![Monitor].todo = @ \ {u}, ![Monitor].id = u]
        /\ Goto(Monitor, "sign")
        /\ UNCHANGED <<now, store, core, fees, clowder, failures>>

\* The operation is loaded once more, and clowder says what was received for it.
VerifyPayment ==
    \E u \in job[Monitor].todo :
        /\ pc[Monitor] = "payment"
        /\ IF mints[u].status = "pending" /\ u \in deposits
           THEN /\ job' = [job EXCEPT ![Monitor].todo = @ \ {u}, ![Monitor].id = u]
                /\ Goto(Monitor, "sign") /\ UNCHANGED mints
           ELSE /\ job' = [job EXCEPT ![Monitor].todo = @ \ {u}]
                /\ UNCHANGED pc
                /\ mints' = IF mints[u].status = "pending" /\ mints[u].expiry < job[Monitor].at
                            THEN [mints EXCEPT ![u].status = "expired"] ELSE mints
        /\ UNCHANGED <<now, melts, denied, core, fees, clowder, failures>>

\* Outputs that are signed already end the round.
SignMint ==
    /\ pc[Monitor] = "sign"
    /\ IF job[Monitor].id \in signed
       THEN End(Monitor) /\ UNCHANGED signed
       ELSE Goto(Monitor, "event") /\ UNCHANGED job /\ signed' = signed \cup {job[Monitor].id}
    /\ UNCHANGED <<now, store, lock, swaps, fees, clowder, failures>>

SignalMint ==
    /\ pc[Monitor] = "event"
    /\ events' = events \cup {job[Monitor].id}
    /\ Goto(Monitor, "mark")
    /\ UNCHANGED <<now, store, job, core, fees, reserve, settled, consumed, swapped, deposits,
                   failures>>

SetMinted ==
    /\ pc[Monitor] = "mark"
    /\ mints' = [mints EXCEPT ![job[Monitor].id].status = "paid"]
    /\ Goto(Monitor, "payment")
    /\ job' = [job EXCEPT ![Monitor].id = None]
    /\ UNCHANGED <<now, melts, denied, core, fees, clowder, failures>>

RoundDone ==
    /\ pc[Monitor] = "payment" /\ job[Monitor].todo = {}
    /\ End(Monitor)
    /\ UNCHANGED <<now, store, core, fees, clowder, failures>>

-----------------------------------------------------------------------------
(* Wallets at the core service.  A swap may end at any point, which no other step can tell *)
(* from one that takes long.                                                               *)

\* commit_to_swap: free proofs are held until an instant of the wallet's choice.
WalletCommits ==
    \E y \in SwapRequests, t \in now..MaxTime :
        /\ Core!Hold({y}, Wallet, t)
        /\ UNCHANGED <<store, pc, job, signed, swaps, fees, clowder, failures>>

\* swap: one that arrived in time loads its commitment, and does not come back to it.
\* (One of a proof that clowder has seen gets no further.)
SwapStart ==
    \E y \in P \ consumed :
        /\ lock[y].state = "held" /\ lock[y].by = Wallet
        /\ swaps' = swaps \cup {y}
        /\ UNCHANGED <<now, store, pc, job, lock, signed, fees, clowder, failures>>

\* Clowder acknowledges a swap of what it has not seen melted or swapped, ...
SwapSignal ==
    \E y \in swaps \ consumed :
        /\ consumed' = consumed \cup {y}
        /\ swapped' = swapped \cup {y}
        /\ swaps' = swaps \ {y}
        /\ UNCHANGED <<now, store, pc, job, lock, signed, fees, reserve, settled, deposits,
                       events, failures>>

\* ... which is marked as spent, whoever holds it by then.
SwapInsert ==
    \E y \in swapped :
        /\ Core!Spend({y})
        /\ UNCHANGED <<store, pc, job, signed, swaps, fees, clowder, failures>>

WalletStep == WalletCommits \/ SwapStart \/ SwapSignal \/ SwapInsert

\* The core service cleans what expired, commitments and reservations.
Clean ==
    \E y \in P :
        /\ Core!Lapse({y})
        /\ UNCHANGED <<store, pc, job, signed, swaps, fees, clowder, failures>>

\* A wallet pays for a mint quote, and the payment has the confirmations it needs.
Deposit ==
    \E u \in Stored(mints, Uid) \ deposits :
        /\ deposits' = deposits \cup {u}
        /\ UNCHANGED <<now, store, pc, job, core, fees, reserve, settled, consumed, swapped, events,
                       failures>>

Tick ==
    /\ now < MaxTime
    /\ now' = now + 1
    /\ UNCHANGED <<store, pc, job, core, fees, clowder, failures>>

\* A call fails, before or after it did its work, or the connection closes.
Fail(a) ==
    /\ failures < MaxFailures
    /\ failures' = failures + 1
    /\ pc[a] # "idle"
    /\ End(a)
    /\ UNCHANGED <<now, store, core, fees, clowder>>

Crash ==
    /\ failures < MaxFailures
    /\ failures' = failures + 1
    /\ pc' = [a \in Agent |-> "idle"]
    /\ job' = [a \in Agent |-> NoJob]
    /\ UNCHANGED <<now, store, core, fees, clowder>>

QuoteStep(p) ==
    \/ QuoteStart(p) \/ Spendable(p) \/ ListPendingMelts(p) \/ LoadPendingMelt(p)
    \/ LosePendingMelt(p) \/ CrossCheck(p) \/ CheckReserve(p) \/ StoreDenied(p)
    \/ ReserveInputs(p) \/ StoreMeltop(p)

MeltStep(p) ==
    \/ MeltStart(p) \/ VerifyUnspent(p) \/ LoadMeltop(p) \/ Settle(p)
    \/ BurnInputs(p) \/ StoreFees(p) \/ SetPaid(p) \/ Skip(p)

MonitorStep ==
    \/ ListPendingMints \/ VerifyPayment \/ SignMint \/ SignalMint \/ SetMinted \/ RoundDone

Next ==
    \/ \E p \in Proc : QuoteStep(p) \/ MeltStep(p)
    \/ \E u \in Uid : StoreMintop(u)
    \/ MonitorStep \/ DeleteDenied
    \/ WalletStep \/ Clean \/ Deposit
    \/ \E a \in Agent : Fail(a)
    \/ Tick \/ Crash

\* The routine runs again and again, and its calls return.
Spec == Init /\ [][Next]_vars /\ WF_vars(MonitorStep)

-----------------------------------------------------------------------------
(* Properties. *)

TypeOK ==
    /\ now \in 0..MaxTime
    /\ melts \in [Qid -> MeltOp \cup {None}]
    /\ mints \in [Uid -> MintOp \cup {None}]
    /\ denied \in SUBSET Qid
    /\ pc \in [Agent -> PCs]
    /\ job \in [Agent -> Job]
    /\ signed \in SUBSET Uid /\ fees \in SUBSET Qid
    /\ reserve \in Nat
    /\ settled \in SUBSET Qid /\ {consumed, swaps, swapped} \subseteq SUBSET P
    /\ deposits \in SUBSET Uid /\ events \in SUBSET Uid

\* Proof y is reserved for quote q until t, or spent: by a melt that clowder paid, of this
\* quote or of one that expired while it was under way, or by a swap that clowder has
\* acknowledged, and then clowder will not pay q.
Owed(y, t, q) ==
    \/ lock[y] = Core!Held(None, t)
    \/ lock[y] = Core!Spent /\ \E r \in settled : y \in melts[r].inputs
    \/ lock[y] = Core!Spent /\ y \in swapped /\ q \notin settled

\* The inputs of a melt quote stay reserved for it until it expires: no commitment and no
\* other quote takes them, whatever was checked before they were reserved.  The reservation
\* does not keep a swap out that got past its commitment before that lapsed: the swap
\* overwrites it, and the quote is one that cannot be paid.
QuoteHoldsInputs ==
    \A q \in Pending(melts, Qid) : melts[q].expiry >= now =>
        \A y \in melts[q].inputs : Owed(y, melts[q].expiry, q)

\* Fees are banked and a melt is recorded as paid only if clowder paid it, however many
\* requests melt one quote, before and after it expires.
PaidIsSettled ==
    \A q \in Qid :
        q \in fees \/ (melts[q] # None /\ melts[q].status = "paid") => q \in settled

\* Clowder, where wallets fetch their signatures, is told of a mint only if it was paid, and
\* knows of every mint recorded as paid.
MintedIsPaidFor ==
    /\ events \subseteq deposits \cap signed
    /\ \A u \in Uid : mints[u] # None /\ mints[u].status = "paid" => u \in events

LocksTyped ==
    \A y \in P :
        \/ lock[y] \in {Core!Free, Core!Spent}
        \/ /\ lock[y].until \in Nat /\ lock[y].by \in {None, Wallet}
           /\ lock[y] = Core!Held(lock[y].by, lock[y].until)

\* Clowder has each proof consumed by one melt or by one swap.
LedgersAgree ==
    /\ swapped \subseteq consumed
    /\ \A q \in settled : melts[q].inputs \subseteq consumed \ swapped

\* The inputs of a quote stay reserved for it from the moment the core service has agreed,
\* before there is a quote in the repository.
ReservedForStore ==
    \A p \in Proc : pc[p] = "store" /\ job[p].at + MeltExpiry >= now =>
        \A y \in job[p].inputs : Owed(y, job[p].at + MeltExpiry, None)

\* A request that melts has found its quote stored, and burns only what clowder paid; what
\* a request lists stays stored until it loads it.
MeltInOrder(p) ==
    /\ pc[p] \notin {"payment", "sign", "event", "mark"}
    /\ pc[p] = "load" => job[p].todo \subseteq Stored(melts, Qid)
    /\ pc[p] \in {"verify", "meltop", "settle", "burn", "fees", "paid"} =>
          job[p].id \in Stored(melts, Qid) /\ job[p].inputs = melts[job[p].id].inputs
    /\ pc[p] \in {"burn", "fees", "paid"} => job[p].id \in settled

MeltsInOrder == settled \subseteq Stored(melts, Qid) /\ \A p \in Proc : MeltInOrder(p)

\* The monitor signs what was paid, announces what it has signed, and records as paid what
\* it has announced.
MonitorInOrder ==
    /\ pc[Monitor] \in {"idle", "payment", "sign", "event", "mark"}
    /\ pc[Monitor] # "idle" => job[Monitor].todo \subseteq Stored(mints, Uid)
    /\ pc[Monitor] \in {"sign", "event", "mark"} =>
          job[Monitor].id \in Stored(mints, Uid) \cap deposits
    /\ pc[Monitor] \in {"event", "mark"} => job[Monitor].id \in signed
    /\ pc[Monitor] = "mark" => job[Monitor].id \in events

\* What is stored, what the core service reserves and where each handler is with its calls
\* agree: between any two of their calls a quote's inputs are held or paid for, a melt is at
\* a stored quote and past its payment if it burns, and the monitor is at a deposit that was
\* signed before it is announced.
OnchainInv ==
    /\ TypeOK /\ LocksTyped /\ LedgersAgree /\ MeltsInOrder /\ MonitorInOrder
    /\ QuoteHoldsInputs /\ ReservedForStore /\ PaidIsSettled /\ MintedIsPaidFor

\* A mint quote that is paid in time is minted ("we should accept transactions included in
\* the first block after expiry").
PaidIsMinted ==
    \A u \in Uid :
        (u \in deposits /\ mints[u].status = "pending" /\ now <= mints[u].expiry)
            ~> u \in events
=============================================================================
