----------------------------- MODULE EbillMint -----------------------------
(***************************************************************************)
(* eBill minting in bcr-wdc-treasury-service: a quote that was accepted    *)
(* becomes a mint operation bound to its bill (new_minting_operation), and *)
(* wallets draw eCash on it in several requests (mint) until its target is *)
(* used up.  Every call of the repository, of the core service and of      *)
(* clowder is one step, so requests interleave where the code awaits.      *)
(*                                                                         *)
(* Abstractions.  A key stands for the keyset and the public key of an     *)
(* operation, which the quote fixes together; requests whose keyset has    *)
(* expired and outputs that fail basic_blinds_checks are refused at once   *)
(* and left out.  Duplicates of one event are one event to clowder.        *)
(***************************************************************************)
EXTENDS Naturals, FiniteSets

CONSTANTS
    Uid,           \* mint operations, by the quote they come from
    Bill,          \* eBills
    Key,           \* keyset and public key of an operation
    B,             \* outputs, by blinded secret: key of core_signatures
    Worth,         \* the amounts of a set of outputs, added up
    Proc,          \* slots for requests that are in flight at the same time
    NewOps,        \* what is asked for: [uid, bill, key, target]
    MintRequests,  \* what wallets ask for: [uid, key, outputs]
    None,
    Multiplier,    \* Service::multiplier
    MaxAmount,     \* u64::MAX
    UniqueBill,    \* does the repository have a unique index on bill_id?  The Postgres
                   \* and in-memory ones do, the SurrealDB one does not
    Attempts,      \* MINTING_EBILL_ATTEMPTS
    MaxCrashes     \* bound: restarts of the service

ASSUME WorthAssumption ==
    /\ Worth \in [SUBSET B -> Nat]
    /\ \A S, T \in SUBSET B : S \cap T = {} => Worth[S \cup T] = Worth[S] + Worth[T]

ASSUME RequestAssumption ==
    /\ NewOps \subseteq [uid: Uid, bill: Bill, key: Key, target: Nat]
    /\ MintRequests \subseteq [uid: Uid, key: Key, outputs: SUBSET B]

ASSUME ParameterAssumption ==
    /\ Multiplier \in Nat \ {0} /\ MaxAmount \in Nat /\ Attempts \in Nat \ {0}
    /\ UniqueBill \in BOOLEAN /\ MaxCrashes \in Nat
    /\ None \notin [bill: Bill, key: Key, target: Nat, minted: Nat] /\ None \notin Uid

VARIABLES
    ops,         \* the repository: mint operations
    signed,      \* the core service: outputs with a stored signature, and the operation
                 \* they were signed for
    pc, job, todo,
    \* external: clowder
    registered,  \* bills registered with it, and for how much
    announced,   \* mint events it accepted
    crashes

vars == <<ops, signed, pc, job, todo, registered, announced, crashes>>

-----------------------------------------------------------------------------
Operation == [bill: Bill, key: Key, target: Nat, minted: Nat]

PCs == {"idle", "lookup", "store", "relookup", "register",
        "load", "sign", "update", "announce"}

MintJobs == [uid: Uid, key: Key, outputs: SUBSET B, minted: Nat, attempt: 1..Attempts]

Jobs == [uid: Uid, bill: Bill, key: Key, target: Nat] \cup MintJobs \cup {None}

\* The operations bound to a bill.
BoundTo(b) == {u \in Uid : ops[u] # None /\ ops[u].bill = b}

\* is_same_op: what was minted so far does not matter.
SameOp(u, j) ==
    u = j.uid /\ ops[u].bill = j.bill /\ ops[u].key = j.key /\ ops[u].target = j.target

\* target.checked_mul(multiplier).unwrap_or(target)
Ceiling(target) == IF target * Multiplier <= MaxAmount THEN target * Multiplier ELSE target

Init ==
    /\ ops = [u \in Uid |-> None]
    /\ signed = [b \in B |-> None]
    /\ pc = [p \in Proc |-> "idle"]
    /\ job = [p \in Proc |-> None]
    /\ todo = [p \in Proc |-> {}]
    /\ registered = {}
    /\ announced = {}
    /\ crashes = 0

Goto(p, l) == pc' = [pc EXCEPT ![p] = l]

\* The reply, with or without an error.
End(p) ==
    /\ Goto(p, "idle")
    /\ job' = [job EXCEPT ![p] = None]
    /\ todo' = [todo EXCEPT ![p] = {}]

Begin(p, l, j) ==
    /\ pc[p] = "idle"
    /\ Goto(p, l)
    /\ job' = [job EXCEPT ![p] = j]
    /\ UNCHANGED todo

-----------------------------------------------------------------------------
(* new_minting_operation. *)

NewStart(p) ==
    \E r \in NewOps :
        /\ Begin(p, "lookup", r)
        /\ UNCHANGED <<ops, signed, registered, announced, crashes>>

\* One operation bound to the bill is returned, if there is any.
LookupBill(p) ==
    /\ pc[p] = "lookup"
    /\ \/ BoundTo(job[p].bill) = {} /\ Goto(p, "store") /\ UNCHANGED <<job, todo>>
       \/ \E u \in BoundTo(job[p].bill) :
             IF SameOp(u, job[p]) THEN Goto(p, "register") /\ UNCHANGED <<job, todo>>
                                  ELSE End(p)
    /\ UNCHANGED <<ops, signed, registered, announced, crashes>>

KeyFree(uid) == ops[uid] = None

\* The row may be inserted: its key is free, and its bill where that is a key too.
Storable(j) == KeyFree(j.uid) /\ (UniqueBill => BoundTo(j.bill) = {})

StoreOp(p) ==
    /\ pc[p] = "store"
    /\ IF Storable(job[p])
       THEN /\ ops' = [ops EXCEPT ![job[p].uid] =
                          [bill |-> job[p].bill, key |-> job[p].key,
                           target |-> job[p].target, minted |-> 0]]
            /\ Goto(p, "register")
       ELSE UNCHANGED ops /\ Goto(p, "relookup")
    /\ UNCHANGED <<signed, job, todo, registered, announced, crashes>>

\* Mutant: whatever holds the bill is taken for this operation.
Relookup_AnyOp(p) ==
    /\ pc[p] = "relookup"
    /\ Goto(p, "register")
    /\ UNCHANGED <<ops, signed, job, todo, registered, announced, crashes>>

\* The row exists already: it may be this very operation, stored by another request.
Relookup(p) ==
    /\ pc[p] = "relookup"
    /\ \/ BoundTo(job[p].bill) = {} /\ End(p)
       \/ \E u \in BoundTo(job[p].bill) :
             IF SameOp(u, job[p]) THEN Goto(p, "register") /\ UNCHANGED <<job, todo>>
                                  ELSE End(p)
    /\ UNCHANGED <<ops, signed, registered, announced, crashes>>

Register(p) ==
    /\ pc[p] = "register"
    /\ registered' = registered \cup {[bill |-> job[p].bill, amount |-> job[p].target]}
    /\ End(p)
    /\ UNCHANGED <<ops, signed, announced, crashes>>

-----------------------------------------------------------------------------
(* mint. *)

MintStart(p) ==
    \E r \in MintRequests :
        /\ Begin(p, "load", [uid |-> r.uid, key |-> r.key, outputs |-> r.outputs,
                             minted |-> 0, attempt |-> 1])
        /\ UNCHANGED <<ops, signed, registered, announced, crashes>>

\* Mutant: only what this request asks for is compared with the ceiling.
Mintable_ThisRequest(j) ==
    /\ ops[j.uid] # None
    /\ ops[j.uid].key = j.key
    /\ Worth[j.outputs] <= Ceiling(ops[j.uid].target)

\* The wallet holds the operation's key, and the outputs fit under its ceiling.
Mintable(j) ==
    /\ ops[j.uid] # None
    /\ ops[j.uid].key = j.key
    /\ ops[j.uid].minted + Worth[j.outputs] <= Ceiling(ops[j.uid].target)

LoadOp(p) ==
    /\ pc[p] = "load"
    /\ IF Mintable(job[p])
       THEN /\ job' = [job EXCEPT ![p].minted = ops[job[p].uid].minted]
            /\ todo' = [todo EXCEPT ![p] = job[p].outputs]
            /\ Goto(p, "sign")
       ELSE End(p)
    /\ UNCHANGED <<ops, signed, registered, announced, crashes>>

\* Mutant: a signature that is stored already is replaced.
SignBlind_Overwrites(p) ==
    \E b \in todo[p] :
        /\ pc[p] = "sign"
        /\ signed' = [signed EXCEPT ![b] = job[p].uid]
        /\ todo' = [todo EXCEPT ![p] = @ \ {b}]
        /\ UNCHANGED <<ops, pc, job, registered, announced, crashes>>

\* The core service signs the outputs one by one and stores each signature; one that is
\* signed already ends the request, those before it stay.
SignBlind(p) ==
    \E b \in todo[p] :
        /\ pc[p] = "sign"
        /\ IF signed[b] = None
           THEN /\ signed' = [signed EXCEPT ![b] = job[p].uid]
                /\ todo' = [todo EXCEPT ![p] = @ \ {b}]
                /\ UNCHANGED <<pc, job>>
           ELSE End(p) /\ UNCHANGED signed
        /\ UNCHANGED <<ops, registered, announced, crashes>>

Signed(p) ==
    /\ pc[p] = "sign" /\ todo[p] = {}
    /\ Goto(p, "update")
    /\ UNCHANGED <<ops, signed, job, todo, registered, announced, crashes>>

\* Mutant: the update does not compare.
Unmoved_Blind(j) == ops[j.uid] # None

\* The row is as it was when the request loaded it.
Unmoved(j) == ops[j.uid] # None /\ ops[j.uid].minted = j.minted

\* The amount is counted only if nothing was minted since it was loaded; otherwise the
\* request fails and its signatures stay with the core service.
UpdateMinted(p) ==
    /\ pc[p] = "update"
    /\ IF Unmoved(job[p])
       THEN /\ ops' = [ops EXCEPT ![job[p].uid].minted = job[p].minted + Worth[job[p].outputs]]
            /\ Goto(p, "announce")
            /\ UNCHANGED <<job, todo>>
       ELSE UNCHANGED ops /\ End(p)
    /\ UNCHANGED <<signed, registered, announced, crashes>>

\* Clowder hears of the mint.  Its answer may be lost, and the request is sent again as
\* long as attempts are left.
Announce(p) ==
    /\ pc[p] = "announce"
    /\ announced' = announced \cup {[uid |-> job[p].uid, outputs |-> job[p].outputs]}
    /\ \/ End(p)
       \/ /\ job[p].attempt < Attempts
          /\ job' = [job EXCEPT ![p].attempt = @ + 1]
          /\ UNCHANGED <<pc, todo>>
    /\ UNCHANGED <<ops, signed, registered, crashes>>

\* Mutant: one attempt too many.
Retry_OneMore(p) ==
    /\ pc[p] = "announce"
    /\ job[p].attempt <= Attempts
    /\ job' = [job EXCEPT ![p].attempt = @ + 1]
    /\ UNCHANGED <<ops, signed, pc, todo, registered, announced, crashes>>

\* Clowder did not hear of it, and it is sent again.
Retry(p) ==
    /\ pc[p] = "announce"
    /\ job[p].attempt < Attempts
    /\ job' = [job EXCEPT ![p].attempt = @ + 1]
    /\ UNCHANGED <<ops, signed, pc, todo, registered, announced, crashes>>

\* A call fails, clowder rejects the event, no attempt is left or the connection closes:
\* the request ends where it is.
Fail(p) ==
    /\ pc[p] # "idle"
    /\ End(p)
    /\ UNCHANGED <<ops, signed, registered, announced, crashes>>

Crash ==
    /\ crashes < MaxCrashes
    /\ crashes' = crashes + 1
    /\ pc' = [p \in Proc |-> "idle"]
    /\ job' = [p \in Proc |-> None]
    /\ todo' = [p \in Proc |-> {}]
    /\ UNCHANGED <<ops, signed, registered, announced>>

NewStep(p) ==
    NewStart(p) \/ LookupBill(p) \/ StoreOp(p) \/ Relookup(p) \/ Register(p)

MintStep(p) ==
    \/ MintStart(p) \/ LoadOp(p) \/ SignBlind(p) \/ Signed(p) \/ UpdateMinted(p)
    \/ Announce(p) \/ Retry(p)

Next ==
    \/ \E p \in Proc : NewStep(p) \/ MintStep(p) \/ Fail(p)
    \/ Crash

Spec == Init /\ [][Next]_vars

-----------------------------------------------------------------------------
(* Properties. *)

TypeOK ==
    /\ ops \in [Uid -> Operation \cup {None}]
    /\ signed \in [B -> Uid \cup {None}]
    /\ pc \in [Proc -> PCs]
    /\ job \in [Proc -> Jobs]
    /\ todo \in [Proc -> SUBSET B]
    /\ registered \in SUBSET [bill: Bill, amount: Nat]
    /\ announced \in SUBSET [uid: Uid, outputs: SUBSET B]
    /\ crashes \in Nat

\* The outputs clowder has heard of for operation u.
AnnouncedFor(u) == UNION {e.outputs : e \in {f \in announced : f.uid = u}}

\* What clowder hears of is counted: the mint events of an operation never add up to more
\* than its minted amount, whatever requests run side by side, are retried or get lost
\* between the signing, the update and the event.
AnnouncedIsCounted ==
    \A u \in Uid : AnnouncedFor(u) # {} =>
        ops[u] # None /\ Worth[AnnouncedFor(u)] <= ops[u].minted

\* No bill has two mint operations, although the look-up and the insert of two requests
\* may interleave.
OneOpPerBill ==
    \A u, v \in Uid : u # v /\ ops[u] # None /\ ops[v] # None => ops[u].bill # ops[v].bill

\* A bill is registered with clowder for one amount only, the target of its operation:
\* a request that lost the race for the bill, or asks again with other parameters, does
\* not register it.
RegisteredOnce ==
    \A e \in registered : \E u \in BoundTo(e.bill) :
        ops[u].target = e.amount /\ BoundTo(e.bill) = {u}

\* The outputs of a request that it has had signed.
Mine(p) == IF pc[p] \in {"sign", "update", "announce"} THEN job[p].outputs \ todo[p] ELSE {}

\* The outputs of operation u that count: clowder has heard of them or is about to.
Counted(u) ==
    AnnouncedFor(u) \cup
    UNION {job[p].outputs : p \in {q \in Proc : pc[q] = "announce" /\ job[q].uid = u}}

\* A request that registers an operation carries one of NewOps, a request that mints was
\* admitted by the operation and has signed what it says.
InOrder(p) ==
    /\ pc[p] \in {"lookup", "store", "relookup", "register"} => job[p] \in NewOps
    /\ pc[p] \in {"load", "sign", "update", "announce"} =>
          job[p] \in MintJobs
    /\ pc[p] \in {"sign", "update", "announce"} =>
          /\ ops[job[p].uid] # None
          /\ todo[p] \subseteq job[p].outputs
    /\ pc[p] \in {"sign", "update"} =>
          job[p].minted + Worth[job[p].outputs] <= Ceiling(ops[job[p].uid].target)
    /\ pc[p] \in {"update", "announce"} => todo[p] = {}

HandlersInOrder == \A p \in Proc : InOrder(p)

\* A signature belongs to one request: no other request signs the output again, and before
\* it counts clowder has not heard of it.
SignedOnce ==
    /\ \A p \in Proc : \A b \in Mine(p) : signed[b] # None
    /\ \A e \in announced : \A b \in e.outputs : signed[b] # None
    /\ \A p, q \in Proc : p # q => Mine(p) \cap Mine(q) = {}
    /\ \A p \in Proc : \A e \in announced :
          pc[p] \in {"sign", "update"} => Mine(p) \cap e.outputs = {}

\* The minted amount of an operation covers what counts and keeps to the ceiling.
Covered ==
    \A u \in Uid :
        IF ops[u] = None THEN Counted(u) = {}
        ELSE /\ Worth[Counted(u)] <= ops[u].minted
             /\ ops[u].minted <= Ceiling(ops[u].target)
             /\ \E r \in NewOps : r.target = ops[u].target

\* A request that is about to register its bill has found its operation stored, or has
\* stored it.  Where bills are unique, that is the bill's only operation.
Registering ==
    /\ \A p \in Proc : pc[p] = "register" =>
          LET u == job[p].uid
          IN  ops[u] # None /\ ops[u].bill = job[p].bill /\ ops[u].target = job[p].target
    /\ UniqueBill => OneOpPerBill /\ RegisteredOnce

\* The inductive invariant behind the theorems of EbillMintProofs.
IndInv == TypeOK /\ HandlersInOrder /\ SignedOnce /\ Covered /\ Registering

-----------------------------------------------------------------------------
(* The abstract specification this one implements. *)

OpOf(u) ==
    IF ops[u] = None THEN [state |-> "unbound"]
    ELSE [state |-> "bound", bill |-> ops[u].bill,
          ceiling |-> Ceiling(ops[u].target), minted |-> ops[u].minted]

Promised == INSTANCE MintOps WITH
               Ceilings <- {Ceiling(r.target) : r \in NewOps},
               op <- [u \in Uid |-> OpOf(u)]

\* A bill is bound to one operation for good and never minted beyond its ceiling (StoreOp
\* and UpdateMinted are the steps of MintOps, whatever was read before them).
ImplementsMintOps == Promised!Spec
=============================================================================
