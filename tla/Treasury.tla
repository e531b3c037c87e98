------------------------------ MODULE Treasury ------------------------------
(***************************************************************************)
(* The on-chain half of bcr-wdc-treasury-service (Onchain) together with   *)
(* what surrounds it: the cache of replies in front of melt_onchain, and   *)
(* the vault that melts of this service and swaps of the core service bank *)
(* their fee proofs in, and that operators take tokens out of.             *)
(*                                                                         *)
(* Abstractions.  A fee proof is minted for one melt or one swap and       *)
(* nobody else has it until the vault does; check_spent is one call.  The  *)
(* core service's lock of a fee proof is reduced to what the vault asks    *)
(* of it.                                                                  *)
(***************************************************************************)
EXTENDS Onchain, Integers

CONSTANTS
    Fee,       \* fee proofs
    FeesOf,    \* those of each melt quote; the others are of swaps
    Clerk,     \* slots for requests to the vault
    Ttl,       \* InMemoryMap::ttl
    MaxUtc     \* TStamp::MAX_UTC: later than any instant of the model

ASSUME FeeAssumption ==
    /\ FeesOf \in [Qid -> SUBSET Fee]
    /\ \A q, r \in Qid : q # r => FeesOf[q] \cap FeesOf[r] = {}
    /\ Ttl \in Nat /\ MaxUtc \in Nat /\ MaxUtc > MaxTime

VARIABLES
    cache,     \* when the reply to a melt was stored
    oldest,    \* InMemoryMap::oldest
    vault,     \* treasury_vault_proofs
    clerk,     \* requests to the vault in flight
    sent,      \* fee proofs that the core service has sent
    state,     \* of each fee proof, as the core service's check_state answers
    token,     \* the last token that was generated
    lent       \* fee proofs that any token carried

web == <<cache, oldest>>
bank == <<vault, clerk, sent, state, token, lent>>
treasury == <<vars, web, bank>>

Request == [at: {"idle", "insert", "states", "delete", "load"},
            listed: SUBSET Fee, ys: SUBSET Fee, todo: SUBSET Fee, got: SUBSET Fee]

NoRequest == [at |-> "idle", listed |-> {}, ys |-> {}, todo |-> {}, got |-> {}]

SwapFees == Fee \ UNION {FeesOf[q] : q \in Qid}

TreasuryInit ==
    /\ Init
    /\ cache = [q \in Qid |-> None] /\ oldest = MaxUtc
    /\ vault = {} /\ clerk = [c \in Clerk |-> NoRequest]
    /\ state = [f \in Fee |-> "unspent"]
    /\ sent = {} /\ token = {} /\ lent = {}

-----------------------------------------------------------------------------
(* nut19::InMemoryMap in front of melt_onchain. *)

\* request_to_key: what tells requests apart is the quote that they melt.
KeyOf(j) == j.id

Cached(key) == cache[key] # None

\* clean returns early while the oldest entry is younger than the ttl, and before it has
\* ever looked at an entry the oldest is the last instant there is.
Cleaned(map, at) ==
    IF at - oldest < Ttl THEN map
    ELSE [q \in Qid |-> IF map[q] # None /\ at - map[q] > Ttl THEN None ELSE map[q]]

OldestOf(map, at) ==
    IF at - oldest < Ttl THEN oldest
    ELSE Min({MaxUtc} \cup {map[q] : q \in {r \in Qid : map[r] # None}})

\* The reply that a melt ends with is stored, under the instant the request arrived.
Answer(p) ==
    LET map == Cleaned([cache EXCEPT ![KeyOf(job[p])] = job[p].at], job[p].at)
    IN  cache' = map /\ oldest' = OldestOf(map, job[p].at)

\* Mutant: whatever a melt ends with is stored.
Refuse_Answers(p) == IF pc'[p] = "idle" THEN Answer(p) ELSE UNCHANGED web

\* An error is not.
Refuse(p) == UNCHANGED web

\* A request whose reply is cached gets it and goes no further.
CachedMeltStart(p) == MeltStart(p) /\ ~Cached(KeyOf(job'[p])) /\ UNCHANGED web

BankFees(p) == \E q \in Qid : q = job[p].id /\ vault' = vault \cup FeesOf[q]

CachedMeltStep(p) ==
    \/ CachedMeltStart(p) /\ UNCHANGED bank
    \/ (VerifyUnspent(p) \/ LoadMeltop(p) \/ Settle(p)) /\ Refuse(p) /\ UNCHANGED bank
    \/ BurnInputs(p) /\ UNCHANGED <<web, bank>>
    \/ StoreFees(p) /\ BankFees(p) /\ UNCHANGED <<web, clerk, sent, state, token, lent>>
    \/ SetPaid(p) /\ Answer(p) /\ UNCHANGED bank
    \/ /\ Skip(p)
       /\ IF pc[p] = "paid" THEN Answer(p) ELSE UNCHANGED web
       /\ UNCHANGED bank

-----------------------------------------------------------------------------
(* vault::Service. *)

At(c, l) == clerk[c].at = l
Become(c, r) == clerk' = [clerk EXCEPT ![c] = r]

\* Mutant: a proof that is reserved for now counts as spent.
IsSpent_Pending(f) == state[f] # "unspent"

IsSpent(f) == state[f] = "spent"

Unspent(S) == {f \in S : ~IsSpent(f)}

\* store_proofs, called once by the core service after a swap, which is then asked what is
\* spent of them.
StoreProofs(c) ==
    \E S \in SUBSET (SwapFees \ sent) :
        /\ At(c, "idle") /\ S # {}
        /\ sent' = sent \cup S
        /\ Become(c, [NoRequest EXCEPT !.at = "insert", !.ys = Unspent(S)])
        /\ UNCHANGED <<vars, web, vault, state, token, lent>>

\* The others are inserted with one statement.
InsertProofs(c) ==
    /\ At(c, "insert")
    /\ vault' = vault \cup clerk[c].ys
    /\ Become(c, NoRequest)
    /\ UNCHANGED <<vars, web, sent, state, token, lent>>

\* generate_token: the vault is listed, the core service says what is spent, ...
ListYs(c) ==
    /\ At(c, "idle")
    /\ Become(c, [NoRequest EXCEPT !.at = "states", !.listed = vault])
    /\ UNCHANGED <<vars, web, vault, sent, state, token, lent>>

\* Mutant: the two halves of the partition are mixed up.
CheckSpent_Swapped(c) ==
    /\ At(c, "states")
    /\ LET unspent == Unspent(clerk[c].listed)
       IN  Become(c, [clerk[c] EXCEPT !.at = "delete", !.ys = clerk[c].listed \ unspent,
                                      !.todo = unspent])
    /\ UNCHANGED <<vars, web, vault, sent, state, token, lent>>

CheckSpent(c) ==
    /\ At(c, "states")
    /\ LET unspent == Unspent(clerk[c].listed)
       IN  Become(c, [clerk[c] EXCEPT !.at = "delete", !.ys = unspent,
                                      !.todo = clerk[c].listed \ unspent])
    /\ UNCHANGED <<vars, web, vault, sent, state, token, lent>>

\* ... what is spent is deleted row by row, ...
DeleteProofs(c) ==
    /\ At(c, "delete")
    /\ \/ \E f \in clerk[c].todo :
             vault' = vault \ {f} /\ Become(c, [clerk[c] EXCEPT !.todo = @ \ {f}])
       \/ /\ clerk[c].todo = {}
          /\ Become(c, [clerk[c] EXCEPT !.at = "load", !.todo = clerk[c].ys])
          /\ UNCHANGED vault
    /\ UNCHANGED <<vars, web, sent, state, token, lent>>

\* ... what is left of the rest is loaded row by row, ...
LoadProofs(c) ==
    /\ At(c, "load")
    /\ \E f \in clerk[c].todo :
          Become(c, [clerk[c] EXCEPT !.todo = @ \ {f}, !.got = @ \cup ({f} \cap vault)])
    /\ UNCHANGED <<vars, web, vault, sent, state, token, lent>>

\* ... and put into a token.
GiveToken(c) ==
    /\ At(c, "load") /\ clerk[c].todo = {}
    /\ token' = clerk[c].got /\ lent' = lent \cup token'
    /\ Become(c, NoRequest)
    /\ UNCHANGED <<vars, web, vault, sent, state>>

\* A call fails, or the connection closes.
FailClerk(c) ==
    /\ ~At(c, "idle")
    /\ Become(c, NoRequest)
    /\ UNCHANGED <<vars, web, vault, sent, state, token, lent>>

VaultStep(c) ==
    \/ StoreProofs(c) \/ InsertProofs(c)
    \/ ListYs(c) \/ CheckSpent(c) \/ DeleteProofs(c) \/ LoadProofs(c)
    \/ GiveToken(c) \/ FailClerk(c)

\* External: whoever has a token commits its proofs to a swap at the core service, which
\* goes through or lapses.
FeeMoves ==
    \E f \in lent :
        /\ \/ state[f] = "unspent" /\ state' = [state EXCEPT ![f] = "pending"]
           \/ state[f] = "pending" /\ \E s \in {"unspent", "spent"} : state' = [state EXCEPT ![f] = s]
        /\ UNCHANGED <<vars, web, vault, clerk, sent, token, lent>>

-----------------------------------------------------------------------------
\* The cache is memory, the vault is not.
TreasuryCrash ==
    /\ Crash
    /\ cache' = [q \in Qid |-> None] /\ oldest' = MaxUtc
    /\ clerk' = [c \in Clerk |-> NoRequest]
    /\ UNCHANGED <<vault, sent, state, token, lent>>

OnchainStep ==
    /\ \/ \E p \in Proc : QuoteStep(p)
       \/ \E u \in Uid : StoreMintop(u)
       \/ MonitorStep \/ DeleteDenied
       \/ WalletStep \/ Clean \/ Deposit
       \/ \E a \in Agent : Fail(a)
       \/ Tick
    /\ UNCHANGED <<web, bank>>

TreasuryNext ==
    \/ OnchainStep
    \/ \E p \in Proc : CachedMeltStep(p)
    \/ \E c \in Clerk : VaultStep(c)
    \/ FeeMoves \/ TreasuryCrash

TreasurySpec == TreasuryInit /\ [][TreasuryNext]_treasury

-----------------------------------------------------------------------------
(* Properties. *)

\* An answer that the cache repeats is of a melt that clowder paid: neither a refusal nor a
\* melt that ended half way is repeated for good.
CachedIsSettled == \A q \in Qid : Cached(q) => q \in settled

\* A fee proof leaves the vault only when it is spent: a swap that holds it for a while and
\* lapses, a token that is not used, a failure or a restart between the calls of two
\* requests do not lose it.
FeesKept == [][\A f \in vault \ vault' : state[f] = "spent"]_treasury

States == {"unspent", "pending", "spent"}

BankTyped ==
    /\ vault \subseteq Fee
    /\ clerk \in [Clerk -> Request]
    /\ state \in [Fee -> States]

\* What can still be spent of S.
LeftOf(S) == {f \in S : state[f] # "spent"}

\* What a request to the vault still knows: what it goes on to delete is spent, and what it
\* listed and can still be spent is in the vault, and among what it loads or has loaded.
ClerkKnows(c) ==
    LET r == clerk[c]
    IN  /\ r.at \in {"states", "delete", "load"} => LeftOf(r.listed) \subseteq vault
        /\ r.at = "delete" => LeftOf(r.todo) = {} /\ LeftOf(r.listed) \subseteq r.ys
        /\ r.at = "load" => LeftOf(r.listed) \subseteq r.todo \cup r.got

\* The inductive invariant behind the theorems of TreasuryProofs.
BankInv == BankTyped /\ \A c \in Clerk : ClerkKnows(c)

\* A token carries every proof that the vault listed for it and that can still be spent,
\* whatever another request deletes meanwhile.
TokenIsWhole ==
    [][\A c \in Clerk :
          GiveToken(c) => LeftOf(clerk[c].listed) \subseteq token']_treasury
=============================================================================
