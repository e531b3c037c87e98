------------------------------ MODULE Foreign ------------------------------
(***************************************************************************)
(* eCash of other mints in bcr-wdc-treasury-service.  A wallet exchanges   *)
(* foreign eCash for eCash of this mint: online, against proofs locked to  *)
(* this mint under a hash; offline, while the other mint cannot be         *)
(* reached, against fingerprints of proofs.  When the wallet spends what   *)
(* it got, through the wallet aggregator, it reveals the secret by which   *)
(* this mint takes the foreign proof: online proofs are swapped for new    *)
(* ones at their mint at once, offline proofs are kept until a routine     *)
(* finds their mint back online and settles them.  What was got online     *)
(* carries a locktime and no refund keys: past it anyone may spend it      *)
(* without the secret, and this mint then takes nothing.  The locktime of  *)
(* the foreign proof itself is 15 minutes later: past it, its wallet may   *)
(* take it back.                                                           *)
(*                                                                         *)
(* Abstractions.  Amounts, fees and what clowder verifies of a request are *)
(* left out, and when a locktime passes is left open.  The inputs of one   *)
(* request have one issuer, one expiry date and, online, one lock, and a   *)
(* redemption shows one preimage: for more of them the code repeats the    *)
(* same steps.  New eCash is named by the foreign proofs it is exchanged   *)
(* for: an exchange draws fresh secrets, so no two collide.  Signing it    *)
(* and telling clowder of it are one step, and so are the calls of a swap  *)
(* at a foreign mint, which takes all the inputs or none.                  *)
(***************************************************************************)
EXTENDS Naturals, FiniteSets

CONSTANTS
    Mint,         \* other mints
    Htlc,         \* proofs of theirs that are locked to this mint and a hash
    Token,        \* proofs of theirs without conditions
    Issuer,       \* of each proof
    Secret,       \* preimages wallets choose
    Lock,         \* of each Htlc, the preimage of its hash
    Due,          \* of each proof, the date its keyset expires
    Kid, Date, Expires,
    Proc,         \* slots for requests that are in flight at the same time
    Settler,      \* settle::Handler
    None,
    Removals,     \* what the repository's remove_proofs may delete: "named", "none", "all"
    MaxOutages,   \* bound: times that a mint goes offline
    MaxFailures   \* bound: calls that fail and restarts of the service

Proof == Htlc \cup Token
Agent == Proc \cup {Settler}

ASSUME ParameterAssumption ==
    /\ Issuer \in [Proof -> Mint] /\ Lock \in [Htlc -> Secret]
    /\ Due \in [Proof -> Date] /\ Expires \in [Kid -> Date]
    /\ Htlc \cap Token = {} /\ Secret \cap Token = {}
    /\ Settler \notin Proc /\ None \notin Kid \cup Mint \cup Secret \cup Token
    /\ Removals \subseteq {"named", "none", "all"}
    /\ MaxOutages \in Nat /\ MaxFailures \in Nat

VARIABLES
    \* the repositories
    htlcs,       \* online-htlcs
    fps,         \* offline-fps
    offline,     \* offline-proofs
    banked,      \* online-foreigns: of each proof, how often what it was swapped for is stored
    \* handlers
    pc, job,
    \* the core service
    rows,
    home,        \* of each proof, how often wallets got eCash of this mint in exchange for it
    redeemed,    \* such eCash that was swapped at this mint
    late,        \* of it, what was past its locktime and was swapped without its secret
    \* external: clowder, the other mints and the clock
    known, recorded, signalled, up,
    spent,       \* proofs that this mint swapped at theirs
    lapsed,      \* proofs for which eCash is past its locktime
    refunded,    \* proofs past their own, that their wallets took back
    \* proofs that a failure took from a handler: what they became is stored nowhere
    dropped,
    outages, failures

repo == <<htlcs, fps, offline, banked>>
core == <<rows, home, redeemed, late>>
clowder == <<known, recorded, signalled>>
locktimes == <<lapsed, refunded>>
abroad == <<up, spent, locktimes>>
faults == <<dropped, outages, failures>>

vars == <<repo, pc, job, core, clowder, abroad, faults>>

Keys == INSTANCE Keysets

-----------------------------------------------------------------------------
PCs == {"idle", "check", "accept", "record", "keyset", "announce", "create", "issue",
        "htlc", "fps", "reply", "search", "swap", "bank", "remove",
        "claim", "keep", "core", "mint"}

\* inputs: of the request, or the proofs loaded; todo: those still to be worked on;
\* hand: what was swapped or claimed and is not stored yet; mints: still to be settled;
\* coins: eCash of this mint that is to be swapped, <<y, n>> the n-th that was issued for y;
\* shown: the preimage its witnesses hold.
Job == [inputs: SUBSET Proof, todo: SUBSET Proof, hand: SUBSET Proof,
        mints: SUBSET Mint, kid: Kid \cup {None}, coins: SUBSET (Proof \X Nat),
        shown: Secret \cup Token \cup {None}]

NoJob == [inputs |-> {}, todo |-> {}, hand |-> {}, mints |-> {}, kid |-> None, coins |-> {},
          shown |-> None]

Init ==
    /\ htlcs = {} /\ fps = {} /\ offline = {}
    /\ banked = [y \in Proof |-> 0]
    /\ pc = [a \in Agent |-> "idle"]
    /\ job = [a \in Agent |-> NoJob]
    /\ Keys!Init
    /\ home = [y \in Proof |-> 0] /\ redeemed = {} /\ late = {}
    /\ recorded = {} /\ signalled = {}
    /\ up = [m \in Mint |-> TRUE]
    /\ spent = {} /\ lapsed = {} /\ refunded = {} /\ dropped = {}
    /\ outages = 0 /\ failures = 0

Of(m, proofs) == {y \in proofs : Issuer[y] = m}

\* The preimage under which the eCash got for y is locked.
SecretOf(y) == IF y \in Htlc THEN Lock[y] ELSE y

\* The inputs of a request.
Alike(proofs) ==
    /\ proofs # {}
    /\ \A x, y \in proofs : Issuer[x] = Issuer[y] /\ Due[x] = Due[y]

Add(count, proofs) == [y \in Proof |-> count[y] + IF y \in proofs THEN 1 ELSE 0]

Goto(a, l) == pc' = [pc EXCEPT ![a] = l]

\* The reply, with or without an error.
End(a) == Goto(a, "idle") /\ job' = [job EXCEPT ![a] = NoJob]

Begin(a, l, j) ==
    /\ pc[a] = "idle"
    /\ Goto(a, l)
    /\ job' = [job EXCEPT ![a] = j]

-----------------------------------------------------------------------------
(* online_exchange *)

OnlineStart(p) ==
    \E inputs \in SUBSET Htlc :
        /\ Alike(inputs) /\ \A x, y \in inputs : Lock[x] = Lock[y]
        /\ Begin(p, "check", [NoJob EXCEPT !.inputs = inputs])
        /\ UNCHANGED <<repo, core, clowder, abroad, faults>>

\* check_state: their mint answers that the proofs are unspent.
Unspent(proofs) ==
    /\ proofs \cap (spent \cup refunded) = {}
    /\ \A y \in proofs : up[Issuer[y]]

\* check_htlc_foreign_proofs.
CheckHtlcs(p) ==
    /\ pc[p] = "check"
    /\ IF Unspent(job[p].inputs)
       THEN Goto(p, "keyset") /\ UNCHANGED job
       ELSE End(p)
    /\ UNCHANGED <<repo, core, clowder, abroad, faults>>

\* Mutant: the rows replace those that have the same hash, as in the repository of the tests.
StoreHtlcs_Replace(p) ==
    /\ pc[p] = "htlc"
    /\ htlcs' = {y \in htlcs : \A x \in job[p].inputs : Lock[y] # Lock[x]} \cup job[p].inputs
    /\ Goto(p, "reply")
    /\ UNCHANGED <<fps, offline, banked, job, core, clowder, abroad, faults>>

\* All rows are inserted, or none if one of them exists.
StoreHtlcs(p) ==
    /\ pc[p] = "htlc"
    /\ IF job[p].inputs \cap htlcs = {}
       THEN htlcs' = htlcs \cup job[p].inputs /\ Goto(p, "reply") /\ UNCHANGED job
       ELSE End(p) /\ UNCHANGED htlcs
    /\ UNCHANGED <<fps, offline, banked, core, clowder, abroad, faults>>

-----------------------------------------------------------------------------
(* offline_exchange *)

OfflineStart(p) ==
    \E inputs \in SUBSET Token :
        /\ Alike(inputs)
        /\ Begin(p, "accept", [NoJob EXCEPT !.inputs = inputs, !.todo = inputs])
        /\ UNCHANGED <<repo, core, clowder, abroad, faults>>

\* can_accept_offline_exchange: this mint stands in for one that is offline.
Accept(p) ==
    /\ pc[p] = "accept"
    /\ IF job[p].inputs \cap spent = {} /\ \A y \in job[p].inputs : ~up[Issuer[y]]
       THEN Goto(p, "record") /\ UNCHANGED job
       ELSE End(p)
    /\ UNCHANGED <<repo, core, clowder, abroad, faults>>

\* Clowder locks the inputs to this exchange.
Record(p) ==
    /\ pc[p] = "record"
    /\ IF job[p].inputs \cap recorded = {}
       THEN recorded' = recorded \cup job[p].inputs /\ Goto(p, "keyset") /\ UNCHANGED job
       ELSE End(p) /\ UNCHANGED recorded
    /\ UNCHANGED <<repo, core, known, signalled, abroad, faults>>

\* One insertion for each fingerprint; one that exists ends the request there.
StoreFp(p) ==
    \E y \in job[p].todo :
        /\ pc[p] = "fps"
        /\ IF y \in fps
           THEN End(p) /\ UNCHANGED fps
           ELSE /\ fps' = fps \cup {y}
                /\ job' = [job EXCEPT ![p].todo = @ \ {y}]
                /\ Goto(p, IF job[p].todo = {y} THEN "reply" ELSE "fps")
        /\ UNCHANGED <<htlcs, offline, banked, core, clowder, abroad, faults>>

-----------------------------------------------------------------------------
(* What both exchanges do to issue eCash of this mint. *)

\* The date on which the new eCash expires is the one of the inputs.
DueOf(p) == CHOOSE d \in Date : \A y \in job[p].inputs : Due[y] = d

\* get_keyset_with_expiration: one of the keysets of that date, or else a new one.
FindKeyset(p) ==
    /\ pc[p] = "keyset"
    /\ \/ Keys!Listed(DueOf(p)) = {} /\ Goto(p, "announce") /\ UNCHANGED job
       \/ \E k \in Keys!Listed(DueOf(p)) : Goto(p, "issue") /\ job' = [job EXCEPT ![p].kid = k]
    /\ UNCHANGED <<repo, core, clowder, abroad, faults>>

\* Mutant: the keyset is stored before clowder hears of it.
AnnounceKeyset_Late(p) ==
    \E k \in Keys!Generated(DueOf(p)) :
        /\ pc[p] = "announce"
        /\ Keys!Store(k)
        /\ job' = [job EXCEPT ![p].kid = k]
        /\ Goto(p, "create")
        /\ UNCHANGED <<repo, home, redeemed, late, recorded, signalled, abroad, faults>>

AnnounceKeyset(p) ==
    \E k \in Keys!Generated(DueOf(p)) :
        /\ pc[p] = "announce"
        /\ Keys!Announce(k)
        /\ job' = [job EXCEPT ![p].kid = k]
        /\ Goto(p, "create")
        /\ UNCHANGED <<repo, home, redeemed, late, recorded, signalled, abroad, faults>>

StoreKeyset(p) ==
    /\ pc[p] = "create"
    /\ \/ Keys!Store(job[p].kid) /\ Goto(p, "issue") /\ UNCHANGED job
       \/ Keys!Exists(job[p].kid) /\ End(p) /\ UNCHANGED <<rows, known>>
    /\ UNCHANGED <<repo, home, redeemed, late, recorded, signalled, abroad, faults>>

\* The core service signs with keysets it has.
Signed(p) == Keys!Exists(job[p].kid)

\* signal_online_exchange_event and signal_offline_exchange_event tell clowder of the eCash.
SignalOnline(p) ==
    /\ pc[p] = "issue" /\ Signed(p)
    /\ job[p].inputs \subseteq Htlc
    /\ signalled' = signalled \cup {job[p].kid}
    /\ Goto(p, "htlc")
    /\ UNCHANGED <<repo, job, core, known, recorded, abroad, faults>>

SignalOffline(p) ==
    /\ pc[p] = "issue" /\ Signed(p)
    /\ job[p].inputs \subseteq Token
    /\ signalled' = signalled \cup {job[p].kid}
    /\ Goto(p, "fps")
    /\ UNCHANGED <<repo, job, core, known, recorded, abroad, faults>>

Reply(p) ==
    /\ pc[p] = "reply"
    /\ home' = Add(home, job[p].inputs)
    /\ End(p)
    /\ UNCHANGED <<repo, rows, redeemed, late, clowder, abroad, faults>>

-----------------------------------------------------------------------------
(* A swap of such eCash at the wallet aggregator: if its proofs have an    *)
(* HTLC witness, test_for_htlc has the treasury try the preimage in it     *)
(* (try_swap_htlc).  The core service swaps in any case.                   *)

\* What was issued for a proof and was not swapped yet.
CoinsOf(y) == {<<y, n>> : n \in 1..home[y]} \ redeemed

RedeemStart(p) ==
    \E coins \in SUBSET UNION {CoinsOf(y) : y \in Proof}, s \in Secret \cup Token \cup {None} :
        /\ coins # {} /\ \A c, d \in coins : SecretOf(c[1]) = SecretOf(d[1])
        /\ Begin(p, IF s = None THEN "core" ELSE "search",
                 [NoJob EXCEPT !.coins = coins, !.shown = s])
        /\ UNCHANGED <<repo, core, clowder, abroad, faults>>

SearchHtlc(secret) == {y \in htlcs : Lock[y] = secret}

SearchFp(secret) == fps \cap {secret}

\* Mutant: what is found is claimed as an offline proof, wherever it was found.
Search_Claim(p) ==
    LET found == SearchHtlc(job[p].shown) \cup SearchFp(job[p].shown)
    IN  /\ pc[p] = "search"
        /\ job' = [job EXCEPT ![p].todo = found]
        /\ Goto(p, IF found # {} THEN "claim" ELSE "core")
        /\ UNCHANGED <<repo, core, clowder, abroad, faults>>

\* search_fp only if search_htlc found nothing; that neither finds anything is no error.
Search(p) ==
    LET locked == SearchHtlc(job[p].shown)
    IN  /\ pc[p] = "search"
        /\ job' = [job EXCEPT ![p].todo = IF locked # {} THEN locked ELSE SearchFp(job[p].shown)]
        /\ Goto(p, IF locked # {} THEN "swap" ELSE IF job'[p].todo # {} THEN "claim" ELSE "core")
        /\ UNCHANGED <<repo, core, clowder, abroad, faults>>

\* The other mint takes the proofs: they are unspent, and it can be reached.
Swappable(m, proofs) == up[m] /\ proofs \cap (spent \cup refunded) = {}

\* try_online_htlc, for one mint after the other: an error ends the request.
SwapHtlcs(p) ==
    \E m \in Mint :
        LET proofs == Of(m, job[p].todo)
        IN  /\ pc[p] = "swap" /\ proofs # {}
            /\ IF Swappable(m, proofs)
               THEN /\ spent' = spent \cup proofs
                    /\ job' = [job EXCEPT ![p].todo = @ \ proofs, ![p].hand = proofs]
                    /\ Goto(p, "bank")
               ELSE End(p) /\ UNCHANGED spent
            /\ UNCHANGED <<repo, core, clowder, up, locktimes, faults>>

BankHtlcs(p) ==
    /\ pc[p] = "bank" /\ p \in Proc
    /\ banked' = Add(banked, job[p].hand)
    /\ Goto(p, "remove")
    /\ UNCHANGED <<htlcs, fps, offline, job, core, clowder, abroad, faults>>

\* remove_htlcs deletes row after row.
RemoveHtlc(p) ==
    \E y \in job[p].hand :
        /\ pc[p] = "remove"
        /\ htlcs' = htlcs \ {y}
        /\ job' = [job EXCEPT ![p].hand = @ \ {y}]
        /\ Goto(p, IF job[p].hand # {y} THEN "remove"
                   ELSE IF job[p].todo # {} THEN "swap" ELSE "core")
        /\ UNCHANGED <<fps, offline, banked, core, clowder, abroad, faults>>

\* try_offline_htlc_swap: remove_fps, then store_proofs.
ClaimFp(p) ==
    /\ pc[p] = "claim"
    /\ fps' = fps \ job[p].todo
    /\ job' = [job EXCEPT ![p].hand = job[p].todo]
    /\ Goto(p, "keep")
    /\ UNCHANGED <<htlcs, offline, banked, core, clowder, abroad, faults>>

StoreProof(p) ==
    /\ pc[p] = "keep"
    /\ IF job[p].hand \cap offline = {}
       THEN /\ offline' = offline \cup job[p].hand
            /\ job' = [job EXCEPT ![p].hand = {}]
            /\ Goto(p, "core")
       ELSE End(p) /\ UNCHANGED offline
    /\ UNCHANGED <<htlcs, fps, banked, core, clowder, abroad, faults>>

\* The preimage of the hash that the eCash is locked with.
Shows(j, c) == SecretOf(c[1]) = j.shown

\* The core service takes eCash that was not swapped before and whose conditions are met,
\* as NUT-14 has them: its preimage is shown, or it is past its locktime.
CoreSwap(p) ==
    LET coins == job[p].coins
        met == \A c \in coins : Shows(job[p], c) \/ c[1] \in lapsed
    IN  /\ pc[p] = "core"
        /\ IF met /\ coins \cap redeemed = {}
           THEN /\ redeemed' = redeemed \cup coins
                /\ late' = late \cup {c \in coins : ~Shows(job[p], c)}
           ELSE UNCHANGED <<redeemed, late>>
        /\ End(p)
        /\ UNCHANGED <<repo, rows, home, clowder, abroad, faults>>

-----------------------------------------------------------------------------
(* settle::Handler: what goes wrong for one mint is left for a later round. *)

SettleStart ==
    /\ offline # {}
    /\ Begin(Settler, "mint", [NoJob EXCEPT !.mints = {Issuer[y] : y \in offline}])
    /\ UNCHANGED <<repo, core, clowder, abroad, faults>>

NextMint(m) ==
    job' = [job EXCEPT ![Settler] = [NoJob EXCEPT !.mints = job[Settler].mints \ {m}]]

LoadProofs ==
    \E m \in job[Settler].mints :
        /\ pc[Settler] = "mint"
        /\ IF up[m]
           THEN /\ job' = [job EXCEPT ![Settler].inputs = Of(m, offline)]
                /\ Goto(Settler, "swap")
           ELSE NextMint(m) /\ UNCHANGED pc
        /\ UNCHANGED <<repo, core, clowder, abroad, faults>>

SettleSwap ==
    \E m \in job[Settler].mints :
        LET proofs == job[Settler].inputs
        IN  /\ pc[Settler] = "swap" /\ proofs = Of(m, proofs) /\ proofs # {}
            /\ IF Swappable(m, proofs)
               THEN /\ spent' = spent \cup proofs
                    /\ job' = [job EXCEPT ![Settler].hand = proofs]
                    /\ Goto(Settler, "bank")
               ELSE NextMint(m) /\ Goto(Settler, "mint") /\ UNCHANGED spent
            /\ UNCHANGED <<repo, core, clowder, up, locktimes, faults>>

\* Mutant: the repository appends what it is given, as the one on Postgres does.
BankSettled_Append ==
    /\ pc[Settler] = "bank"
    /\ banked' = Add(banked, job[Settler].hand)
    /\ job' = [job EXCEPT ![Settler].hand = {}]
    /\ Goto(Settler, "remove")
    /\ UNCHANGED <<htlcs, fps, offline, core, clowder, abroad, faults>>

\* Tried until the repository takes it, which it never does if it has it already.
BankSettled ==
    /\ pc[Settler] = "bank"
    /\ \A y \in job[Settler].hand : banked[y] = 0
    /\ banked' = Add(banked, job[Settler].hand)
    /\ job' = [job EXCEPT ![Settler].hand = {}]
    /\ Goto(Settler, "remove")
    /\ UNCHANGED <<htlcs, fps, offline, core, clowder, abroad, faults>>

\* Stored, but the answer is lost: the routine tries again.
BankUnheard ==
    /\ pc[Settler] = "bank" /\ failures < MaxFailures
    /\ failures' = failures + 1
    /\ \A y \in job[Settler].hand : banked[y] = 0
    /\ banked' = Add(banked, job[Settler].hand)
    /\ UNCHANGED <<htlcs, fps, offline, pc, job, core, clowder, abroad, dropped, outages>>

\* Mutant: the proofs of the mint are removed, whatever was settled.
Left_ByMint(how, proofs) == {y \in offline : \A x \in proofs : Issuer[x] # Issuer[y]}

\* What remove_proofs leaves, given the proofs that were settled.
Left(how, proofs) ==
    CASE how = "named" -> offline \ proofs
      [] how = "none" -> offline
      [] how = "all" -> {}

RemoveSettled ==
    \E m \in job[Settler].mints, how \in Removals :
        /\ pc[Settler] = "remove" /\ job[Settler].inputs = Of(m, job[Settler].inputs)
        /\ offline' = Left(how, job[Settler].inputs)
        /\ NextMint(m) /\ Goto(Settler, "mint")
        /\ UNCHANGED <<htlcs, fps, banked, core, clowder, abroad, faults>>

SettleDone ==
    /\ pc[Settler] = "mint" /\ job[Settler].mints = {}
    /\ End(Settler)
    /\ UNCHANGED <<repo, core, clowder, abroad, faults>>

\* A call for one mint fails: on with the next.  So it is when remove_proofs fails.
SettleSkip ==
    \E m \in job[Settler].mints :
        /\ failures < MaxFailures
        /\ failures' = failures + 1
        /\ pc[Settler] \in {"mint", "swap", "remove"}
        /\ job[Settler].inputs = Of(m, job[Settler].inputs)
        /\ NextMint(m) /\ Goto(Settler, "mint")
        /\ UNCHANGED <<repo, core, clowder, abroad, dropped, outages>>

-----------------------------------------------------------------------------
(* The environment. *)

\* A mint goes offline, and comes back.
Outage(m) ==
    /\ up[m] /\ outages < MaxOutages
    /\ up' = [up EXCEPT ![m] = FALSE]
    /\ outages' = outages + 1
    /\ UNCHANGED <<repo, pc, job, core, clowder, spent, locktimes, dropped, failures>>

Return(m) ==
    /\ ~up[m]
    /\ up' = [up EXCEPT ![m] = TRUE]
    /\ UNCHANGED <<repo, pc, job, core, clowder, spent, locktimes, faults>>

\* The locktime passes of the eCash that an online exchange of y issues or issued.
Lapse(y) ==
    /\ y \notin lapsed
    /\ lapsed' = lapsed \cup {y}
    /\ UNCHANGED <<repo, pc, job, core, clowder, up, spent, refunded, faults>>

\* Its wallet takes y back when its own locktime has passed, which is a later one.
Refund(y) ==
    /\ y \in lapsed /\ Swappable(Issuer[y], {y})
    /\ refunded' = refunded \cup {y}
    /\ UNCHANGED <<repo, pc, job, core, clowder, up, spent, lapsed, faults>>

\* What an agent that stops here had and stored nowhere.
InHand(a) == IF pc[a] \in {"bank", "keep"} THEN {y \in job[a].hand : banked[y] = 0} ELSE {}

\* A call fails before it did its work, or the wallet's connection closes.
Fail(a) ==
    /\ failures < MaxFailures
    /\ failures' = failures + 1
    /\ pc[a] # "idle" /\ (a = Settler => pc[a] # "bank")
    /\ dropped' = dropped \cup InHand(a)
    /\ End(a)
    /\ UNCHANGED <<repo, core, clowder, abroad, outages>>

\* A swap is done at the other mint, but the answer is lost.
SwapUnheard(a) ==
    \E m \in Mint :
        LET proofs == Of(m, IF a = Settler THEN job[a].inputs ELSE job[a].todo)
        IN  /\ failures < MaxFailures
            /\ failures' = failures + 1
            /\ pc[a] = "swap" /\ proofs # {} /\ Swappable(m, proofs)
            /\ spent' = spent \cup proofs
            /\ dropped' = dropped \cup proofs
            /\ IF a = Settler THEN NextMint(m) /\ Goto(a, "mint") ELSE End(a)
            /\ UNCHANGED <<repo, core, clowder, up, locktimes, outages>>

Crash ==
    /\ failures < MaxFailures
    /\ failures' = failures + 1
    /\ dropped' = dropped \cup UNION {InHand(a) : a \in Agent}
    /\ pc' = [a \in Agent |-> "idle"]
    /\ job' = [a \in Agent |-> NoJob]
    /\ UNCHANGED <<repo, core, clowder, abroad, outages>>

Exchange(p) ==
    \/ OnlineStart(p) \/ CheckHtlcs(p) \/ StoreHtlcs(p)
    \/ OfflineStart(p) \/ Accept(p) \/ Record(p) \/ StoreFp(p)
    \/ FindKeyset(p) \/ AnnounceKeyset(p) \/ StoreKeyset(p)
    \/ SignalOnline(p) \/ SignalOffline(p) \/ Reply(p)

Redeem(p) ==
    \/ RedeemStart(p) \/ Search(p) \/ SwapHtlcs(p) \/ BankHtlcs(p) \/ RemoveHtlc(p)
    \/ ClaimFp(p) \/ StoreProof(p) \/ CoreSwap(p)

Settle ==
    \/ SettleStart \/ LoadProofs \/ SettleSwap \/ BankSettled \/ RemoveSettled \/ SettleDone

Next ==
    \/ \E p \in Proc : Exchange(p) \/ Redeem(p)
    \/ Settle \/ SettleSkip \/ BankUnheard
    \/ \E m \in Mint : Outage(m) \/ Return(m)
    \/ \E y \in Htlc : Lapse(y) \/ Refund(y)
    \/ \E a \in Agent : Fail(a) \/ SwapUnheard(a)
    \/ Crash

\* The routine runs again and again and its calls return; a mint that is offline comes back.
Spec ==
    /\ Init /\ [][Next]_vars
    /\ WF_vars(Settle)
    /\ \A m \in Mint : WF_vars(Return(m))

-----------------------------------------------------------------------------
(* Properties. *)

TypeOK ==
    /\ htlcs \in SUBSET Htlc /\ fps \in SUBSET Token /\ offline \in SUBSET Token
    /\ pc \in [Agent -> PCs] /\ job \in [Agent -> Job]
    /\ banked \in [Proof -> Nat] /\ home \in [Proof -> Nat] /\ redeemed \in SUBSET (Proof \X Nat)
    /\ late \in SUBSET (Proof \X Nat) /\ lapsed \in SUBSET Htlc /\ refunded \in SUBSET Htlc
    /\ rows \in SUBSET Kid /\ known \in SUBSET Kid /\ signalled \in SUBSET Kid
    /\ recorded \in SUBSET Token /\ up \in [Mint -> BOOLEAN]
    /\ spent \in SUBSET Proof /\ dropped \in SUBSET Proof

Held == {y \in Proof : banked[y] > 0} \cup (UNION {InHand(a) : a \in Agent}) \cup dropped

\* No interleaving of exchanges, redemptions and rounds of the routine loses foreign eCash:
\* a proof that this mint spent is stored as new proofs or with the handler that stores
\* them, and one that a wallet got eCash for waits for its secret or to be settled, or was
\* taken.  Only a call that fails at the wrong moment drops it.
NothingIsLost ==
    /\ spent \subseteq Held
    /\ \A y \in Proof : home[y] > 0 => y \in Held \cup htlcs \cup fps \cup offline

\* However requests for the same proofs and secrets meet, a foreign proof pays for one
\* redemption that shows its secret, and only after this mint has taken it.  Without the
\* secret only eCash of an online exchange that is past its locktime is redeemed, and what
\* a wallet took back paid for no other.
RedeemedOnce ==
    /\ \A c \in redeemed \ late :
           /\ c[1] \in (Held \cup offline) \ refunded
           /\ \A d \in redeemed \ late : c[1] = d[1] => c = d
    /\ \A c \in late : c[1] \in lapsed

\* The store that is tried again and again keeps what a foreign proof was swapped for once.
BankedOnce == \A y \in Proof : banked[y] <= 1

\* Clowder knows the keyset of all eCash it is told of, although exchanges of one date find
\* keysets that others are creating.
IssuedIsKnown == signalled \subseteq known

\* "foreign mint is back online, proceed to settle": a proof that waits for its mint is
\* settled, now or in a later round, unless a failure drops it.
Settled == \A y \in Token : y \in offline ~> banked[y] > 0 \/ y \in dropped
=============================================================================
