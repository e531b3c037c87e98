--------------------------- MODULE TreasuryProofs ---------------------------
(***************************************************************************)
(* Proofs about Treasury, for any number of melts, mints, fee proofs and   *)
(* requests.  The argument for the vault: the core service never takes a   *)
(* spent proof back, so what a request was told to be spent is spent when  *)
(* it is deleted (BankInv), whatever other requests do in between.  For    *)
(* the rest: OnchainInv holds in the composition too, and a reply enters   *)
(* the cache at the end of a melt, which it knows to be settled.           *)
(***************************************************************************)
EXTENDS Treasury, OnchainProofs

\* What is not spent after a step of a token's holder was not spent before it.
LEMMA SpentStays ==
    ASSUME BankTyped, FeeMoves
    PROVE  /\ state' \in [Fee -> States]
           /\ \A f \in Fee : state'[f] # "spent" => state[f] # "spent"
<1>1. PICK f \in lent :
         \/ state[f] = "unspent" /\ state' = [state EXCEPT ![f] = "pending"]
         \/ state[f] = "pending" /\ \E s \in {"unspent", "spent"} : state' = [state EXCEPT ![f] = s]
  BY DEF FeeMoves
<1>2. state' \in [Fee -> States]
  BY <1>1 DEF BankTyped, States
<1>3. ASSUME NEW g \in Fee, state'[g] # "spent" PROVE state[g] # "spent"
  BY <1>1, <1>3 DEF BankTyped, States
<1> QED BY <1>2, <1>3

\* A request that goes on with what it knows still knows it if nothing that is left of the
\* vault went and nothing that was spent came back.
LEMMA StillKnows ==
    ASSUME BankInv, NEW c \in Clerk, clerk'[c] = clerk[c],
           \A f \in Fee : state'[f] # "spent" => state[f] # "spent",
           LeftOf(vault) \subseteq vault', vault \subseteq Fee
    PROVE  ClerkKnows(c)'
<1> DEFINE r == clerk[c]
<1>1. r.listed \subseteq Fee /\ r.todo \subseteq Fee /\ ClerkKnows(c) /\ clerk'[c] = r
  BY DEF BankInv, BankTyped, Request
<1>2. \A f \in r.listed : state'[f] # "spent" => f \in LeftOf(r.listed)
  BY <1>1 DEF LeftOf
<1>3. LeftOf(r.todo) = {} => \A f \in r.todo : state'[f] = "spent"
  BY <1>1 DEF LeftOf
<1>4. ASSUME r.at \in {"states", "delete", "load"}, NEW f \in LeftOf(r.listed)
      PROVE  f \in vault'
  BY <1>1, <1>4 DEF ClerkKnows, LeftOf
<1>5. ASSUME r.at = "delete"
      PROVE  \A f \in r.todo : state'[f] = "spent"
  BY <1>1, <1>3, <1>5 DEF ClerkKnows
<1>6. r.at = "delete" => LeftOf(r.listed) \subseteq r.ys
  BY <1>1 DEF ClerkKnows
<1>7. r.at = "load" => LeftOf(r.listed) \subseteq r.todo \cup r.got
  BY <1>1 DEF ClerkKnows
<1> QED BY <1>1, <1>2, <1>4, <1>5, <1>6, <1>7 DEF ClerkKnows, LeftOf

\* The steps of the on-chain half and of the cache leave the vault alone, except that a melt
\* banks its fees.
LEMMA OnchainBanks ==
    ASSUME BankInv,
           OnchainStep \/ (\E p \in Proc : CachedMeltStep(p)) \/ UNCHANGED treasury
    PROVE  /\ vault \subseteq vault' /\ vault' \subseteq Fee
           /\ UNCHANGED <<clerk, sent, state, token, lent>>
<1>1. ASSUME NEW p \in Proc, BankFees(p)
      PROVE  vault \subseteq vault' /\ vault' \subseteq Fee
  BY <1>1, FeeAssumption DEF BankFees, BankInv, BankTyped
<1>2. vault \subseteq Fee
  BY DEF BankInv, BankTyped
<1>3. CASE OnchainStep
  BY <1>2, <1>3 DEF OnchainStep, bank
<1>4. CASE \E p \in Proc : CachedMeltStep(p)
  <2>1. PICK p \in Proc : CachedMeltStep(p)
    BY <1>4
  <2>2. CASE StoreFees(p) /\ BankFees(p) /\ UNCHANGED <<web, clerk, sent, state, token, lent>>
    BY <1>1, <2>2
  <2>3. CASE UNCHANGED bank
    BY <1>2, <2>3 DEF bank
  <2> QED BY <2>1, <2>2, <2>3 DEF CachedMeltStep, bank
<1>5. CASE UNCHANGED treasury
  BY <1>2, <1>5 DEF treasury, bank
<1> QED BY <1>3, <1>4, <1>5

LEMMA BankInit == TreasuryInit => BankInv
<1> SUFFICES ASSUME TreasuryInit PROVE BankInv
  OBVIOUS
<1>1. BankTyped
  BY DEF TreasuryInit, BankTyped, NoRequest, Request, States
<1>2. \A c \in Clerk : ClerkKnows(c)
  BY DEF TreasuryInit, ClerkKnows, NoRequest
<1> QED BY <1>1, <1>2 DEF BankInv

\* A step of request c leaves the others with what they know.
LEMMA VaultStepPreserves ==
    ASSUME BankInv, NEW c \in Clerk, VaultStep(c)
    PROVE  BankInv'
<1> DEFINE r == clerk[c]
<1>1. /\ r \in Request /\ r.listed \subseteq Fee /\ r.ys \subseteq Fee /\ ClerkKnows(c)
      /\ r.todo \subseteq Fee /\ r.got \subseteq Fee
      /\ clerk \in [Clerk -> Request] /\ vault \subseteq Fee /\ state \in [Fee -> States]
  BY DEF BankInv, BankTyped, Request
<1>2. state' = state
  BY DEF VaultStep, StoreProofs, InsertProofs, ListYs, CheckSpent, DeleteProofs, LoadProofs,
         GiveToken, FailClerk, vars, web
<1>3. ASSUME vault' \subseteq Fee, LeftOf(vault) \subseteq vault',
             NEW s \in Request, Become(c, s), ClerkKnows(c)'
      PROVE  BankInv'
  <2>1. BankTyped'
    BY <1>1, <1>2, <1>3 DEF BankTyped, Become
  <2>2. ASSUME NEW d \in Clerk, d # c PROVE ClerkKnows(d)'
    <3>1. clerk'[d] = clerk[d]
      BY <1>1, <1>3, <2>2 DEF Become
    <3> QED BY <1>1, <1>2, <1>3, <3>1, StillKnows
  <2> QED BY <1>3, <2>1, <2>2 DEF BankInv
<1>4. NoRequest \in Request /\ (Become(c, NoRequest) => ClerkKnows(c)')
  BY <1>1 DEF NoRequest, Request, Become, ClerkKnows
<1>5. CASE StoreProofs(c)
  <2>1. PICK S \in SUBSET (SwapFees \ sent) :
           Become(c, [NoRequest EXCEPT !.at = "insert", !.ys = Unspent(S)]) /\ vault' = vault
    BY <1>5 DEF StoreProofs
  <2> DEFINE s == [NoRequest EXCEPT !.at = "insert", !.ys = Unspent(S)]
  <2>2. s \in Request /\ s.at = "insert"
    BY DEF Request, NoRequest, SwapFees, Unspent
  <2>3. ClerkKnows(c)'
    BY <1>1, <2>1, <2>2 DEF Become, ClerkKnows
  <2> QED BY <1>1, <1>3, <2>1, <2>2, <2>3 DEF LeftOf
<1>6. CASE InsertProofs(c)
  <2>1. Become(c, NoRequest) /\ vault' = vault \cup r.ys
    BY <1>6 DEF InsertProofs
  <2> QED BY <1>1, <1>3, <1>4, <2>1 DEF LeftOf
<1>7. CASE ListYs(c)
  <2> DEFINE s == [NoRequest EXCEPT !.at = "states", !.listed = vault]
  <2>1. Become(c, s) /\ vault' = vault
    BY <1>7 DEF ListYs
  <2>2. s \in Request /\ s.at = "states" /\ s.listed = vault
    BY <1>1 DEF Request, NoRequest
  <2>3. ClerkKnows(c)'
    BY <1>1, <1>2, <2>1, <2>2 DEF Become, ClerkKnows, LeftOf
  <2> QED BY <1>1, <1>3, <2>1, <2>2, <2>3 DEF LeftOf
<1>8. CASE CheckSpent(c)
  <2> DEFINE u == Unspent(r.listed)
             s == [r EXCEPT !.at = "delete", !.ys = u, !.todo = r.listed \ u]
  <2>1. At(c, "states") /\ Become(c, s) /\ vault' = vault
    BY <1>8 DEF CheckSpent
  <2>2. /\ s \in Request /\ s.at = "delete" /\ s.listed = r.listed
        /\ s.ys = u /\ s.todo = r.listed \ u
    BY <1>1 DEF Request, Unspent
  <2>3. LeftOf(r.listed \ u) = {} /\ LeftOf(r.listed) \subseteq u
    BY <1>1 DEF LeftOf, Unspent, IsSpent
  <2>4. LeftOf(r.listed) \subseteq vault
    BY <1>1, <2>1 DEF ClerkKnows, At
  <2>5. ClerkKnows(c)'
    BY <1>1, <1>2, <2>1, <2>2, <2>3, <2>4 DEF Become, ClerkKnows, LeftOf
  <2> QED BY <1>1, <1>3, <2>1, <2>2, <2>5 DEF LeftOf
<1>9. CASE DeleteProofs(c)
  <2>1. /\ r.at = "delete" /\ LeftOf(r.todo) = {}
        /\ LeftOf(r.listed) \subseteq r.ys /\ LeftOf(r.listed) \subseteq vault
    BY <1>1, <1>9 DEF DeleteProofs, At, ClerkKnows
  <2>2. ASSUME NEW f \in r.todo, vault' = vault \ {f},
               Become(c, [r EXCEPT !.todo = @ \ {f}])
        PROVE  BankInv'
    <3> DEFINE s == [r EXCEPT !.todo = @ \ {f}]
    <3>1. /\ s \in Request /\ s.at = "delete" /\ s.listed = r.listed /\ s.ys = r.ys
          /\ s.todo = r.todo \ {f}
      BY <1>1, <2>1 DEF Request
    <3>2. state[f] = "spent"
      BY <2>1, <2>2 DEF LeftOf
    <3>3. LeftOf(vault) \subseteq vault'
      BY <2>2, <3>2 DEF LeftOf
    <3>4. ClerkKnows(c)'
      BY <1>1, <1>2, <2>1, <2>2, <3>1, <3>2 DEF Become, ClerkKnows, LeftOf
    <3> QED BY <1>1, <1>3, <2>2, <3>1, <3>3, <3>4
  <2>3. ASSUME Become(c, [r EXCEPT !.at = "load", !.todo = r.ys]), vault' = vault
        PROVE  BankInv'
    <3> DEFINE s == [r EXCEPT !.at = "load", !.todo = r.ys]
    <3>1. /\ s \in Request /\ s.at = "load" /\ s.listed = r.listed /\ s.todo = r.ys
      BY <1>1 DEF Request
    <3>2. ClerkKnows(c)'
      BY <1>1, <1>2, <2>1, <2>3, <3>1 DEF Become, ClerkKnows, LeftOf
    <3> QED BY <1>1, <1>3, <2>3, <3>1, <3>2 DEF LeftOf
  <2> QED BY <1>9, <2>2, <2>3 DEF DeleteProofs
<1>10. CASE LoadProofs(c)
  <2>1. PICK f \in r.todo :
           /\ Become(c, [r EXCEPT !.todo = @ \ {f}, !.got = @ \cup ({f} \cap vault)])
           /\ vault' = vault
    BY <1>10 DEF LoadProofs
  <2> DEFINE s == [r EXCEPT !.todo = @ \ {f}, !.got = @ \cup ({f} \cap vault)]
  <2>2. /\ s \in Request /\ s.at = "load" /\ s.listed = r.listed
        /\ s.todo = r.todo \ {f} /\ s.got = r.got \cup ({f} \cap vault)
    BY <1>1, <1>10 DEF Request, LoadProofs, At
  <2>3. /\ LeftOf(r.listed) \subseteq vault
        /\ LeftOf(r.listed) \subseteq r.todo \cup r.got
    BY <1>1, <1>10 DEF ClerkKnows, LoadProofs, At
  <2>4. LeftOf(r.listed) \subseteq s.todo \cup s.got
    BY <2>2, <2>3
  <2>5. ClerkKnows(c)'
    BY <1>1, <1>2, <2>1, <2>2, <2>3, <2>4 DEF Become, ClerkKnows, LeftOf
  <2> QED BY <1>1, <1>3, <2>1, <2>2, <2>5 DEF LeftOf
<1>11. CASE GiveToken(c) \/ FailClerk(c)
  <2>1. Become(c, NoRequest) /\ vault' = vault
    BY <1>11 DEF GiveToken, FailClerk
  <2> QED BY <1>1, <1>3, <1>4, <2>1 DEF LeftOf
<1> QED BY <1>5, <1>6, <1>7, <1>8, <1>9, <1>10, <1>11 DEF VaultStep

LEMMA BankNext == BankInv /\ [TreasuryNext]_treasury => BankInv'
<1> SUFFICES ASSUME BankInv, [TreasuryNext]_treasury PROVE BankInv'
  OBVIOUS
<1>1. vault \subseteq Fee /\ LeftOf(vault) \subseteq vault
  BY DEF BankInv, BankTyped, LeftOf
<1>2. CASE OnchainStep \/ (\E p \in Proc : CachedMeltStep(p)) \/ UNCHANGED treasury
  <2>1. /\ vault \subseteq vault' /\ vault' \subseteq Fee
        /\ UNCHANGED <<clerk, state>>
    BY <1>2, OnchainBanks
  <2>2. BankTyped'
    BY <2>1 DEF BankInv, BankTyped
  <2>3. \A c \in Clerk : ClerkKnows(c)'
    BY <1>1, <2>1, StillKnows
  <2> QED BY <2>2, <2>3 DEF BankInv
<1>3. CASE \E c \in Clerk : VaultStep(c)
  BY <1>3, VaultStepPreserves
<1>4. CASE FeeMoves
  <2>1. UNCHANGED <<vault, clerk>>
    BY <1>4 DEF FeeMoves
  <2>2. state' \in [Fee -> States] /\ \A f \in Fee : state'[f] # "spent" => state[f] # "spent"
    BY <1>4, SpentStays DEF BankInv
  <2>3. BankTyped'
    BY <2>1, <2>2 DEF BankInv, BankTyped
  <2>4. \A c \in Clerk : ClerkKnows(c)'
    BY <1>1, <2>1, <2>2, StillKnows
  <2> QED BY <2>3, <2>4 DEF BankInv
<1>5. CASE TreasuryCrash
  <2>1. UNCHANGED <<vault, state>> /\ clerk' = [c \in Clerk |-> NoRequest]
    BY <1>5 DEF TreasuryCrash
  <2>2. BankTyped'
    BY <2>1 DEF BankInv, BankTyped, NoRequest, Request
  <2>3. \A c \in Clerk : ClerkKnows(c)'
    BY <2>1 DEF ClerkKnows, NoRequest
  <2> QED BY <2>2, <2>3 DEF BankInv
<1> QED BY <1>2, <1>3, <1>4, <1>5 DEF TreasuryNext

LEMMA BankInvariant == TreasurySpec => []BankInv
BY BankInit, BankNext, PTL DEF TreasurySpec

\* Only a request that was told that a proof is spent deletes it.
LEMMA OnlySpentGo ==
    ASSUME BankInv, [TreasuryNext]_treasury
    PROVE  \A f \in vault \ vault' : state[f] = "spent"
<1>1. CASE OnchainStep \/ (\E p \in Proc : CachedMeltStep(p)) \/ UNCHANGED treasury
  BY <1>1, OnchainBanks
<1>2. ASSUME NEW c \in Clerk, VaultStep(c)
      PROVE  \A f \in vault \ vault' : state[f] = "spent"
  <2>1. CASE DeleteProofs(c)
    <3>1. At(c, "delete") /\ ClerkKnows(c) /\ clerk[c].todo \subseteq Fee
      BY <2>1 DEF DeleteProofs, BankInv, BankTyped, Request
    <3>2. \A f \in clerk[c].todo : state[f] = "spent"
      BY <3>1 DEF ClerkKnows, At, LeftOf
    <3>3. vault \ vault' \subseteq clerk[c].todo
      BY <2>1 DEF DeleteProofs
    <3> QED BY <3>2, <3>3
  <2>2. CASE ~DeleteProofs(c)
    <3>1. vault \subseteq vault'
      BY <1>2, <2>2 DEF VaultStep, StoreProofs, InsertProofs, ListYs, CheckSpent, LoadProofs,
                        GiveToken, FailClerk
    <3> QED BY <3>1
  <2> QED BY <2>1, <2>2
<1>3. CASE FeeMoves \/ TreasuryCrash
  BY <1>3 DEF FeeMoves, TreasuryCrash
<1> QED BY <1>1, <1>2, <1>3 DEF TreasuryNext

\* A fee proof leaves the vault only when it is spent, whatever happens between the calls
\* of any number of requests to vault::Service, and whoever holds it for a while.
THEOREM KeptUntilSpent == TreasurySpec => FeesKept
<1>1. BankInv /\ [TreasuryNext]_treasury =>
        [\A f \in vault \ vault' : state[f] = "spent"]_treasury
  BY OnlySpentGo
<1> QED BY <1>1, BankInvariant, PTL DEF TreasurySpec, FeesKept

\* generate_token returns every proof it listed that can still be spent.
THEOREM TokensWhole == TreasurySpec => TokenIsWhole
<1>1. BankInv /\ [TreasuryNext]_treasury =>
        [\A c \in Clerk : GiveToken(c) => LeftOf(clerk[c].listed) \subseteq token']_treasury
  <2> SUFFICES ASSUME BankInv, NEW c \in Clerk, GiveToken(c)
               PROVE  LeftOf(clerk[c].listed) \subseteq token'
    OBVIOUS
  <2>1. /\ At(c, "load") /\ clerk[c].todo = {} /\ token' = clerk[c].got
        /\ ClerkKnows(c)
    BY DEF GiveToken, BankInv
  <2>2. LeftOf(clerk[c].listed) \subseteq clerk[c].todo \cup clerk[c].got
    BY <2>1 DEF ClerkKnows, At
  <2> QED BY <2>1, <2>2
<1> QED BY <1>1, BankInvariant, PTL DEF TreasurySpec, TokenIsWhole

-----------------------------------------------------------------------------
(* The on-chain half and the cache.  A step of the composition is a step of *)
(* Onchain or leaves it alone, so OnchainInv holds here as well.            *)

LEMMA StepOfOnchain ==
    ASSUME [TreasuryNext]_treasury
    PROVE  [Next]_vars
<1>1. CASE OnchainStep
  BY <1>1 DEF OnchainStep, Next
<1>2. ASSUME NEW p \in Proc, CachedMeltStep(p) PROVE Next
  BY <1>2 DEF CachedMeltStep, CachedMeltStart, MeltStep, Next
<1>3. ASSUME NEW c \in Clerk, VaultStep(c) PROVE UNCHANGED vars
  BY <1>3 DEF VaultStep, StoreProofs, InsertProofs, ListYs, CheckSpent, DeleteProofs,
     LoadProofs, GiveToken, FailClerk
<1>4. CASE FeeMoves
  BY <1>4 DEF FeeMoves
<1>5. CASE TreasuryCrash
  BY <1>5 DEF TreasuryCrash, Next
<1>6. CASE UNCHANGED treasury
  BY <1>6 DEF treasury
<1> QED BY <1>1, <1>2, <1>3, <1>4, <1>5, <1>6 DEF TreasuryNext

\* Melts and mints keep their order, quotes their inputs and ledgers their meaning behind
\* the cache and beside the vault.
THEOREM OnchainHolds == TreasurySpec => []OnchainInv
<1>1. TreasuryInit => OnchainInv
  BY InitInv DEF TreasuryInit
<1>2. OnchainInv /\ [TreasuryNext]_treasury => OnchainInv'
  BY StepOfOnchain, StepInv
<1> QED BY <1>1, <1>2, PTL DEF TreasurySpec

\* The monitor of mint operations calls the core service, clowder and the repository one
\* after the other, and a failure or a restart may cut its round anywhere: clowder is told
\* only of mints that were paid and signed, and knows of all that are recorded as paid.
THEOREM Minted == TreasurySpec => []MintedIsPaidFor
<1>1. OnchainInv => MintedIsPaidFor
  BY DEF OnchainInv
<1> QED BY <1>1, OnchainHolds, PTL

CacheTyped == cache \in [Qid -> Nat \cup {None}]

\* Cleaning removes entries and adds none.
LEMMA CleanedShrinks ==
    ASSUME NEW map \in [Qid -> Nat \cup {None}], NEW at
    PROVE  /\ Cleaned(map, at) \in [Qid -> Nat \cup {None}]
           /\ \A q \in Qid : Cleaned(map, at)[q] # None => map[q] # None
BY DEF Cleaned

\* A reply is stored at the end of a melt that clowder paid.
LEMMA AnswerIsSettled ==
    ASSUME OnchainInv, CacheTyped, CachedIsSettled, [Next]_vars,
           NEW p \in Proc, pc[p] = "paid", Answer(p)
    PROVE  CacheTyped' /\ CachedIsSettled'
<1>1. job[p].id \in settled /\ job[p].id \in Qid /\ settled \subseteq settled'
  BY LedgersGrow DEF OnchainInv, MeltsInOrder, MeltInOrder, TypeOK
<1>2. job[p].at \in Nat
  BY DEF OnchainInv, TypeOK, Job, Agent
<1> DEFINE map == [cache EXCEPT ![job[p].id] = job[p].at]
<1>3. /\ map \in [Qid -> Nat \cup {None}]
      /\ \A q \in Qid : q # job[p].id => map[q] = cache[q]
  BY <1>1, <1>2 DEF CacheTyped
<1>4. cache' = Cleaned(map, job[p].at)
  BY DEF Answer, KeyOf
<1> HIDE DEF map
<1>5. \A q \in Qid : cache'[q] # None => q \in settled
  BY <1>1, <1>3, <1>4, CleanedShrinks DEF CachedIsSettled, Cached
<1> QED BY <1>1, <1>3, <1>4, <1>5, CleanedShrinks DEF CacheTyped, CachedIsSettled, Cached

LEMMA StepCache ==
    ASSUME OnchainInv, CacheTyped, CachedIsSettled, [TreasuryNext]_treasury
    PROVE  CacheTyped' /\ CachedIsSettled'
<1>0. [Next]_vars /\ settled \subseteq settled'
  BY StepOfOnchain, LedgersGrow DEF OnchainInv
<1>1. CASE cache' = cache
  BY <1>0, <1>1 DEF CacheTyped, CachedIsSettled, Cached
<1>2. CASE TreasuryCrash
  BY <1>2 DEF TreasuryCrash, CacheTyped, CachedIsSettled, Cached
<1>3. ASSUME NEW p \in Proc, CachedMeltStep(p)
      PROVE  cache' = cache \/ (pc[p] = "paid" /\ Answer(p))
  BY <1>3 DEF CachedMeltStep, CachedMeltStart, Refuse, SetPaid, web
<1>4. OnchainStep \/ (\E c \in Clerk : VaultStep(c)) \/ FeeMoves \/ UNCHANGED treasury
         => cache' = cache
  BY DEF OnchainStep, VaultStep, StoreProofs, InsertProofs, ListYs, CheckSpent, DeleteProofs,
     LoadProofs, GiveToken, FailClerk, FeeMoves, treasury, web
<1> QED BY <1>0, <1>1, <1>2, <1>3, <1>4, AnswerIsSettled DEF TreasuryNext

\* The cache in front of melt_onchain repeats only the answers of melts that clowder paid,
\* whatever it cleans and whichever of several melts of one quote answers last.
THEOREM CacheSettled == TreasurySpec => []CachedIsSettled
<1>1. TreasuryInit => CacheTyped /\ CachedIsSettled
  BY DEF TreasuryInit, CacheTyped, CachedIsSettled, Cached
<1>2. OnchainInv /\ CacheTyped /\ CachedIsSettled /\ [TreasuryNext]_treasury
        => CacheTyped' /\ CachedIsSettled'
  BY StepCache
<1> QED BY <1>1, <1>2, OnchainHolds, PTL DEF TreasurySpec

\* Putting the cache in front of melts and the vault next to them adds no behaviour to the
\* on-chain half: what the composition does to quotes, operations and ledgers, Onchain does.
THEOREM ComposesOnchain == TreasurySpec => Init /\ [][Next]_vars
<1>1. TreasuryInit => Init
  BY DEF TreasuryInit
<1>2. [TreasuryNext]_treasury => [Next]_vars
  BY StepOfOnchain
<1> QED BY <1>1, <1>2, PTL DEF TreasurySpec
=============================================================================
