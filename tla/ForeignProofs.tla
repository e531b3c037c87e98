--------------------------- MODULE ForeignProofs ---------------------------
(***************************************************************************)
(* Proofs about Foreign, for any number of mints, proofs, keysets and      *)
(* requests, and any number of outages, failures and restarts.             *)
(*                                                                         *)
(* The lemmas called Moves say where each step takes its agent.  Five      *)
(* invariants build on each other: KeysInv types what a handler works on   *)
(* at each place and keeps clowder's keysets ahead of the stored ones;     *)
(* BankInv has each spent proof at one place; LossInv says what handlers   *)
(* may rely on, so that no step drops a proof that was paid for; OnceInv   *)
(* says for which proofs eCash is issued, and what coins stand for whose   *)
(* secret is shown; PaidInv adds what was redeemed and taken back.         *)
(***************************************************************************)
EXTENDS Foreign, TLAPS

\* What agents do, and what they do it to.
WorkOK == pc \in [Agent -> PCs] /\ job \in [Agent -> Job]

DataOK ==
    /\ htlcs \in SUBSET Htlc /\ fps \in SUBSET Token /\ offline \in SUBSET Token
    /\ banked \in [Proof -> Nat] /\ home \in [Proof -> Nat] /\ redeemed \in SUBSET (Proof \X Nat)
    /\ late \in SUBSET (Proof \X Nat) /\ lapsed \in SUBSET Htlc /\ refunded \in SUBSET Htlc
    /\ rows \in SUBSET Kid /\ known \in SUBSET Kid /\ signalled \in SUBSET Kid
    /\ recorded \in SUBSET Token /\ up \in [Mint -> BOOLEAN]
    /\ spent \in SUBSET Proof /\ dropped \in SUBSET Proof

LEMMA TypeParts == TypeOK <=> WorkOK /\ DataOK
  BY DEF TypeOK, WorkOK, DataOK

\* What other mints, wallets and the clock do.
World ==
    \/ \E m \in Mint : Outage(m) \/ Return(m)
    \/ \E y \in Htlc : Lapse(y) \/ Refund(y)

\* A handler's work stays typed if one of its parts is replaced by a typed one.
LEMMA JobParts ==
    ASSUME NEW j \in Job
    PROVE  /\ NoJob \in Job
           /\ j.inputs \subseteq Proof /\ j.todo \subseteq Proof /\ j.hand \subseteq Proof
           /\ j.mints \subseteq Mint /\ j.kid \in Kid \cup {None} /\ j.coins \subseteq Proof \X Nat
           /\ \A S \in SUBSET Proof :
                  /\ [j EXCEPT !.inputs = S] \in Job
                  /\ [j EXCEPT !.todo = S] \in Job
                  /\ [j EXCEPT !.hand = S] \in Job
           /\ \A S, T \in SUBSET Proof :
                  /\ [j EXCEPT !.todo = S, !.hand = T] \in Job
                  /\ [j EXCEPT !.inputs = S, !.todo = T] \in Job
           /\ j.shown \in Secret \cup Token \cup {None}
           /\ \A C \in SUBSET (Proof \X Nat), s \in Secret \cup Token \cup {None} :
                  [j EXCEPT !.coins = C, !.shown = s] \in Job
           /\ \A M \in SUBSET Mint : [j EXCEPT !.mints = M] \in Job
           /\ \A k \in Kid : [j EXCEPT !.kid = k] \in Job
  BY DEF Job, NoJob

\* Agent a goes to l with work j.
Works(a, l, j) == pc' = [pc EXCEPT ![a] = l] /\ job' = [job EXCEPT ![a] = j]

\* All others stay where they are.
OnlyMoves(a) == \A b \in Agent \ {a} : pc'[b] = pc[b] /\ job'[b] = job[b]

LEMMA Moved ==
    ASSUME WorkOK, NEW a \in Agent, NEW l, NEW j, Works(a, l, j)
    PROVE  /\ OnlyMoves(a) /\ pc'[a] = l /\ job'[a] = j
           /\ l \in PCs /\ j \in Job => WorkOK'
  BY DEF WorkOK, Works, OnlyMoves

LEMMA AddTyped ==
    ASSUME NEW count \in [Proof -> Nat], NEW S
    PROVE  /\ Add(count, S) \in [Proof -> Nat]
           /\ \A y \in S \cap Proof : Add(count, S)[y] = count[y] + 1
           /\ \A y \in Proof \ S : Add(count, S)[y] = count[y]
  BY DEF Add

\* Where the steps of a request take it.
LEMMA RequestMoves ==
    ASSUME WorkOK, DataOK, NEW p \in Proc
    PROVE  /\ OnlineStart(p) => \E S \in SUBSET Htlc : Works(p, "check", [NoJob EXCEPT !.inputs = S])
           /\ CheckHtlcs(p) => Works(p, "keyset", job[p]) \/ Works(p, "idle", NoJob)
           /\ StoreHtlcs(p) => Works(p, "reply", job[p]) \/ Works(p, "idle", NoJob)
           /\ OfflineStart(p) =>
                \E S \in SUBSET Token :
                  Works(p, "accept", [NoJob EXCEPT !.inputs = S, !.todo = S])
           /\ Accept(p) => Works(p, "record", job[p]) \/ Works(p, "idle", NoJob)
           /\ Record(p) => Works(p, "keyset", job[p]) \/ Works(p, "idle", NoJob)
           /\ FindKeyset(p) =>
                \/ Works(p, "announce", job[p])
                \/ \E k \in rows : Works(p, "issue", [job[p] EXCEPT !.kid = k])
           /\ AnnounceKeyset(p) => \E k \in Kid : k \in known' /\ Works(p, "create", [job[p] EXCEPT !.kid = k])
           /\ StoreKeyset(p) => Works(p, "issue", job[p]) \/ Works(p, "idle", NoJob)
           /\ SignalOnline(p) => Works(p, "htlc", job[p])
           /\ SignalOffline(p) => Works(p, "fps", job[p])
           /\ Reply(p) => Works(p, "idle", NoJob)
           /\ StoreFp(p) =>
                \/ Works(p, "idle", NoJob)
                \/ \E y \in job[p].todo :
                     Works(p, IF job[p].todo = {y} THEN "reply" ELSE "fps",
                           [job[p] EXCEPT !.todo = @ \ {y}])
<1>0. /\ p \in Agent /\ job[p] \in Job /\ pc[p] \in PCs
      /\ job = [job EXCEPT ![p] = job[p]] /\ pc = [pc EXCEPT ![p] = pc[p]]
  BY DEF Agent, WorkOK
<1> USE <1>0 DEF Works, Goto, End, Begin
<1>1. OnlineStart(p) => \E S \in SUBSET Htlc : Works(p, "check", [NoJob EXCEPT !.inputs = S])
  BY DEF OnlineStart
<1>2. CheckHtlcs(p) => Works(p, "keyset", job[p]) \/ Works(p, "idle", NoJob)
  BY DEF CheckHtlcs
<1>3. StoreHtlcs(p) => Works(p, "reply", job[p]) \/ Works(p, "idle", NoJob)
  BY DEF StoreHtlcs
<1>4. OfflineStart(p) =>
      \E S \in SUBSET Token :
        Works(p, "accept", [NoJob EXCEPT !.inputs = S, !.todo = S])
  BY DEF OfflineStart
<1>5. Accept(p) => Works(p, "record", job[p]) \/ Works(p, "idle", NoJob)
  BY DEF Accept
<1>6. Record(p) => Works(p, "keyset", job[p]) \/ Works(p, "idle", NoJob)
  BY DEF Record
<1>7. FindKeyset(p) =>
      \/ Works(p, "announce", job[p])
      \/ \E k \in rows : Works(p, "issue", [job[p] EXCEPT !.kid = k])
  BY DEF FindKeyset, Keys!Listed
<1>8. AnnounceKeyset(p) => \E k \in Kid : k \in known' /\ Works(p, "create", [job[p] EXCEPT !.kid = k])
  BY DEF AnnounceKeyset, Keys!Announce, Keys!Generated
<1>9. StoreKeyset(p) => Works(p, "issue", job[p]) \/ Works(p, "idle", NoJob)
  BY DEF StoreKeyset, Keys!Store
<1>10. SignalOnline(p) => Works(p, "htlc", job[p])
  BY DEF SignalOnline
<1>11. SignalOffline(p) => Works(p, "fps", job[p])
  BY DEF SignalOffline
<1>12. Reply(p) => Works(p, "idle", NoJob)
  BY DEF Reply
<1>13. StoreFp(p) =>
      \/ Works(p, "idle", NoJob)
      \/ \E y \in job[p].todo :
           Works(p, IF job[p].todo = {y} THEN "reply" ELSE "fps",
                 [job[p] EXCEPT !.todo = @ \ {y}])
  BY DEF StoreFp
<1> QED BY <1>1, <1>2, <1>3, <1>4, <1>5, <1>6, <1>7, <1>8, <1>9, <1>10, <1>11, <1>12, <1>13

\* Where the steps of a swap take it, and what they take along.
LEMMA RedeemMoves ==
    ASSUME WorkOK, DataOK, NEW p \in Proc
    PROVE  /\ RedeemStart(p) =>
                \E C \in SUBSET (Proof \X Nat), s \in Secret \cup Token \cup {None}, l \in {"search", "core"} :
                  Works(p, l, [NoJob EXCEPT !.coins = C, !.shown = s])
           /\ Search(p) =>
                \/ \E S \in SUBSET htlcs : Works(p, "swap", [job[p] EXCEPT !.todo = S])
                \/ \E l \in {"claim", "core"} :
                     Works(p, l, [job[p] EXCEPT !.todo = fps \cap {job[p].shown}])
           /\ SwapHtlcs(p) =>
                \/ Works(p, "idle", NoJob) /\ UNCHANGED spent
                \/ \E S \in SUBSET job[p].todo :
                     /\ S \cap spent = {} /\ spent' = spent \cup S
                     /\ Works(p, "bank", [job[p] EXCEPT !.todo = @ \ S, !.hand = S])
           /\ BankHtlcs(p) => Works(p, "remove", job[p])
           /\ RemoveHtlc(p) =>
                \E y \in job[p].hand, l \in {"remove", "swap", "core"} :
                  htlcs' = htlcs \ {y} /\ Works(p, l, [job[p] EXCEPT !.hand = @ \ {y}])
           /\ ClaimFp(p) => Works(p, "keep", [job[p] EXCEPT !.hand = job[p].todo])
           /\ StoreProof(p) =>
                \/ /\ offline' = offline \cup job[p].hand
                   /\ Works(p, "core", [job[p] EXCEPT !.hand = {}])
                \/ /\ job[p].hand \cap offline # {} /\ UNCHANGED offline
                   /\ Works(p, "idle", NoJob)
           /\ CoreSwap(p) => Works(p, "idle", NoJob)
<1>0. /\ p \in Agent /\ job[p] \in Job /\ pc[p] \in PCs
      /\ job = [job EXCEPT ![p] = job[p]] /\ pc = [pc EXCEPT ![p] = pc[p]]
  BY DEF Agent, WorkOK
<1> USE <1>0 DEF Works, Goto, End, Begin, locktimes, abroad
<1>1. RedeemStart(p) =>
      \E C \in SUBSET (Proof \X Nat), s \in Secret \cup Token \cup {None}, l \in {"search", "core"} :
        Works(p, l, [NoJob EXCEPT !.coins = C, !.shown = s])
  <2>1. UNION {CoinsOf(y) : y \in Proof} \subseteq Proof \X Nat
    BY DEF CoinsOf, DataOK
  <2> QED BY <2>1 DEF RedeemStart
<1>2. Search(p) =>
      \/ \E S \in SUBSET htlcs : Works(p, "swap", [job[p] EXCEPT !.todo = S])
      \/ \E l \in {"claim", "core"} :
           Works(p, l, [job[p] EXCEPT !.todo = fps \cap {job[p].shown}])
  BY DEF Search, SearchHtlc, SearchFp
<1>3. SwapHtlcs(p) =>
      \/ Works(p, "idle", NoJob) /\ UNCHANGED spent
      \/ \E S \in SUBSET job[p].todo :
           /\ S \cap spent = {} /\ spent' = spent \cup S
           /\ Works(p, "bank", [job[p] EXCEPT !.todo = @ \ S, !.hand = S])
  <2> DEFINE S(m) == Of(m, job[p].todo)
             spends(m) == /\ S(m) \cap spent = {} /\ spent' = spent \cup S(m)
                          /\ Works(p, "bank", [job[p] EXCEPT !.todo = @ \ S(m), !.hand = S(m)])
  <2> SUFFICES ASSUME SwapHtlcs(p)
               PROVE  (\E m \in Mint : spends(m)) \/ (Works(p, "idle", NoJob) /\ UNCHANGED spent)
    <3>1. \A m \in Mint : S(m) \in SUBSET job[p].todo
      BY DEF Of
    <3> QED BY <3>1
  <2>1. PICK m \in Mint :
           IF Swappable(m, S(m))
           THEN /\ spent' = spent \cup S(m)
                /\ job' = [job EXCEPT ![p].todo = @ \ S(m), ![p].hand = S(m)]
                /\ Goto(p, "bank")
           ELSE End(p) /\ UNCHANGED spent
    BY DEF SwapHtlcs
  <2>2. [job EXCEPT ![p].todo = @ \ S(m), ![p].hand = S(m)]
          = [job EXCEPT ![p] = [job[p] EXCEPT !.todo = @ \ S(m), !.hand = S(m)]]
    BY DEF WorkOK
  <2> QED BY <2>1, <2>2 DEF Swappable
<1>4. BankHtlcs(p) => Works(p, "remove", job[p])
  BY DEF BankHtlcs
<1>5. RemoveHtlc(p) =>
      \E y \in job[p].hand, l \in {"remove", "swap", "core"} :
        htlcs' = htlcs \ {y} /\ Works(p, l, [job[p] EXCEPT !.hand = @ \ {y}])
  BY DEF RemoveHtlc
<1>6. ClaimFp(p) => Works(p, "keep", [job[p] EXCEPT !.hand = job[p].todo])
  BY DEF ClaimFp
<1>7. StoreProof(p) =>
      \/ /\ offline' = offline \cup job[p].hand
         /\ Works(p, "core", [job[p] EXCEPT !.hand = {}])
      \/ /\ job[p].hand \cap offline # {} /\ UNCHANGED offline
         /\ Works(p, "idle", NoJob)
  BY DEF StoreProof
<1>8. CoreSwap(p) => Works(p, "idle", NoJob)
  BY DEF CoreSwap
<1> QED BY <1>1, <1>2, <1>3, <1>4, <1>5, <1>6, <1>7, <1>8

\* Where the routine goes.
LEMMA SettlerMoves ==
    ASSUME WorkOK, DataOK
    PROVE  /\ SettleStart => \E M \in SUBSET Mint : Works(Settler, "mint", [NoJob EXCEPT !.mints = M])
           /\ LoadProofs =>
                \/ \E M \in SUBSET Mint : Works(Settler, "mint", [NoJob EXCEPT !.mints = M])
                \/ \E S \in SUBSET offline : Works(Settler, "swap", [job[Settler] EXCEPT !.inputs = S])
           /\ SettleSwap =>
                \/ UNCHANGED spent /\ \E M \in SUBSET Mint : Works(Settler, "mint", [NoJob EXCEPT !.mints = M])
                \/ /\ job[Settler].inputs \cap spent = {}
                   /\ spent' = spent \cup job[Settler].inputs
                   /\ Works(Settler, "bank", [job[Settler] EXCEPT !.hand = job[Settler].inputs])
           /\ BankSettled => Works(Settler, "remove", [job[Settler] EXCEPT !.hand = {}])
           /\ RemoveSettled => \E M \in SUBSET Mint : Works(Settler, "mint", [NoJob EXCEPT !.mints = M])
           /\ SettleDone => Works(Settler, "idle", NoJob)
           /\ SettleSkip => \E M \in SUBSET Mint : Works(Settler, "mint", [NoJob EXCEPT !.mints = M])
<1>0. /\ Settler \in Agent /\ job[Settler] \in Job /\ pc[Settler] \in PCs
      /\ job = [job EXCEPT ![Settler] = job[Settler]] /\ pc = [pc EXCEPT ![Settler] = pc[Settler]]
      /\ \A m \in Mint : job[Settler].mints \ {m} \in SUBSET Mint
      /\ job[Settler].mints \in SUBSET Mint /\ job[Settler].inputs \in SUBSET Proof
  BY DEF Agent, WorkOK, Job
<1> USE <1>0 DEF Works, Goto
<1>1. SettleStart => \E M \in SUBSET Mint : Works(Settler, "mint", [NoJob EXCEPT !.mints = M])
  <2>1. {Issuer[y] : y \in offline} \in SUBSET Mint
    BY ParameterAssumption DEF DataOK, Proof
  <2> QED BY <2>1 DEF SettleStart, Begin
<1>2. LoadProofs =>
      \/ \E M \in SUBSET Mint : Works(Settler, "mint", [NoJob EXCEPT !.mints = M])
      \/ \E S \in SUBSET offline : Works(Settler, "swap", [job[Settler] EXCEPT !.inputs = S])
  BY <1>0 DEF LoadProofs, NextMint, Of
<1>3. SettleSwap =>
      \/ UNCHANGED spent /\ \E M \in SUBSET Mint : Works(Settler, "mint", [NoJob EXCEPT !.mints = M])
      \/ /\ job[Settler].inputs \cap spent = {}
         /\ spent' = spent \cup job[Settler].inputs
         /\ Works(Settler, "bank", [job[Settler] EXCEPT !.hand = job[Settler].inputs])
  <2> DEFINE proofs == job[Settler].inputs
             spends == /\ proofs \cap spent = {} /\ spent' = spent \cup proofs
                       /\ Works(Settler, "bank", [job[Settler] EXCEPT !.hand = proofs])
  <2> SUFFICES ASSUME SettleSwap
               PROVE  \/ UNCHANGED spent /\ \E M \in SUBSET Mint :
                             Works(Settler, "mint", [NoJob EXCEPT !.mints = M])
                      \/ spends
    OBVIOUS
  <2>1. PICK m \in job[Settler].mints :
           \/ spends
           \/ /\ UNCHANGED spent
              /\ Works(Settler, "mint", [NoJob EXCEPT !.mints = job[Settler].mints \ {m}])
    BY DEF SettleSwap, Swappable, NextMint
  <2>2. job[Settler].mints \ {m} \in SUBSET Mint
    BY <1>0
  <2> QED BY <2>1, <2>2
<1>4. BankSettled => Works(Settler, "remove", [job[Settler] EXCEPT !.hand = {}])
  BY <1>0 DEF BankSettled
<1>5. RemoveSettled => \E M \in SUBSET Mint : Works(Settler, "mint", [NoJob EXCEPT !.mints = M])
  BY <1>0 DEF RemoveSettled, NextMint
<1>6. SettleDone => Works(Settler, "idle", NoJob)
  BY <1>0 DEF SettleDone, End
<1>7. SettleSkip => \E M \in SUBSET Mint : Works(Settler, "mint", [NoJob EXCEPT !.mints = M])
  BY <1>0 DEF SettleSkip, NextMint
<1> QED BY <1>1, <1>2, <1>3, <1>4, <1>5, <1>6, <1>7

\* Where a failure leaves an agent.
LEMMA FaultMoves ==
    ASSUME WorkOK, NEW a \in Agent
    PROVE  /\ Fail(a) => Works(a, "idle", NoJob)
           /\ SwapUnheard(a) =>
                \/ Works(a, "idle", NoJob)
                \/ \E M \in SUBSET Mint : Works(a, "mint", [NoJob EXCEPT !.mints = M])
<1>1. job[a].mints \in SUBSET Mint
  BY DEF WorkOK, Job
<1> QED BY <1>1 DEF Works, Goto, Fail, SwapUnheard, End, NextMint

-----------------------------------------------------------------------------
(* Types, and the keysets that clowder knows. *)

\* What kind of proofs a handler at l works on.
Fits(l, j) ==
    /\ l = "htlc" => j.inputs \subseteq Htlc
    /\ l \in {"accept", "record"} => j.inputs \subseteq Token
    /\ l \in {"accept", "check", "record", "keyset", "announce", "create", "issue", "fps", "claim"} =>
         j.todo \subseteq Token
    /\ l = "keep" => j.hand \subseteq Token

KeysInv ==
    /\ WorkOK /\ DataOK
    /\ \A a \in Agent : Fits(pc[a], job[a])
    /\ \A a \in Agent : pc[a] = "create" => job[a].kid \in known
    /\ rows \subseteq known /\ signalled \subseteq known

LEMMA KeysInit == Init => KeysInv
  BY DEF Init, KeysInv, WorkOK, DataOK, Fits, NoJob, Job, PCs, Keys!Init

\* A step of one agent to a place where its work fits.
LEMMA KeysKept ==
    ASSUME KeysInv, DataOK', known \subseteq known', rows' \subseteq known', signalled' \subseteq known',
           NEW a \in Agent, NEW l \in PCs, NEW j \in Job, Works(a, l, j),
           Fits(l, j), l = "create" => j.kid \in known'
    PROVE  KeysInv'
<1>1. WorkOK' /\ OnlyMoves(a) /\ pc'[a] = l /\ job'[a] = j
  BY Moved DEF KeysInv
<1>2. \A b \in Agent : Fits(pc[b], job[b])'
  BY <1>1 DEF KeysInv, OnlyMoves
<1>3. \A b \in Agent : (pc[b] = "create" => job[b].kid \in known)'
  BY <1>1 DEF KeysInv, OnlyMoves
<1> QED BY <1>1, <1>2, <1>3 DEF KeysInv

\* Nothing restricts a handler at these places, nor one that replied.
LEMMA KeysFree ==
    ASSUME KeysInv, DataOK', known \subseteq known', rows' \subseteq known', signalled' \subseteq known',
           NEW a \in Agent, NEW j \in Job,
           NEW l \in {"idle", "search", "swap", "bank", "remove", "core", "reply", "mint"},
           Works(a, l, j)
    PROVE  KeysInv'
<1>1. l \in PCs /\ Fits(l, j) /\ l # "create"
  BY DEF PCs, Fits
<1> QED BY <1>1, KeysKept

LEMMA ExchangeKeys ==
    ASSUME KeysInv, NEW p \in Proc, Exchange(p)
    PROVE  KeysInv'
<1> USE DEF repo, core, clowder, locktimes, abroad, faults
<1>0. /\ p \in Agent /\ job[p] \in Job /\ Fits(pc[p], job[p]) /\ WorkOK /\ DataOK
      /\ rows \subseteq known /\ signalled \subseteq known
      /\ pc[p] = "create" => job[p].kid \in known
      /\ NoJob \in Job /\ job[p].inputs \in SUBSET Proof /\ job[p].todo \in SUBSET Proof
  BY JobParts DEF Agent, KeysInv, WorkOK
<1>1. CASE OnlineStart(p)
  <2>1. DataOK' /\ known \subseteq known' /\ rows' \subseteq known' /\ signalled' \subseteq known'
    BY <1>0, <1>1, AddTyped DEF OnlineStart, DataOK, Fits
  <2>2. PICK S \in SUBSET Htlc : Works(p, "check", [NoJob EXCEPT !.inputs = S])
    BY <1>0, <1>1, RequestMoves
  <2>3. [NoJob EXCEPT !.inputs = S] \in Job /\ "check" \in PCs /\ Fits("check", [NoJob EXCEPT !.inputs = S])
    BY <1>0, <1>1, JobParts DEF OnlineStart, Fits, PCs, NoJob, Proof
  <2> QED BY <1>0, <2>1, <2>2, <2>3, KeysKept
<1>2. CASE CheckHtlcs(p)
  <2>1. DataOK' /\ known \subseteq known' /\ rows' \subseteq known' /\ signalled' \subseteq known'
    BY <1>0, <1>2, AddTyped DEF CheckHtlcs, DataOK, Fits
  <2>2. Works(p, "keyset", job[p]) \/ Works(p, "idle", NoJob)
    BY <1>0, <1>2, RequestMoves
  <2>3. "keyset" \in PCs /\ Fits("keyset", job[p]) /\ "keyset" # "create"
    BY <1>0, <1>2 DEF CheckHtlcs, Fits, PCs
  <2> QED BY <1>0, <2>1, <2>2, <2>3, KeysKept, KeysFree
<1>3. CASE StoreHtlcs(p)
  <2>1. DataOK' /\ known \subseteq known' /\ rows' \subseteq known' /\ signalled' \subseteq known'
    BY <1>0, <1>3, AddTyped DEF StoreHtlcs, DataOK, Fits
  <2>2. Works(p, "reply", job[p]) \/ Works(p, "idle", NoJob)
    BY <1>0, <1>3, RequestMoves
  <2>3. "reply" \in PCs /\ Fits("reply", job[p]) /\ "reply" # "create"
    BY <1>0, <1>3 DEF StoreHtlcs, Fits, PCs
  <2> QED BY <1>0, <2>1, <2>2, <2>3, KeysKept, KeysFree
<1>4. CASE OfflineStart(p)
  <2>1. DataOK' /\ known \subseteq known' /\ rows' \subseteq known' /\ signalled' \subseteq known'
    BY <1>0, <1>4, AddTyped DEF OfflineStart, DataOK, Fits
  <2>2. PICK S \in SUBSET Token : Works(p, "accept", [NoJob EXCEPT !.inputs = S, !.todo = S])
    BY <1>0, <1>4, RequestMoves
  <2>3. [NoJob EXCEPT !.inputs = S, !.todo = S] \in Job /\ "accept" \in PCs /\ Fits("accept", [NoJob EXCEPT !.inputs = S, !.todo = S])
    BY <1>0, <1>4, JobParts DEF OfflineStart, Fits, PCs, NoJob, Proof
  <2> QED BY <1>0, <2>1, <2>2, <2>3, KeysKept
<1>5. CASE Accept(p)
  <2>1. DataOK' /\ known \subseteq known' /\ rows' \subseteq known' /\ signalled' \subseteq known'
    BY <1>0, <1>5, AddTyped DEF Accept, DataOK, Fits
  <2>2. Works(p, "record", job[p]) \/ Works(p, "idle", NoJob)
    BY <1>0, <1>5, RequestMoves
  <2>3. "record" \in PCs /\ Fits("record", job[p]) /\ "record" # "create"
    BY <1>0, <1>5 DEF Accept, Fits, PCs
  <2> QED BY <1>0, <2>1, <2>2, <2>3, KeysKept, KeysFree
<1>6. CASE Record(p)
  <2>1. DataOK' /\ known \subseteq known' /\ rows' \subseteq known' /\ signalled' \subseteq known'
    BY <1>0, <1>6, AddTyped DEF Record, DataOK, Fits
  <2>2. Works(p, "keyset", job[p]) \/ Works(p, "idle", NoJob)
    BY <1>0, <1>6, RequestMoves
  <2>3. "keyset" \in PCs /\ Fits("keyset", job[p]) /\ "keyset" # "create"
    BY <1>0, <1>6 DEF Record, Fits, PCs
  <2> QED BY <1>0, <2>1, <2>2, <2>3, KeysKept, KeysFree
<1>7. CASE StoreFp(p)
  <2>1. DataOK' /\ known \subseteq known' /\ rows' \subseteq known' /\ signalled' \subseteq known'
    BY <1>0, <1>7 DEF StoreFp, DataOK, Fits
  <2>2. job[p].todo \subseteq Token
    BY <1>0, <1>7 DEF StoreFp, Fits
  <2>3. CASE Works(p, "idle", NoJob)
    BY <1>0, <2>1, <2>3, KeysFree
  <2>4. ASSUME NEW y \in job[p].todo, NEW l \in {"reply", "fps"},
               Works(p, l, [job[p] EXCEPT !.todo = @ \ {y}])
        PROVE  KeysInv'
    <3>1. l \in PCs /\ [job[p] EXCEPT !.todo = @ \ {y}] \in Job
          /\ Fits(l, [job[p] EXCEPT !.todo = @ \ {y}]) /\ l # "create"
      BY <1>0, <2>2, JobParts DEF Fits, PCs, Job
    <3> QED BY <1>0, <2>1, <2>4, <3>1, KeysKept
  <2> QED BY <1>0, <1>7, <2>3, <2>4, RequestMoves
<1>8. CASE FindKeyset(p)
  <2>1. DataOK' /\ known \subseteq known' /\ rows' \subseteq known' /\ signalled' \subseteq known'
    BY <1>0, <1>8 DEF FindKeyset, DataOK
  <2>2. job[p].todo \subseteq Token /\ rows \subseteq Kid
    BY <1>0, <1>8 DEF FindKeyset, Fits, DataOK
  <2>3. CASE Works(p, "announce", job[p])
    <3>1. "announce" \in PCs /\ Fits("announce", job[p])
      BY <2>2 DEF Fits, PCs
    <3> QED BY <1>0, <2>1, <2>3, <3>1, KeysKept
  <2>4. ASSUME NEW k \in rows, Works(p, "issue", [job[p] EXCEPT !.kid = k])
        PROVE  KeysInv'
    <3>1. [job[p] EXCEPT !.kid = k] \in Job
      BY <1>0, <2>2, JobParts
    <3>2. "issue" \in PCs /\ Fits("issue", [job[p] EXCEPT !.kid = k])
      BY <1>0, <2>2 DEF Fits, PCs, Job
    <3> QED BY <1>0, <2>1, <2>4, <3>1, <3>2, KeysKept
  <2> QED BY <1>0, <1>8, <2>3, <2>4, RequestMoves
<1>9. CASE AnnounceKeyset(p)
  <2>1. DataOK' /\ known \subseteq known' /\ rows' \subseteq known' /\ signalled' \subseteq known'
    BY <1>0, <1>9 DEF AnnounceKeyset, DataOK, Keys!Announce, Keys!Generated
  <2>2. PICK k \in Kid : k \in known' /\ Works(p, "create", [job[p] EXCEPT !.kid = k])
    BY <1>0, <1>9, RequestMoves
  <2>3. job[p].todo \subseteq Token
    BY <1>0, <1>9 DEF AnnounceKeyset, Fits
  <2>4. [job[p] EXCEPT !.kid = k] \in Job
    BY <1>0, JobParts
  <2>5. /\ "create" \in PCs /\ Fits("create", [job[p] EXCEPT !.kid = k])
        /\ [job[p] EXCEPT !.kid = k].kid = k
    BY <1>0, <2>3 DEF Fits, PCs, Job
  <2> QED BY <1>0, <2>1, <2>2, <2>4, <2>5, KeysKept
<1>10. CASE StoreKeyset(p)
  <2>1. DataOK' /\ known \subseteq known' /\ rows' \subseteq known' /\ signalled' \subseteq known'
    BY <1>0, <1>10, AddTyped DEF StoreKeyset, DataOK, Fits, Keys!Store
  <2>2. Works(p, "issue", job[p]) \/ Works(p, "idle", NoJob)
    BY <1>0, <1>10, RequestMoves
  <2>3. "issue" \in PCs /\ Fits("issue", job[p]) /\ "issue" # "create"
    BY <1>0, <1>10 DEF StoreKeyset, Fits, PCs
  <2> QED BY <1>0, <2>1, <2>2, <2>3, KeysKept, KeysFree
<1>11. CASE SignalOnline(p)
  <2>1. DataOK' /\ known \subseteq known' /\ rows' \subseteq known' /\ signalled' \subseteq known'
    BY <1>0, <1>11, AddTyped DEF SignalOnline, DataOK, Fits, Signed, Keys!Exists
  <2>2. Works(p, "htlc", job[p])
    BY <1>0, <1>11, RequestMoves
  <2>3. "htlc" \in PCs /\ Fits("htlc", job[p]) /\ "htlc" # "create"
    BY <1>0, <1>11 DEF SignalOnline, Fits, PCs
  <2> QED BY <1>0, <2>1, <2>2, <2>3, KeysKept
<1>12. CASE SignalOffline(p)
  <2>1. DataOK' /\ known \subseteq known' /\ rows' \subseteq known' /\ signalled' \subseteq known'
    BY <1>0, <1>12, AddTyped DEF SignalOffline, DataOK, Fits, Signed, Keys!Exists
  <2>2. Works(p, "fps", job[p])
    BY <1>0, <1>12, RequestMoves
  <2>3. "fps" \in PCs /\ Fits("fps", job[p]) /\ "fps" # "create"
    BY <1>0, <1>12 DEF SignalOffline, Fits, PCs
  <2> QED BY <1>0, <2>1, <2>2, <2>3, KeysKept
<1>13. CASE Reply(p)
  <2>1. DataOK' /\ known \subseteq known' /\ rows' \subseteq known' /\ signalled' \subseteq known'
    BY <1>0, <1>13, AddTyped DEF Reply, DataOK
  <2> QED BY <1>0, <1>13, <2>1, RequestMoves, KeysFree
<1> QED BY <1>1, <1>2, <1>3, <1>4, <1>5, <1>6, <1>7, <1>8, <1>9, <1>10, <1>11, <1>12, <1>13 DEF Exchange

LEMMA RedeemKeys ==
    ASSUME KeysInv, NEW p \in Proc, Redeem(p)
    PROVE  KeysInv'
<1> USE DEF repo, core, clowder, locktimes, abroad, faults
<1>0. /\ p \in Agent /\ job[p] \in Job /\ Fits(pc[p], job[p]) /\ WorkOK /\ DataOK
      /\ rows \subseteq known /\ signalled \subseteq known
      /\ NoJob \in Job /\ job[p].inputs \in SUBSET Proof
      /\ job[p].todo \in SUBSET Proof /\ job[p].hand \in SUBSET Proof
      /\ job[p].coins \in SUBSET (Proof \X Nat)
  BY JobParts DEF Agent, KeysInv, WorkOK
<1>1. DataOK'
  <2>1. CASE SwapHtlcs(p)
    BY <1>0, <2>1 DEF SwapHtlcs, DataOK, Of
  <2>2. CASE BankHtlcs(p)
    BY <1>0, <2>2, AddTyped DEF BankHtlcs, DataOK
  <2>3. CASE StoreProof(p)
    BY <1>0, <2>3 DEF StoreProof, DataOK, Fits
  <2>4. CASE CoreSwap(p)
    BY <1>0, <2>4 DEF CoreSwap, DataOK
  <2>5. CASE RedeemStart(p) \/ Search(p) \/ RemoveHtlc(p) \/ ClaimFp(p)
    BY <1>0, <2>5 DEF RedeemStart, Search, RemoveHtlc, ClaimFp, DataOK
  <2> QED BY <2>1, <2>2, <2>3, <2>4, <2>5 DEF Redeem
<1>2. UNCHANGED <<rows, known, signalled>>
  BY DEF Redeem, RedeemStart, Search, SwapHtlcs, BankHtlcs, RemoveHtlc, ClaimFp, StoreProof, CoreSwap
<1>3. ASSUME NEW l \in {"idle", "search", "swap", "bank", "remove", "core"}, NEW j \in Job, Works(p, l, j)
      PROVE  KeysInv'
  BY <1>0, <1>1, <1>2, <1>3, KeysFree
<1>4. CASE RedeemStart(p)
  <2>1. PICK C \in SUBSET (Proof \X Nat), s \in Secret \cup Token \cup {None}, l \in {"search", "core"} :
           Works(p, l, [NoJob EXCEPT !.coins = C, !.shown = s])
    BY <1>0, <1>4, RedeemMoves
  <2> QED BY <1>0, <1>3, <2>1, JobParts
<1>5. CASE Search(p)
  <2>1. fps \subseteq Token /\ htlcs \subseteq Proof
    BY <1>0 DEF DataOK, Proof
  <2>2. ASSUME NEW S \in SUBSET htlcs, Works(p, "swap", [job[p] EXCEPT !.todo = S])
        PROVE  KeysInv'
    BY <1>0, <1>3, <2>1, <2>2, JobParts
  <2>3. ASSUME NEW S \in SUBSET fps, NEW l \in {"claim", "core"}, Works(p, l, [job[p] EXCEPT !.todo = S])
        PROVE  KeysInv'
    <3>1. [job[p] EXCEPT !.todo = S] \in Job /\ [job[p] EXCEPT !.todo = S].todo = S
      BY <1>0, <2>1, JobParts DEF Proof, Job
    <3>2. l \in PCs /\ Fits(l, [job[p] EXCEPT !.todo = S]) /\ l # "create"
      BY <2>1, <3>1 DEF Fits, PCs
    <3> QED BY <1>0, <1>1, <1>2, <2>3, <3>1, <3>2, KeysKept
  <2> DEFINE S == fps \cap {job[p].shown}
  <2>4. ASSUME NEW l \in {"claim", "core"}, Works(p, l, [job[p] EXCEPT !.todo = S])
        PROVE  KeysInv'
    <3>1. S \in SUBSET fps
      OBVIOUS
    <3> QED BY <2>3, <2>4, <3>1
  <2> QED BY <1>0, <1>5, <2>2, <2>4, RedeemMoves
<1>6. CASE SwapHtlcs(p)
  <2>1. CASE Works(p, "idle", NoJob)
    BY <1>0, <1>3, <2>1
  <2>2. ASSUME NEW S \in SUBSET job[p].todo,
               Works(p, "bank", [job[p] EXCEPT !.todo = @ \ S, !.hand = S])
        PROVE  KeysInv'
    BY <1>0, <1>3, <2>2, JobParts
  <2> QED BY <1>0, <1>6, <2>1, <2>2, RedeemMoves
<1>7. CASE BankHtlcs(p)
  BY <1>0, <1>3, <1>7, RedeemMoves
<1>8. CASE RemoveHtlc(p)
  <2>1. PICK y \in job[p].hand, l \in {"remove", "swap", "core"} :
           Works(p, l, [job[p] EXCEPT !.hand = @ \ {y}])
    BY <1>0, <1>8, RedeemMoves
  <2> QED BY <1>0, <1>3, <2>1, JobParts
<1>9. CASE ClaimFp(p)
  <2>1. Works(p, "keep", [job[p] EXCEPT !.hand = job[p].todo])
    BY <1>0, <1>9, RedeemMoves
  <2>2. "keep" \in PCs /\ [job[p] EXCEPT !.hand = job[p].todo] \in Job
        /\ Fits("keep", [job[p] EXCEPT !.hand = job[p].todo])
    BY <1>0, <1>9, JobParts DEF ClaimFp, Fits, PCs, Job
  <2> QED BY <1>0, <1>1, <1>2, <2>1, <2>2, KeysKept
<1>10. CASE StoreProof(p)
  <2>1. Works(p, "core", [job[p] EXCEPT !.hand = {}]) \/ Works(p, "idle", NoJob)
    BY <1>0, <1>10, RedeemMoves
  <2> QED BY <1>0, <1>3, <2>1, JobParts
<1>11. CASE CoreSwap(p)
  BY <1>0, <1>3, <1>11, RedeemMoves
<1> QED BY <1>4, <1>5, <1>6, <1>7, <1>8, <1>9, <1>10, <1>11 DEF Redeem

\* The routine, and what fails.
LEMMA OtherKeys ==
    ASSUME KeysInv, NEW a \in Agent, (a = Settler /\ (Settle \/ SettleSkip)) \/ Fail(a) \/ SwapUnheard(a)
    PROVE  KeysInv'
<1> USE DEF repo, core, clowder, locktimes, abroad, faults
<1>0. /\ job[a] \in Job /\ WorkOK /\ DataOK
      /\ rows \subseteq known /\ signalled \subseteq known
      /\ NoJob \in Job /\ job[a].inputs \in SUBSET Proof
      /\ job[a].todo \in SUBSET Proof /\ job[a].hand \in SUBSET Proof
  BY JobParts DEF KeysInv, WorkOK
<1>1. DataOK'
  <2>1. CASE a = Settler /\ SettleSwap
    BY <1>0, <2>1 DEF SettleSwap, DataOK
  <2>2. CASE a = Settler /\ BankSettled
    BY <1>0, <2>2, AddTyped DEF BankSettled, DataOK
  <2>3. CASE a = Settler /\ RemoveSettled
    <3>1. \A how \in Removals, S \in SUBSET Proof : Left(how, S) \subseteq offline
      BY ParameterAssumption DEF Left
    <3> QED BY <1>0, <2>3, <3>1 DEF RemoveSettled, DataOK
  <2>4. CASE SettleStart \/ LoadProofs \/ SettleDone \/ SettleSkip
    BY <1>0, <2>4 DEF SettleStart, LoadProofs, SettleDone, SettleSkip, DataOK
  <2>5. CASE Fail(a)
    BY <1>0, <2>5 DEF Fail, InHand, DataOK
  <2>6. CASE SwapUnheard(a)
    BY <1>0, <2>6 DEF SwapUnheard, Of, DataOK
  <2> QED BY <2>1, <2>2, <2>3, <2>4, <2>5, <2>6 DEF Settle
<1>2. UNCHANGED <<rows, known, signalled>>
  BY DEF Settle, SettleStart, LoadProofs, SettleSwap, BankSettled, RemoveSettled, SettleDone, SettleSkip,
         Fail, SwapUnheard
<1>3. ASSUME NEW l \in {"idle", "swap", "bank", "remove", "mint"}, NEW j \in Job, Works(a, l, j)
      PROVE  KeysInv'
  BY <1>0, <1>1, <1>2, <1>3, KeysFree
<1>4. \A M \in SUBSET Mint : [NoJob EXCEPT !.mints = M] \in Job
  BY <1>0, JobParts
<1>5. ASSUME a = Settler, Settle \/ SettleSkip
      PROVE  KeysInv'
  <2>1. ASSUME NEW M \in SUBSET Mint, Works(Settler, "mint", [NoJob EXCEPT !.mints = M])
        PROVE  KeysInv'
    BY <1>3, <1>4, <1>5, <2>1
  <2>2. CASE SettleStart \/ RemoveSettled \/ SettleSkip
    BY <1>0, <2>1, <2>2, SettlerMoves
  <2>3. CASE LoadProofs
    <3>1. ASSUME NEW S \in SUBSET offline, Works(Settler, "swap", [job[Settler] EXCEPT !.inputs = S])
          PROVE  KeysInv'
      <4>1. [job[Settler] EXCEPT !.inputs = S] \in Job
        BY <1>0, <1>5, JobParts DEF DataOK, Proof
      <4> QED BY <1>3, <1>5, <3>1, <4>1
    <3> QED BY <1>0, <2>1, <2>3, <3>1, SettlerMoves
  <2>4. CASE SettleSwap
    <3>1. [job[Settler] EXCEPT !.hand = job[Settler].inputs] \in Job
      BY <1>0, <1>5, JobParts
    <3>2. CASE Works(Settler, "bank", [job[Settler] EXCEPT !.hand = job[Settler].inputs])
      BY <1>3, <1>5, <3>1, <3>2
    <3> QED BY <1>0, <2>1, <2>4, <3>2, SettlerMoves
  <2>5. CASE BankSettled
    <3>1. [job[Settler] EXCEPT !.hand = {}] \in Job
      BY <1>0, <1>5, JobParts
    <3> QED BY <1>0, <1>3, <1>5, <2>5, <3>1, SettlerMoves
  <2>6. CASE SettleDone
    BY <1>0, <1>3, <1>5, <2>6, SettlerMoves
  <2> QED BY <1>5, <2>2, <2>3, <2>4, <2>5, <2>6 DEF Settle
<1>6. CASE Fail(a) \/ SwapUnheard(a)
  <2>1. CASE Works(a, "idle", NoJob)
    BY <1>0, <1>3, <2>1
  <2>2. ASSUME NEW M \in SUBSET Mint, Works(a, "mint", [NoJob EXCEPT !.mints = M])
        PROVE  KeysInv'
    BY <1>3, <1>4, <2>2
  <2>3. \/ Works(a, "idle", NoJob)
        \/ \E M \in SUBSET Mint : Works(a, "mint", [NoJob EXCEPT !.mints = M])
    BY <1>0, <1>6, FaultMoves
  <2> QED BY <2>1, <2>2, <2>3
<1> QED BY <1>5, <1>6

LEMMA KeysNext == KeysInv /\ [Next]_vars => KeysInv'
<1> SUFFICES ASSUME KeysInv, [Next]_vars PROVE KeysInv'
  OBVIOUS
<1> USE DEF repo, core, clowder, locktimes, abroad, faults
<1>1. ASSUME UNCHANGED <<pc, job, rows, known, signalled>>, DataOK' PROVE KeysInv'
  BY <1>1 DEF KeysInv, WorkOK
<1>2. CASE \E p \in Proc : Exchange(p) \/ Redeem(p)
  BY <1>2, ExchangeKeys, RedeemKeys
<1>3. CASE Settle \/ SettleSkip
  BY <1>3, OtherKeys DEF Agent
<1>4. CASE BankUnheard
  BY <1>1, <1>4, AddTyped DEF BankUnheard, KeysInv, DataOK
<1>5. CASE (\E m \in Mint : Outage(m) \/ Return(m)) \/ \E y \in Htlc : Lapse(y) \/ Refund(y)
  BY <1>1, <1>5 DEF Outage, Return, Lapse, Refund, KeysInv, DataOK
<1>6. CASE \E a \in Agent : Fail(a) \/ SwapUnheard(a)
  BY <1>6, OtherKeys
<1>7. CASE Crash
  <2>1. \A a \in Agent : InHand(a) \subseteq Proof
    BY DEF InHand, KeysInv, WorkOK, Job
  <2>2. DataOK'
    BY <1>7, <2>1 DEF Crash, KeysInv, DataOK
  <2>3. NoJob \in Job /\ "idle" \in PCs /\ Fits("idle", NoJob)
    BY DEF NoJob, Job, PCs, Fits
  <2> QED BY <1>7, <2>2, <2>3 DEF Crash, KeysInv, WorkOK
<1>8. CASE UNCHANGED vars
  BY <1>1, <1>8 DEF vars, KeysInv, DataOK
<1> QED BY <1>2, <1>3, <1>4, <1>5, <1>6, <1>7, <1>8 DEF Next, World

LEMMA KeysInvariant == Spec => []KeysInv
BY KeysInit, KeysNext, PTL DEF Spec

\* Every table, handler and answer has its type, through outages, failures and restarts:
\* neither kind of exchange works on proofs of the other.
THEOREM ForeignTyped == Spec => []TypeOK
<1>1. KeysInv => TypeOK
  BY TypeParts DEF KeysInv
<1> QED BY <1>1, KeysInvariant, PTL

\* Clowder knows the keyset of all eCash it is told of, however exchanges that look for a
\* keyset of one date and create it meet.
THEOREM ClowderKnowsIssued == Spec => []IssuedIsKnown
<1>1. KeysInv => IssuedIsKnown
  BY DEF KeysInv, IssuedIsKnown
<1> QED BY <1>1, KeysInvariant, PTL

-----------------------------------------------------------------------------
(* What this mint takes of foreign mints is banked once. *)

\* What an agent took and did not store yet.
AtBank(a) == IF pc[a] = "bank" THEN job[a].hand ELSE {}

\* A proof is at one place after it was spent: agents took disjoint ones, and a request
\* stores what nobody stored.
BankInv ==
    /\ \A y \in Proof : banked[y] \in {0, 1} /\ (banked[y] = 1 => y \in spent)
    /\ \A a \in Agent : AtBank(a) \subseteq spent
    /\ \A p \in Proc : \A y \in AtBank(p) : banked[y] = 0
    /\ \A a, b \in Agent : a # b => AtBank(a) \cap AtBank(b) = {}
    /\ \A y \in spent : banked[y] = 1 \/ y \in dropped \/ \E a \in Agent : y \in AtBank(a)

LEMMA BankInit == Init => BankInv
<1> SUFFICES ASSUME Init PROVE BankInv
  OBVIOUS
<1>1. \A a \in Agent : AtBank(a) = {}
  BY DEF Init, AtBank
<1>2. spent = {} /\ \A y \in Proof : banked[y] = 0
  BY DEF Init
<1> QED BY <1>1, <1>2 DEF BankInv, Agent

\* Steps that neither spend nor bank.
QuietStep(a) ==
    /\ OnlyMoves(a) /\ pc[a] # "bank" /\ pc'[a] # "bank"
    /\ UNCHANGED <<banked, spent, dropped>>

LEMMA RequestIsQuiet ==
    ASSUME WorkOK, DataOK, NEW p \in Proc,
           \/ Exchange(p) \/ RedeemStart(p) \/ Search(p) \/ RemoveHtlc(p)
           \/ ClaimFp(p) \/ StoreProof(p) \/ CoreSwap(p)
    PROVE  QuietStep(p)
<1> USE DEF QuietStep, OnlyMoves, WorkOK, Goto, End, Begin, repo, core, clowder, locktimes, abroad, faults
<1>0. p \in Agent
  BY DEF Agent
<1>2. CASE OnlineStart(p)
  BY <1>0, <1>2 DEF OnlineStart
<1>3. CASE CheckHtlcs(p)
  BY <1>0, <1>3 DEF CheckHtlcs
<1>4. CASE StoreHtlcs(p)
  BY <1>0, <1>4 DEF StoreHtlcs
<1>5. CASE OfflineStart(p)
  BY <1>0, <1>5 DEF OfflineStart
<1>6. CASE Accept(p)
  BY <1>0, <1>6 DEF Accept
<1>7. CASE Record(p)
  BY <1>0, <1>7 DEF Record
<1>8. CASE StoreFp(p)
  BY <1>0, <1>8 DEF StoreFp
<1>9. CASE FindKeyset(p)
  BY <1>0, <1>9 DEF FindKeyset
<1>10. CASE AnnounceKeyset(p)
  BY <1>0, <1>10 DEF AnnounceKeyset
<1>11. CASE StoreKeyset(p)
  BY <1>0, <1>11 DEF StoreKeyset
<1>12. CASE SignalOnline(p)
  BY <1>0, <1>12 DEF SignalOnline
<1>13. CASE SignalOffline(p)
  BY <1>0, <1>13 DEF SignalOffline
<1>14. CASE Reply(p)
  BY <1>0, <1>14 DEF Reply
<1>15. CASE RedeemStart(p)
  BY <1>0, <1>15 DEF RedeemStart
<1>16. CASE Search(p)
  BY <1>0, <1>16 DEF Search
<1>17. CASE RemoveHtlc(p)
  BY <1>0, <1>17 DEF RemoveHtlc
<1>18. CASE ClaimFp(p)
  BY <1>0, <1>18 DEF ClaimFp
<1>19. CASE StoreProof(p)
  BY <1>0, <1>19 DEF StoreProof
<1>20. CASE CoreSwap(p)
  BY <1>0, <1>20 DEF CoreSwap
<1> QED BY <1>2, <1>3, <1>4, <1>5, <1>6, <1>7, <1>8, <1>9, <1>10, <1>11, <1>12, <1>13, <1>14, <1>15, <1>16, <1>17, <1>18, <1>19, <1>20 DEF Exchange

LEMMA RoutineIsQuiet ==
    ASSUME WorkOK, DataOK, SettleStart \/ LoadProofs \/ RemoveSettled \/ SettleDone \/ SettleSkip
    PROVE  QuietStep(Settler)
<1> USE DEF repo, core, clowder, locktimes, abroad, faults
<1>2. pc[Settler] # "bank" /\ UNCHANGED <<banked, spent, dropped>>
  BY DEF SettleStart, LoadProofs, RemoveSettled, SettleDone, SettleSkip, Begin
<1>3. OnlyMoves(Settler) /\ pc'[Settler] # "bank"
  BY SettlerMoves DEF Works, OnlyMoves, WorkOK, Agent
<1> QED BY <1>2, <1>3 DEF QuietStep

LEMMA BankQuiet ==
    ASSUME BankInv, NEW a \in Agent, QuietStep(a)
    PROVE  BankInv'
<1>1. \A b \in Agent : AtBank(b)' = AtBank(b)
  BY DEF QuietStep, OnlyMoves, AtBank
<1> QED BY <1>1 DEF QuietStep, BankInv, Agent

\* An agent that takes proofs at a foreign mint.
LEMMA BankTakes ==
    ASSUME KeysInv, BankInv, NEW a \in Agent, pc[a] = "swap", NEW S \in SUBSET Proof, S \cap spent = {},
           spent' = spent \cup S, UNCHANGED <<banked, dropped>>,
           OnlyMoves(a), AtBank(a)' = S
    PROVE  BankInv'
<1>1. \A b \in Agent : b # a => AtBank(b)' = AtBank(b)
  BY DEF OnlyMoves, AtBank
<1>2. \A y \in S : banked[y] = 0
  BY DEF BankInv
<1>3. AtBank(a) = {}
  BY DEF AtBank
<1>4. \A p \in Proc : \A y \in AtBank(p)' : banked'[y] = 0
  BY <1>1, <1>2 DEF BankInv, Agent
<1>5. \A b, c \in Agent : b # c => AtBank(b)' \cap AtBank(c)' = {}
  BY <1>1 DEF BankInv
<1>6. \A y \in spent' : banked'[y] = 1 \/ y \in dropped' \/ \E b \in Agent : y \in AtBank(b)'
  <2>1. CASE spent = spent'
    BY <1>1, <1>3, <2>1 DEF BankInv
  <2> QED BY <1>1, <1>3 DEF BankInv
<1>7. \A b \in Agent : AtBank(b)' \subseteq spent'
  BY <1>1 DEF BankInv
<1> QED BY <1>4, <1>5, <1>6, <1>7 DEF BankInv

\* An agent that stores what it took, and goes on or tries again.
LEMMA BankStores ==
    ASSUME KeysInv, BankInv, NEW a \in Agent, pc[a] = "bank",
           \A y \in job[a].hand : banked[y] = 0,
           banked' = Add(banked, job[a].hand), UNCHANGED <<spent, dropped>>,
           OnlyMoves(a), AtBank(a)' = {} \/ (a = Settler /\ AtBank(a)' = AtBank(a))
    PROVE  BankInv'
<1>1. \A b \in Agent : b # a => AtBank(b)' = AtBank(b)
  BY DEF OnlyMoves, AtBank
<1>2. banked \in [Proof -> Nat] /\ AtBank(a) = job[a].hand /\ AtBank(a) \subseteq Proof
      /\ spent \subseteq Proof
  BY DEF KeysInv, DataOK, WorkOK, Job, AtBank
<1>3. /\ \A y \in AtBank(a) : banked'[y] = 1
      /\ \A y \in Proof \ AtBank(a) : banked'[y] = banked[y]
  BY <1>2, AddTyped
<1>4. AtBank(a)' \subseteq AtBank(a)
  OBVIOUS
<1>5. \A y \in Proof : banked'[y] \in {0, 1} /\ (banked'[y] = 1 => y \in spent')
  BY <1>2, <1>3 DEF BankInv
<1>6. \A b \in Agent : AtBank(b)' \subseteq spent'
  BY <1>1, <1>4 DEF BankInv
<1>7. ASSUME NEW p \in Proc, NEW y \in AtBank(p)' PROVE banked'[y] = 0
  <2>1. p # Settler /\ p \in Agent
    BY ParameterAssumption DEF Agent
  <2>2. p # a
    BY <1>7, <2>1
  <2>3. y \in AtBank(p) /\ y \notin AtBank(a) /\ y \in Proof
    BY <1>1, <1>2, <1>7, <2>1, <2>2 DEF BankInv
  <2> QED BY <1>3, <2>3 DEF BankInv
<1>8. \A b, c \in Agent : b # c => AtBank(b)' \cap AtBank(c)' = {}
  BY <1>1, <1>4 DEF BankInv
<1>9. ASSUME NEW y \in spent'
      PROVE  banked'[y] = 1 \/ y \in dropped' \/ \E b \in Agent : y \in AtBank(b)'
  <2>1. CASE y \in AtBank(a)
    BY <1>3, <2>1
  <2>2. CASE y \notin AtBank(a)
    <3>1. y \in Proof /\ banked'[y] = banked[y]
      BY <1>2, <1>3, <2>2
    <3> QED BY <1>1, <2>2, <3>1 DEF BankInv
  <2> QED BY <2>1, <2>2
<1> QED BY <1>5, <1>6, <1>7, <1>8, <1>9 DEF BankInv

\* An agent that stops, and one that does not hear that a swap was done.
LEMMA BankDrops ==
    ASSUME KeysInv, BankInv, NEW a \in Agent, OnlyMoves(a), AtBank(a)' = {},
           NEW S, spent' = spent \cup S, UNCHANGED banked,
           dropped \cup S \subseteq dropped',
           \A y \in AtBank(a) : banked[y] = 0 => y \in dropped'
    PROVE  BankInv'
<1>1. \A b \in Agent : b # a => AtBank(b)' = AtBank(b)
  BY DEF OnlyMoves, AtBank
<1>2. \A b \in Agent : AtBank(b)' \subseteq AtBank(b) /\ AtBank(b)' \subseteq spent'
  BY <1>1 DEF BankInv
<1>3. \A p \in Proc : \A y \in AtBank(p)' : banked'[y] = 0
  BY <1>2 DEF BankInv, Agent
<1>4. \A b, c \in Agent : b # c => AtBank(b)' \cap AtBank(c)' = {}
  BY <1>2 DEF BankInv
<1>5. \A y \in AtBank(a) : banked[y] # 0 => banked[y] = 1
  BY DEF BankInv, KeysInv, DataOK
<1> QED BY <1>1, <1>2, <1>3, <1>4, <1>5 DEF BankInv

LEMMA BankNext == KeysInv /\ BankInv /\ [Next]_vars => BankInv'
<1> SUFFICES ASSUME KeysInv, BankInv, [Next]_vars PROVE BankInv'
  OBVIOUS
<1> USE DEF repo, core, clowder, locktimes, abroad, faults
<1>0. WorkOK /\ DataOK /\ Settler \in Agent /\ Proc \subseteq Agent
      /\ \A a \in Agent : job[a].hand \subseteq Proof /\ job[a].todo \subseteq Proof /\ job[a].inputs \subseteq Proof
  BY DEF KeysInv, WorkOK, Job, Agent
<1>1. ASSUME NEW a \in Agent, NEW l, NEW j, Works(a, l, j)
      PROVE  OnlyMoves(a) /\ pc'[a] = l /\ job'[a] = j
  BY <1>0, <1>1, Moved
<1>2. ASSUME NEW p \in Proc, Exchange(p) \/ Redeem(p) PROVE BankInv'
  <2>1. CASE SwapHtlcs(p)
    <3>1. pc[p] = "swap" /\ UNCHANGED <<banked, dropped>>
      BY <2>1 DEF SwapHtlcs
    <3>2. CASE Works(p, "idle", NoJob) /\ UNCHANGED spent
      <4>1. QuietStep(p)
        BY <1>0, <1>1, <3>1, <3>2 DEF QuietStep
      <4> QED BY <1>0, <4>1, BankQuiet
    <3>3. ASSUME NEW S \in SUBSET job[p].todo, S \cap spent = {}, spent' = spent \cup S,
                 Works(p, "bank", [job[p] EXCEPT !.todo = @ \ S, !.hand = S])
          PROVE  BankInv'
      <4>1. OnlyMoves(p) /\ pc'[p] = "bank" /\ job'[p] = [job[p] EXCEPT !.todo = @ \ S, !.hand = S]
        BY <1>0, <1>1, <3>3
      <4>2. AtBank(p)' = S
        BY <1>0, <4>1 DEF AtBank, WorkOK, Job
      <4> QED BY <1>0, <3>1, <3>3, <4>1, <4>2, BankTakes
    <3> QED BY <1>0, <2>1, <3>2, <3>3, RedeemMoves
  <2>2. CASE BankHtlcs(p)
    <3>1. /\ pc[p] = "bank" /\ banked' = Add(banked, job[p].hand) /\ UNCHANGED <<spent, dropped>>
      BY <2>2 DEF BankHtlcs
    <3>2. \A y \in job[p].hand : banked[y] = 0
      BY <3>1 DEF BankInv, AtBank
    <3>3. OnlyMoves(p) /\ pc'[p] = "remove"
      BY <1>0, <1>1, <2>2, RedeemMoves
    <3>4. AtBank(p)' = {}
      BY <3>3 DEF AtBank
    <3> QED BY <1>0, <3>1, <3>2, <3>3, <3>4, BankStores
  <2>3. CASE ~SwapHtlcs(p) /\ ~BankHtlcs(p)
    <3>1. QuietStep(p)
      BY <1>0, <1>2, <2>3, RequestIsQuiet DEF Redeem
    <3> QED BY <1>0, <3>1, BankQuiet
  <2> QED BY <2>1, <2>2, <2>3
<1>3. CASE SettleSwap
  <2>1. pc[Settler] = "swap" /\ UNCHANGED <<banked, dropped>>
    BY <1>3 DEF SettleSwap
  <2>2. ASSUME UNCHANGED spent, NEW M, Works(Settler, "mint", [NoJob EXCEPT !.mints = M])
        PROVE  BankInv'
    <3>1. QuietStep(Settler)
      BY <1>0, <1>1, <2>1, <2>2 DEF QuietStep
    <3> QED BY <1>0, <3>1, BankQuiet
  <2> DEFINE S == job[Settler].inputs
  <2>3. ASSUME S \cap spent = {}, spent' = spent \cup S,
               Works(Settler, "bank", [job[Settler] EXCEPT !.hand = S])
        PROVE  BankInv'
    <3>1. OnlyMoves(Settler) /\ pc'[Settler] = "bank" /\ job'[Settler] = [job[Settler] EXCEPT !.hand = S]
      BY <1>0, <1>1, <2>3
    <3>2. AtBank(Settler)' = S
      BY <1>0, <3>1 DEF AtBank, WorkOK, Job
    <3> QED BY <1>0, <2>1, <2>3, <3>1, <3>2, BankTakes
  <2> QED BY <1>0, <1>3, <2>2, <2>3, SettlerMoves
<1>4. CASE BankSettled
  <2>1. /\ pc[Settler] = "bank" /\ banked' = Add(banked, job[Settler].hand) /\ UNCHANGED <<spent, dropped>>
        /\ \A y \in job[Settler].hand : banked[y] = 0
    BY <1>4 DEF BankSettled
  <2>2. OnlyMoves(Settler) /\ pc'[Settler] = "remove"
    BY <1>0, <1>1, <1>4, SettlerMoves
  <2>3. AtBank(Settler)' = {}
    BY <2>2 DEF AtBank
  <2> QED BY <1>0, <2>1, <2>2, <2>3, BankStores
<1>5. CASE BankUnheard
  <2>1. /\ pc[Settler] = "bank" /\ banked' = Add(banked, job[Settler].hand) /\ UNCHANGED <<spent, dropped>>
        /\ \A y \in job[Settler].hand : banked[y] = 0
        /\ UNCHANGED <<pc, job>>
    BY <1>5 DEF BankUnheard
  <2>2. OnlyMoves(Settler) /\ AtBank(Settler)' = AtBank(Settler)
    BY <2>1 DEF OnlyMoves, AtBank
  <2> QED BY <1>0, <2>1, <2>2, BankStores
<1>6. CASE SettleStart \/ LoadProofs \/ RemoveSettled \/ SettleDone \/ SettleSkip
  <2>1. QuietStep(Settler)
    BY <1>0, <1>6, RoutineIsQuiet
  <2> QED BY <1>0, <2>1, BankQuiet
<1>7. ASSUME NEW a \in Agent, Fail(a) PROVE BankInv'
  <2>1. OnlyMoves(a) /\ pc'[a] = "idle"
    BY <1>0, <1>1, <1>7, FaultMoves
  <2>2. UNCHANGED <<banked, spent>> /\ dropped' = dropped \cup InHand(a)
    BY <1>7 DEF Fail
  <2>3. \A y \in AtBank(a) : banked[y] = 0 => y \in dropped'
    BY <2>2 DEF AtBank, InHand
  <2>4. AtBank(a)' = {} /\ spent' = spent \cup {} /\ dropped \cup {} \subseteq dropped'
    BY <2>1, <2>2 DEF AtBank
  <2> QED BY <2>1, <2>2, <2>3, <2>4, BankDrops
<1>8. ASSUME NEW a \in Agent, SwapUnheard(a) PROVE BankInv'
  <2>1. PICK S : /\ pc[a] = "swap" /\ spent' = spent \cup S /\ dropped' = dropped \cup S
                 /\ UNCHANGED banked
    BY <1>8 DEF SwapUnheard
  <2>2. OnlyMoves(a) /\ pc'[a] # "bank"
    <3>1. CASE Works(a, "idle", NoJob)
      BY <1>1, <3>1
    <3>2. ASSUME NEW M, Works(a, "mint", [NoJob EXCEPT !.mints = M])
          PROVE  OnlyMoves(a) /\ pc'[a] # "bank"
      BY <1>1, <3>2
    <3> QED BY <1>0, <1>8, <3>1, <3>2, FaultMoves
  <2>3. AtBank(a) = {} /\ AtBank(a)' = {}
    BY <2>1, <2>2 DEF AtBank
  <2> QED BY <2>1, <2>2, <2>3, BankDrops
<1>9. CASE Crash
  <2>1. /\ \A a \in Agent : pc'[a] = "idle" /\ InHand(a) \subseteq dropped'
        /\ dropped \subseteq dropped' /\ UNCHANGED <<banked, spent>>
    BY <1>9 DEF Crash
  <2>2. \A a \in Agent : AtBank(a)' = {}
    BY <2>1 DEF AtBank
  <2>3. \A a \in Agent : \A y \in AtBank(a) : banked[y] = 0 => y \in dropped'
    BY <2>1 DEF AtBank, InHand
  <2>4. \A y \in spent : banked[y] = 1 \/ y \in dropped'
    BY <1>0, <2>1, <2>3 DEF BankInv, DataOK
  <2> QED BY <1>0, <2>1, <2>2, <2>4 DEF BankInv, Agent
<1>10. CASE World \/ UNCHANGED vars
  <2>1. UNCHANGED <<pc, job, banked, spent, dropped>>
    BY <1>10 DEF World, Outage, Return, Lapse, Refund, vars
  <2> QED BY <2>1 DEF BankInv, AtBank
<1> QED BY <1>2, <1>3, <1>4, <1>5, <1>6, <1>7, <1>8, <1>9, <1>10 DEF Next, World, Settle

LEMMA BankInvariant == Spec => []BankInv
BY KeysInvariant, BankInit, BankNext, PTL DEF Spec

\* What a foreign proof was swapped for is stored once, although the routine stores it again
\* until it is answered and requests redeem the same proofs at the same time.
THEOREM StoredOnce == Spec => []BankedOnce
<1>1. BankInv => BankedOnce
  BY DEF BankInv, BankedOnce
<1> QED BY <1>1, BankInvariant, PTL

-----------------------------------------------------------------------------
(* What wallets got eCash for is not lost, if remove_proofs deletes no other *)
(* rows than those it is told to.                                            *)

Got == {y \in Proof : banked[y] > 0}

Accounted == Held \cup htlcs \cup fps \cup offline

Exchanging == {"accept", "check", "record", "keyset", "announce", "create", "issue"}

\* What handlers know of the proofs they are given: fingerprints are stored for all of them,
\* and a secret takes one offline proof.
Aim(l, j) ==
    /\ l \in Exchanging => (j.inputs \subseteq Token => j.inputs \subseteq j.todo)
    /\ l = "claim" => \A x, y \in j.todo : x = y
    /\ l = "keep" => \A x, y \in j.hand : x = y

\* A handler replies when it stored its inputs, and removes what is banked.
Stands(a) ==
    /\ pc[a] = "reply" => job[a].inputs \subseteq Accounted
    /\ pc[a] = "fps" => job[a].inputs \ job[a].todo \subseteq Accounted
    /\ pc[a] = "bank" /\ a = Settler => job[a].inputs = job[a].hand
    /\ pc[a] = "remove" => (IF a = Settler THEN job[a].inputs ELSE job[a].hand) \subseteq Got

LossInv ==
    /\ \A a \in Agent : Aim(pc[a], job[a]) /\ Stands(a)
    /\ \A y \in Proof : home[y] > 0 => y \in Accounted

LEMMA LossInit == Init => LossInv
<1> SUFFICES ASSUME Init PROVE LossInv
  OBVIOUS
<1>1. \A a \in Agent : Aim(pc[a], job[a]) /\ Stands(a)
  BY DEF Init, Aim, Stands, Exchanging
<1>2. \A y \in Proof : home[y] = 0
  BY DEF Init
<1> QED BY <1>1, <1>2 DEF LossInv

\* One agent moves and nothing goes that was accounted for.
LEMMA LossKept ==
    ASSUME LossInv, Accounted \subseteq Accounted', Got \subseteq Got', NEW a \in Agent, OnlyMoves(a),
           Aim(pc'[a], job'[a]), Stands(a)', UNCHANGED home
    PROVE  LossInv'
<1>1. \A b \in Agent \ {a} : Aim(pc'[b], job'[b]) /\ Stands(b)'
  BY DEF LossInv, OnlyMoves, Stands
<1> QED BY <1>1 DEF LossInv

LEMMA HeldParts ==
    /\ Got \subseteq Held /\ dropped \subseteq Held /\ \A b \in Agent : InHand(b) \subseteq Held
    /\ Got' \subseteq Held' /\ dropped' \subseteq Held' /\ \A b \in Agent : InHand(b)' \subseteq Held'
<1>1. Got \subseteq Held /\ Got' \subseteq Held'
  BY DEF Got, Held
<1>2. dropped \subseteq Held /\ dropped' \subseteq Held'
  BY DEF Held
<1>3. \A b \in Agent : InHand(b) \subseteq Held
  BY DEF Held
<1>4. \A b \in Agent : InHand(b)' \subseteq Held'
  BY DEF Held
<1> QED BY <1>1, <1>2, <1>3, <1>4

LEMMA AccountedStays ==
    ASSUME NEW a \in Agent, OnlyMoves(a), Got \subseteq Got', dropped \subseteq dropped',
           WorkOK, DataOK, DataOK',
           InHand(a) \cup (htlcs \ htlcs') \cup (fps \ fps') \cup (offline \ offline')
             \subseteq Accounted'
    PROVE  Accounted \subseteq Accounted'
<1>1. ASSUME NEW b \in Agent, b # a, NEW y \in InHand(b) PROVE y \in Held'
  <2>1. y \in job[b].hand /\ pc[b] \in {"bank", "keep"} /\ y \in Proof
    BY <1>1 DEF InHand, WorkOK, Job
  <2>2. pc'[b] = pc[b] /\ job'[b] = job[b]
    BY <1>1 DEF OnlyMoves
  <2>3. CASE banked'[y] = 0
    <3>1. y \in InHand(b)'
      BY <2>1, <2>2, <2>3 DEF InHand
    <3> QED BY <3>1, HeldParts
  <2>4. CASE banked'[y] # 0
    BY <2>1, <2>4, HeldParts DEF Got, DataOK
  <2> QED BY <2>3, <2>4
<1>2. Got \cup dropped \subseteq Held'
  BY HeldParts
<1>3. Held \subseteq Accounted'
  BY <1>1, <1>2 DEF Held, Got, Accounted
<1> QED BY <1>3 DEF Accounted

LEMMA ExchangeLoss ==
    ASSUME KeysInv, LossInv, NEW p \in Proc, Exchange(p)
    PROVE  LossInv'
<1> USE DEF repo, core, clowder, locktimes, abroad, faults
<1>0. /\ p \in Agent /\ p # Settler /\ job[p] \in Job /\ WorkOK /\ DataOK /\ DataOK'
      /\ Aim(pc[p], job[p]) /\ Stands(p) /\ LossInv
  BY KeysNext, ParameterAssumption DEF Agent, KeysInv, WorkOK, LossInv, Next
<1>1. CASE OnlineStart(p)
  <2>1. OnlyMoves(p) /\ UNCHANGED home
    BY <1>0, <1>1 DEF OnlineStart, OnlyMoves, WorkOK, Goto, End, Begin, NextMint
  <2>2. Aim(pc'[p], job'[p])
    BY <1>0, <1>1, ParameterAssumption DEF OnlineStart, Aim, Exchanging, WorkOK, Job, NoJob, Goto, End, Begin, NextMint, Alike
  <2>3. Got \subseteq Got' /\ Accounted \subseteq Accounted'
    <3>1. Got \subseteq Got' /\ dropped \subseteq dropped'
      BY <1>0, <1>1, AddTyped DEF OnlineStart, Got, DataOK
    <3>2. InHand(p) \cup (htlcs \ htlcs') \cup (fps \ fps') \cup (offline \ offline') \subseteq Accounted'
      BY <1>0, <1>1 DEF OnlineStart, InHand, Begin
    <3> QED BY <1>0, <2>1, <3>1, <3>2, AccountedStays
  <2>4. Stands(p)'
    BY <1>0, <1>1, <2>3 DEF OnlineStart, Stands, WorkOK, Job, Goto, End, Begin, NextMint
  <2> QED BY <1>0, <2>1, <2>2, <2>3, <2>4, LossKept
<1>2. CASE CheckHtlcs(p)
  <2>1. OnlyMoves(p) /\ UNCHANGED home
    BY <1>0, <1>2 DEF CheckHtlcs, OnlyMoves, WorkOK, Goto, End, Begin, NextMint
  <2>2. Aim(pc'[p], job'[p])
    BY <1>0, <1>2 DEF CheckHtlcs, Aim, Exchanging, WorkOK, Job, NoJob, Goto, End, Begin, NextMint
  <2>3. Got \subseteq Got' /\ Accounted \subseteq Accounted'
    <3>1. Got \subseteq Got' /\ dropped \subseteq dropped'
      BY <1>0, <1>2, AddTyped DEF CheckHtlcs, Got, DataOK
    <3>2. InHand(p) \cup (htlcs \ htlcs') \cup (fps \ fps') \cup (offline \ offline') \subseteq Accounted'
      BY <1>0, <1>2 DEF CheckHtlcs, InHand, Begin
    <3> QED BY <1>0, <2>1, <3>1, <3>2, AccountedStays
  <2>4. Stands(p)'
    BY <1>0, <1>2, <2>3 DEF CheckHtlcs, Stands, WorkOK, Job, Goto, End, Begin, NextMint
  <2> QED BY <1>0, <2>1, <2>2, <2>3, <2>4, LossKept
<1>3. CASE StoreHtlcs(p)
  <2>1. OnlyMoves(p) /\ UNCHANGED home
    BY <1>0, <1>3 DEF StoreHtlcs, OnlyMoves, WorkOK, Goto, End, Begin, NextMint
  <2>2. Aim(pc'[p], job'[p])
    BY <1>0, <1>3 DEF StoreHtlcs, Aim, Exchanging, WorkOK, Job, NoJob, Goto, End, Begin, NextMint
  <2>3. Got \subseteq Got' /\ Accounted \subseteq Accounted'
    <3>1. Got \subseteq Got' /\ dropped \subseteq dropped'
      BY <1>0, <1>3, AddTyped DEF StoreHtlcs, Got, DataOK
    <3>2. InHand(p) \cup (htlcs \ htlcs') \cup (fps \ fps') \cup (offline \ offline') \subseteq Accounted'
      BY <1>0, <1>3 DEF StoreHtlcs, InHand, Begin
    <3> QED BY <1>0, <2>1, <3>1, <3>2, AccountedStays
  <2>4. Stands(p)'
    BY <1>0, <1>3, <2>3 DEF StoreHtlcs, Stands, WorkOK, Job, Goto, End, Begin, NextMint, Accounted
  <2> QED BY <1>0, <2>1, <2>2, <2>3, <2>4, LossKept
<1>4. CASE OfflineStart(p)
  <2>1. OnlyMoves(p) /\ UNCHANGED home
    BY <1>0, <1>4 DEF OfflineStart, OnlyMoves, WorkOK, Goto, End, Begin, NextMint
  <2>2. Aim(pc'[p], job'[p])
    BY <1>0, <1>4 DEF OfflineStart, Aim, Exchanging, WorkOK, Job, NoJob, Goto, End, Begin, NextMint
  <2>3. Got \subseteq Got' /\ Accounted \subseteq Accounted'
    <3>1. Got \subseteq Got' /\ dropped \subseteq dropped'
      BY <1>0, <1>4, AddTyped DEF OfflineStart, Got, DataOK
    <3>2. InHand(p) \cup (htlcs \ htlcs') \cup (fps \ fps') \cup (offline \ offline') \subseteq Accounted'
      BY <1>0, <1>4 DEF OfflineStart, InHand, Begin
    <3> QED BY <1>0, <2>1, <3>1, <3>2, AccountedStays
  <2>4. Stands(p)'
    BY <1>0, <1>4, <2>3 DEF OfflineStart, Stands, WorkOK, Job, Goto, End, Begin, NextMint
  <2> QED BY <1>0, <2>1, <2>2, <2>3, <2>4, LossKept
<1>5. CASE Accept(p)
  <2>1. OnlyMoves(p) /\ UNCHANGED home
    BY <1>0, <1>5 DEF Accept, OnlyMoves, WorkOK, Goto, End, Begin, NextMint
  <2>2. Aim(pc'[p], job'[p])
    BY <1>0, <1>5 DEF Accept, Aim, Exchanging, WorkOK, Job, NoJob, Goto, End, Begin, NextMint
  <2>3. Got \subseteq Got' /\ Accounted \subseteq Accounted'
    <3>1. Got \subseteq Got' /\ dropped \subseteq dropped'
      BY <1>0, <1>5, AddTyped DEF Accept, Got, DataOK
    <3>2. InHand(p) \cup (htlcs \ htlcs') \cup (fps \ fps') \cup (offline \ offline') \subseteq Accounted'
      BY <1>0, <1>5 DEF Accept, InHand, Begin
    <3> QED BY <1>0, <2>1, <3>1, <3>2, AccountedStays
  <2>4. Stands(p)'
    BY <1>0, <1>5, <2>3 DEF Accept, Stands, WorkOK, Job, Goto, End, Begin, NextMint
  <2> QED BY <1>0, <2>1, <2>2, <2>3, <2>4, LossKept
<1>6. CASE Record(p)
  <2>1. OnlyMoves(p) /\ UNCHANGED home
    BY <1>0, <1>6 DEF Record, OnlyMoves, WorkOK, Goto, End, Begin, NextMint
  <2>2. Aim(pc'[p], job'[p])
    BY <1>0, <1>6 DEF Record, Aim, Exchanging, WorkOK, Job, NoJob, Goto, End, Begin, NextMint
  <2>3. Got \subseteq Got' /\ Accounted \subseteq Accounted'
    <3>1. Got \subseteq Got' /\ dropped \subseteq dropped'
      BY <1>0, <1>6, AddTyped DEF Record, Got, DataOK
    <3>2. InHand(p) \cup (htlcs \ htlcs') \cup (fps \ fps') \cup (offline \ offline') \subseteq Accounted'
      BY <1>0, <1>6 DEF Record, InHand, Begin
    <3> QED BY <1>0, <2>1, <3>1, <3>2, AccountedStays
  <2>4. Stands(p)'
    BY <1>0, <1>6, <2>3 DEF Record, Stands, WorkOK, Job, Goto, End, Begin, NextMint
  <2> QED BY <1>0, <2>1, <2>2, <2>3, <2>4, LossKept
<1>7. CASE StoreFp(p)
  <2>1. OnlyMoves(p) /\ UNCHANGED home
    BY <1>0, <1>7 DEF StoreFp, OnlyMoves, WorkOK, Goto, End, Begin, NextMint
  <2>2. Aim(pc'[p], job'[p])
    BY <1>0, <1>7 DEF StoreFp, Aim, Exchanging, WorkOK, Job, NoJob, Goto, End, Begin, NextMint
  <2>3. Got \subseteq Got' /\ Accounted \subseteq Accounted'
    <3>1. Got \subseteq Got' /\ dropped \subseteq dropped'
      BY <1>0, <1>7, AddTyped DEF StoreFp, Got, DataOK
    <3>2. InHand(p) \cup (htlcs \ htlcs') \cup (fps \ fps') \cup (offline \ offline') \subseteq Accounted'
      BY <1>0, <1>7 DEF StoreFp, InHand, Begin
    <3> QED BY <1>0, <2>1, <3>1, <3>2, AccountedStays
  <2>4. Stands(p)'
    BY <1>0, <1>7, <2>3 DEF StoreFp, Stands, WorkOK, Job, Goto, End, Begin, NextMint, Accounted
  <2> QED BY <1>0, <2>1, <2>2, <2>3, <2>4, LossKept
<1>8. CASE FindKeyset(p)
  <2>1. OnlyMoves(p) /\ UNCHANGED home
    BY <1>0, <1>8 DEF FindKeyset, OnlyMoves, WorkOK, Goto, End, Begin, NextMint
  <2>2. Aim(pc'[p], job'[p])
    BY <1>0, <1>8 DEF FindKeyset, Aim, Exchanging, WorkOK, Job, NoJob, Goto, End, Begin, NextMint
  <2>3. Got \subseteq Got' /\ Accounted \subseteq Accounted'
    <3>1. Got \subseteq Got' /\ dropped \subseteq dropped'
      BY <1>0, <1>8, AddTyped DEF FindKeyset, Got, DataOK
    <3>2. InHand(p) \cup (htlcs \ htlcs') \cup (fps \ fps') \cup (offline \ offline') \subseteq Accounted'
      BY <1>0, <1>8 DEF FindKeyset, InHand, Begin
    <3> QED BY <1>0, <2>1, <3>1, <3>2, AccountedStays
  <2>4. Stands(p)'
    BY <1>0, <1>8, <2>3 DEF FindKeyset, Stands, WorkOK, Job, Goto, End, Begin, NextMint
  <2> QED BY <1>0, <2>1, <2>2, <2>3, <2>4, LossKept
<1>9. CASE AnnounceKeyset(p)
  <2>1. OnlyMoves(p) /\ UNCHANGED home
    BY <1>0, <1>9 DEF AnnounceKeyset, OnlyMoves, WorkOK, Goto, End, Begin, NextMint
  <2>2. Aim(pc'[p], job'[p])
    BY <1>0, <1>9 DEF AnnounceKeyset, Aim, Exchanging, WorkOK, Job, NoJob, Goto, End, Begin, NextMint
  <2>3. Got \subseteq Got' /\ Accounted \subseteq Accounted'
    <3>1. Got \subseteq Got' /\ dropped \subseteq dropped'
      BY <1>0, <1>9, AddTyped DEF AnnounceKeyset, Got, DataOK
    <3>2. InHand(p) \cup (htlcs \ htlcs') \cup (fps \ fps') \cup (offline \ offline') \subseteq Accounted'
      BY <1>0, <1>9 DEF AnnounceKeyset, InHand, Begin
    <3> QED BY <1>0, <2>1, <3>1, <3>2, AccountedStays
  <2>4. Stands(p)'
    BY <1>0, <1>9, <2>3 DEF AnnounceKeyset, Stands, WorkOK, Job, Goto, End, Begin, NextMint
  <2> QED BY <1>0, <2>1, <2>2, <2>3, <2>4, LossKept
<1>10. CASE StoreKeyset(p)
  <2>1. OnlyMoves(p) /\ UNCHANGED home
    BY <1>0, <1>10 DEF StoreKeyset, OnlyMoves, WorkOK, Goto, End, Begin, NextMint
  <2>2. Aim(pc'[p], job'[p])
    BY <1>0, <1>10 DEF StoreKeyset, Aim, Exchanging, WorkOK, Job, NoJob, Goto, End, Begin, NextMint
  <2>3. Got \subseteq Got' /\ Accounted \subseteq Accounted'
    <3>1. Got \subseteq Got' /\ dropped \subseteq dropped'
      BY <1>0, <1>10, AddTyped DEF StoreKeyset, Got, DataOK
    <3>2. InHand(p) \cup (htlcs \ htlcs') \cup (fps \ fps') \cup (offline \ offline') \subseteq Accounted'
      BY <1>0, <1>10 DEF StoreKeyset, InHand, Begin
    <3> QED BY <1>0, <2>1, <3>1, <3>2, AccountedStays
  <2>4. Stands(p)'
    BY <1>0, <1>10, <2>3 DEF StoreKeyset, Stands, WorkOK, Job, Goto, End, Begin, NextMint
  <2> QED BY <1>0, <2>1, <2>2, <2>3, <2>4, LossKept
<1>11. CASE SignalOnline(p)
  <2>1. OnlyMoves(p) /\ UNCHANGED home
    BY <1>0, <1>11 DEF SignalOnline, OnlyMoves, WorkOK, Goto, End, Begin, NextMint
  <2>2. Aim(pc'[p], job'[p])
    BY <1>0, <1>11 DEF SignalOnline, Aim, Exchanging, WorkOK, Job, NoJob, Goto, End, Begin, NextMint
  <2>3. Got \subseteq Got' /\ Accounted \subseteq Accounted'
    <3>1. Got \subseteq Got' /\ dropped \subseteq dropped'
      BY <1>0, <1>11, AddTyped DEF SignalOnline, Got, DataOK
    <3>2. InHand(p) \cup (htlcs \ htlcs') \cup (fps \ fps') \cup (offline \ offline') \subseteq Accounted'
      BY <1>0, <1>11 DEF SignalOnline, InHand, Begin
    <3> QED BY <1>0, <2>1, <3>1, <3>2, AccountedStays
  <2>4. Stands(p)'
    BY <1>0, <1>11, <2>3 DEF SignalOnline, Stands, WorkOK, Job, Goto, End, Begin, NextMint
  <2> QED BY <1>0, <2>1, <2>2, <2>3, <2>4, LossKept
<1>12. CASE SignalOffline(p)
  <2>1. OnlyMoves(p) /\ UNCHANGED home
    BY <1>0, <1>12 DEF SignalOffline, OnlyMoves, WorkOK, Goto, End, Begin, NextMint
  <2>2. Aim(pc'[p], job'[p])
    BY <1>0, <1>12 DEF SignalOffline, Aim, Exchanging, WorkOK, Job, NoJob, Goto, End, Begin, NextMint
  <2>3. Got \subseteq Got' /\ Accounted \subseteq Accounted'
    <3>1. Got \subseteq Got' /\ dropped \subseteq dropped'
      BY <1>0, <1>12, AddTyped DEF SignalOffline, Got, DataOK
    <3>2. InHand(p) \cup (htlcs \ htlcs') \cup (fps \ fps') \cup (offline \ offline') \subseteq Accounted'
      BY <1>0, <1>12 DEF SignalOffline, InHand, Begin
    <3> QED BY <1>0, <2>1, <3>1, <3>2, AccountedStays
  <2>4. Stands(p)'
    BY <1>0, <1>12, <2>3 DEF SignalOffline, Stands, WorkOK, Job, Goto, End, Begin, NextMint, Aim, Exchanging
  <2> QED BY <1>0, <2>1, <2>2, <2>3, <2>4, LossKept
<1>13. CASE Reply(p)
  <2>1. OnlyMoves(p) /\ pc'[p] = "idle"
    BY <1>0, <1>13 DEF Reply, OnlyMoves, WorkOK, Goto, End
  <2>2. Got \subseteq Got' /\ Accounted \subseteq Accounted'
    <3>1. Got \subseteq Got' /\ dropped \subseteq dropped'
      BY <1>13 DEF Reply, Got
    <3>2. InHand(p) \cup (htlcs \ htlcs') \cup (fps \ fps') \cup (offline \ offline') \subseteq Accounted'
      BY <1>13 DEF Reply, InHand
    <3> QED BY <1>0, <2>1, <3>1, <3>2, AccountedStays
  <2>3. job[p].inputs \subseteq Accounted
    BY <1>0, <1>13 DEF Reply, Stands
  <2>4. \A y \in Proof : home'[y] > 0 => home[y] > 0 \/ y \in job[p].inputs
    BY <1>0, <1>13, AddTyped DEF Reply, DataOK
  <2>5. \A b \in Agent : Aim(pc'[b], job'[b]) /\ Stands(b)'
    BY <1>0, <2>1, <2>2 DEF LossInv, OnlyMoves, Stands, Aim, Exchanging
  <2> QED BY <1>0, <2>2, <2>3, <2>4, <2>5 DEF LossInv
<1> QED BY <1>1, <1>2, <1>3, <1>4, <1>5, <1>6, <1>7, <1>8, <1>9, <1>10, <1>11, <1>12, <1>13 DEF Exchange

LEMMA RedeemLoss ==
    ASSUME KeysInv, BankInv, LossInv, NEW p \in Proc, Redeem(p)
    PROVE  LossInv'
<1> USE DEF repo, core, clowder, locktimes, abroad, faults
<1>0. /\ p \in Agent /\ p # Settler /\ job[p] \in Job /\ WorkOK /\ DataOK /\ DataOK'
      /\ Aim(pc[p], job[p]) /\ Stands(p) /\ LossInv
  BY KeysNext, ParameterAssumption DEF Agent, KeysInv, WorkOK, LossInv, Next
<1>1. CASE RedeemStart(p)
  <2>1. OnlyMoves(p) /\ UNCHANGED home
    BY <1>0, <1>1 DEF RedeemStart, OnlyMoves, WorkOK, Goto, End, Begin, NextMint
  <2>2. Aim(pc'[p], job'[p])
    <3>1. pc'[p] \in {"search", "core"}
      BY <1>0, <1>1 DEF RedeemStart, Begin, Goto, WorkOK
    <3> QED BY <3>1 DEF Aim, Exchanging
  <2>3. Got \subseteq Got' /\ Accounted \subseteq Accounted'
    <3>1. Got \subseteq Got' /\ dropped \subseteq dropped'
      BY <1>0, <1>1, AddTyped DEF RedeemStart, Got, DataOK
    <3>2. InHand(p) \cup (htlcs \ htlcs') \cup (fps \ fps') \cup (offline \ offline') \subseteq Accounted'
      BY <1>0, <1>1 DEF RedeemStart, InHand, Begin
    <3> QED BY <1>0, <2>1, <3>1, <3>2, AccountedStays
  <2>4. Stands(p)'
    BY <1>0, <1>1, <2>3 DEF RedeemStart, Stands, WorkOK, Job, Goto, End, Begin, NextMint
  <2> QED BY <1>0, <2>1, <2>2, <2>3, <2>4, LossKept
<1>2. CASE Search(p)
  <2>1. OnlyMoves(p) /\ UNCHANGED home
    BY <1>0, <1>2 DEF Search, OnlyMoves, WorkOK, Goto, End, Begin, NextMint
  <2>2. Aim(pc'[p], job'[p])
    <3>1. pc'[p] = "claim" => job'[p].todo \subseteq {job[p].shown}
      BY <1>0, <1>2 DEF Search, SearchFp, WorkOK, Job, Goto
    <3>2. pc'[p] \in {"swap", "claim", "core"}
      BY <1>0, <1>2 DEF Search, WorkOK, Goto
    <3> QED BY <3>1, <3>2 DEF Aim, Exchanging
  <2>3. Got \subseteq Got' /\ Accounted \subseteq Accounted'
    <3>1. Got \subseteq Got' /\ dropped \subseteq dropped'
      BY <1>0, <1>2, AddTyped DEF Search, Got, DataOK
    <3>2. InHand(p) \cup (htlcs \ htlcs') \cup (fps \ fps') \cup (offline \ offline') \subseteq Accounted'
      BY <1>0, <1>2 DEF Search, InHand, Begin
    <3> QED BY <1>0, <2>1, <3>1, <3>2, AccountedStays
  <2>4. Stands(p)'
    BY <1>0, <1>2, <2>3 DEF Search, Stands, WorkOK, Job, Goto, End, Begin, NextMint
  <2> QED BY <1>0, <2>1, <2>2, <2>3, <2>4, LossKept
<1>3. CASE SwapHtlcs(p)
  <2>1. OnlyMoves(p) /\ UNCHANGED home
    BY <1>0, <1>3 DEF SwapHtlcs, OnlyMoves, WorkOK, Goto, End, Begin, NextMint
  <2>2. Aim(pc'[p], job'[p])
    BY <1>0, <1>3 DEF SwapHtlcs, Aim, Exchanging, WorkOK, Job, NoJob, Goto, End, Begin, NextMint
  <2>3. Got \subseteq Got' /\ Accounted \subseteq Accounted'
    <3>1. Got \subseteq Got' /\ dropped \subseteq dropped'
      BY <1>0, <1>3, AddTyped DEF SwapHtlcs, Got, DataOK
    <3>2. InHand(p) \cup (htlcs \ htlcs') \cup (fps \ fps') \cup (offline \ offline') \subseteq Accounted'
      BY <1>0, <1>3 DEF SwapHtlcs, InHand, Begin
    <3> QED BY <1>0, <2>1, <3>1, <3>2, AccountedStays
  <2>4. Stands(p)'
    BY <1>0, <1>3, <2>3 DEF SwapHtlcs, Stands, WorkOK, Job, Goto, End, Begin, NextMint
  <2> QED BY <1>0, <2>1, <2>2, <2>3, <2>4, LossKept
<1>4. CASE BankHtlcs(p)
  <2>1. OnlyMoves(p) /\ UNCHANGED home
    BY <1>0, <1>4 DEF BankHtlcs, OnlyMoves, WorkOK, Goto, End, Begin, NextMint
  <2>2. Aim(pc'[p], job'[p])
    BY <1>0, <1>4 DEF BankHtlcs, Aim, Exchanging, WorkOK, Job, NoJob, Goto, End, Begin, NextMint
  <2>3. Got \subseteq Got' /\ Accounted \subseteq Accounted'
    <3>1. Got \subseteq Got' /\ dropped \subseteq dropped'
      BY <1>0, <1>4, AddTyped DEF BankHtlcs, Got, DataOK
    <3>2. InHand(p) \cup (htlcs \ htlcs') \cup (fps \ fps') \cup (offline \ offline') \subseteq Accounted'
      <4>1. \A y \in InHand(p) : y \in Proof /\ banked'[y] > 0
        BY <1>0, <1>4, AddTyped DEF BankHtlcs, InHand, DataOK, WorkOK, Job
      <4> QED BY <1>4, <4>1 DEF BankHtlcs, Accounted, Held
    <3> QED BY <1>0, <2>1, <3>1, <3>2, AccountedStays
  <2>4. Stands(p)'
    <3>1. pc'[p] = "remove" /\ job'[p].hand = job[p].hand /\ job[p].hand \subseteq Proof
      BY <1>0, <1>4 DEF BankHtlcs, WorkOK, Job, Goto
    <3>2. \A y \in job[p].hand : banked'[y] > 0
      BY <1>0, <1>4, <3>1, AddTyped DEF BankHtlcs, DataOK
    <3> QED BY <1>0, <3>1, <3>2 DEF Stands, Got
  <2> QED BY <1>0, <2>1, <2>2, <2>3, <2>4, LossKept
<1>5. CASE RemoveHtlc(p)
  <2>1. OnlyMoves(p) /\ UNCHANGED home
    BY <1>0, <1>5 DEF RemoveHtlc, OnlyMoves, WorkOK, Goto, End, Begin, NextMint
  <2>2. Aim(pc'[p], job'[p])
    BY <1>0, <1>5 DEF RemoveHtlc, Aim, Exchanging, WorkOK, Job, NoJob, Goto, End, Begin, NextMint
  <2>3. Got \subseteq Got' /\ Accounted \subseteq Accounted'
    <3>1. Got \subseteq Got' /\ dropped \subseteq dropped'
      BY <1>0, <1>5, AddTyped DEF RemoveHtlc, Got, DataOK
    <3>2. InHand(p) \cup (htlcs \ htlcs') \cup (fps \ fps') \cup (offline \ offline') \subseteq Accounted'
      <4>1. \A y \in htlcs \ htlcs' : y \in Got'
        BY <1>0, <1>5, <3>1 DEF RemoveHtlc, Stands
      <4> QED BY <1>5, <4>1 DEF RemoveHtlc, InHand, Accounted, Held, Got
    <3> QED BY <1>0, <2>1, <3>1, <3>2, AccountedStays
  <2>4. Stands(p)'
    BY <1>0, <1>5, <2>3 DEF RemoveHtlc, Stands, WorkOK, Job, Goto, End, Begin, NextMint
  <2> QED BY <1>0, <2>1, <2>2, <2>3, <2>4, LossKept
<1>6. CASE ClaimFp(p)
  <2>1. OnlyMoves(p) /\ UNCHANGED home
    BY <1>0, <1>6 DEF ClaimFp, OnlyMoves, WorkOK, Goto, End, Begin, NextMint
  <2>2. Aim(pc'[p], job'[p])
    BY <1>0, <1>6 DEF ClaimFp, Aim, Exchanging, WorkOK, Job, NoJob, Goto, End, Begin, NextMint
  <2>3. Got \subseteq Got' /\ Accounted \subseteq Accounted'
    <3>1. Got \subseteq Got' /\ dropped \subseteq dropped'
      BY <1>0, <1>6, AddTyped DEF ClaimFp, Got, DataOK
    <3>2. InHand(p) \cup (htlcs \ htlcs') \cup (fps \ fps') \cup (offline \ offline') \subseteq Accounted'
      <4>1. pc'[p] = "keep" /\ job'[p].hand = job[p].todo /\ UNCHANGED banked
        BY <1>0, <1>6 DEF ClaimFp, WorkOK, Job, Goto
      <4>2. \A y \in job[p].todo : y \in Held'
        <5>1. \A y \in job[p].todo : y \in Proof /\ (banked[y] > 0 \/ banked[y] = 0)
          BY <1>0 DEF DataOK, WorkOK, Job
        <5>2. \A y \in job[p].todo : y \in Got' \/ y \in InHand(p)'
          BY <4>1, <5>1 DEF Got, InHand
        <5> QED BY <1>0, <5>2, HeldParts
      <4> QED BY <1>6, <4>2 DEF ClaimFp, InHand, Accounted
    <3> QED BY <1>0, <2>1, <3>1, <3>2, AccountedStays
  <2>4. Stands(p)'
    BY <1>0, <1>6, <2>3 DEF ClaimFp, Stands, WorkOK, Job, Goto, End, Begin, NextMint
  <2> QED BY <1>0, <2>1, <2>2, <2>3, <2>4, LossKept
<1>7. CASE StoreProof(p)
  <2>1. OnlyMoves(p) /\ UNCHANGED home
    BY <1>0, <1>7 DEF StoreProof, OnlyMoves, WorkOK, Goto, End, Begin, NextMint
  <2>2. Aim(pc'[p], job'[p])
    BY <1>0, <1>7 DEF StoreProof, Aim, Exchanging, WorkOK, Job, NoJob, Goto, End, Begin, NextMint
  <2>3. Got \subseteq Got' /\ Accounted \subseteq Accounted'
    <3>1. Got \subseteq Got' /\ dropped \subseteq dropped'
      BY <1>0, <1>7, AddTyped DEF StoreProof, Got, DataOK
    <3>2. InHand(p) \cup (htlcs \ htlcs') \cup (fps \ fps') \cup (offline \ offline') \subseteq Accounted'
      <4>1. job[p].hand \subseteq offline'
        BY <1>0, <1>7 DEF StoreProof, Aim
      <4> QED BY <1>7, <4>1 DEF StoreProof, InHand, Accounted
    <3> QED BY <1>0, <2>1, <3>1, <3>2, AccountedStays
  <2>4. Stands(p)'
    BY <1>0, <1>7, <2>3 DEF StoreProof, Stands, WorkOK, Job, Goto, End, Begin, NextMint
  <2> QED BY <1>0, <2>1, <2>2, <2>3, <2>4, LossKept
<1>8. CASE CoreSwap(p)
  <2>1. OnlyMoves(p) /\ UNCHANGED home
    BY <1>0, <1>8 DEF CoreSwap, OnlyMoves, WorkOK, Goto, End, Begin, NextMint
  <2>2. Aim(pc'[p], job'[p])
    BY <1>0, <1>8 DEF CoreSwap, Aim, Exchanging, WorkOK, Job, NoJob, Goto, End, Begin, NextMint
  <2>3. Got \subseteq Got' /\ Accounted \subseteq Accounted'
    <3>1. Got \subseteq Got' /\ dropped \subseteq dropped'
      BY <1>0, <1>8, AddTyped DEF CoreSwap, Got, DataOK
    <3>2. InHand(p) \cup (htlcs \ htlcs') \cup (fps \ fps') \cup (offline \ offline') \subseteq Accounted'
      BY <1>0, <1>8 DEF CoreSwap, InHand, Begin
    <3> QED BY <1>0, <2>1, <3>1, <3>2, AccountedStays
  <2>4. Stands(p)'
    BY <1>0, <1>8, <2>3 DEF CoreSwap, Stands, WorkOK, Job, Goto, End, Begin, NextMint
  <2> QED BY <1>0, <2>1, <2>2, <2>3, <2>4, LossKept
<1> QED BY <1>1, <1>2, <1>3, <1>4, <1>5, <1>6, <1>7, <1>8 DEF Redeem

LEMMA SettleLoss ==
    ASSUME KeysInv, BankInv, LossInv, "all" \notin Removals, Settle \/ SettleSkip
    PROVE  LossInv'
<1> USE DEF repo, core, clowder, locktimes, abroad, faults
<1>0. /\ Settler \in Agent /\ job[Settler] \in Job /\ WorkOK /\ DataOK /\ DataOK'
      /\ Aim(pc[Settler], job[Settler]) /\ Stands(Settler) /\ LossInv
  BY KeysNext, ParameterAssumption DEF Agent, KeysInv, WorkOK, LossInv, Next
<1>1. CASE SettleStart
  <2>1. OnlyMoves(Settler) /\ UNCHANGED home
    BY <1>0, <1>1 DEF SettleStart, OnlyMoves, WorkOK, Goto, End, Begin, NextMint
  <2>2. Aim(pc'[Settler], job'[Settler])
    BY <1>0, <1>1 DEF SettleStart, Aim, Exchanging, WorkOK, Job, NoJob, Goto, End, Begin, NextMint
  <2>3. Got \subseteq Got' /\ Accounted \subseteq Accounted'
    <3>1. Got \subseteq Got' /\ dropped \subseteq dropped'
      BY <1>0, <1>1, AddTyped DEF SettleStart, Got, DataOK
    <3>2. InHand(Settler) \cup (htlcs \ htlcs') \cup (fps \ fps') \cup (offline \ offline') \subseteq Accounted'
      BY <1>0, <1>1 DEF SettleStart, InHand, Begin
    <3> QED BY <1>0, <2>1, <3>1, <3>2, AccountedStays
  <2>4. Stands(Settler)'
    BY <1>0, <1>1, <2>3 DEF SettleStart, Stands, WorkOK, Job, Goto, End, Begin, NextMint
  <2> QED BY <1>0, <2>1, <2>2, <2>3, <2>4, LossKept
<1>2. CASE LoadProofs
  <2>1. OnlyMoves(Settler) /\ UNCHANGED home
    BY <1>0, <1>2 DEF LoadProofs, OnlyMoves, WorkOK, Goto, End, Begin, NextMint
  <2>2. Aim(pc'[Settler], job'[Settler])
    BY <1>0, <1>2 DEF LoadProofs, Aim, Exchanging, WorkOK, Job, NoJob, Goto, End, Begin, NextMint
  <2>3. Got \subseteq Got' /\ Accounted \subseteq Accounted'
    <3>1. Got \subseteq Got' /\ dropped \subseteq dropped'
      BY <1>0, <1>2, AddTyped DEF LoadProofs, Got, DataOK
    <3>2. InHand(Settler) \cup (htlcs \ htlcs') \cup (fps \ fps') \cup (offline \ offline') \subseteq Accounted'
      BY <1>0, <1>2 DEF LoadProofs, InHand, Begin
    <3> QED BY <1>0, <2>1, <3>1, <3>2, AccountedStays
  <2>4. Stands(Settler)'
    BY <1>0, <1>2, <2>3 DEF LoadProofs, Stands, WorkOK, Job, Goto, End, Begin, NextMint
  <2> QED BY <1>0, <2>1, <2>2, <2>3, <2>4, LossKept
<1>3. CASE SettleSwap
  <2>1. OnlyMoves(Settler) /\ UNCHANGED home
    BY <1>0, <1>3 DEF SettleSwap, OnlyMoves, WorkOK, Goto, End, Begin, NextMint
  <2>2. Aim(pc'[Settler], job'[Settler])
    BY <1>0, <1>3 DEF SettleSwap, Aim, Exchanging, WorkOK, Job, NoJob, Goto, End, Begin, NextMint
  <2>3. Got \subseteq Got' /\ Accounted \subseteq Accounted'
    <3>1. Got \subseteq Got' /\ dropped \subseteq dropped'
      BY <1>0, <1>3, AddTyped DEF SettleSwap, Got, DataOK
    <3>2. InHand(Settler) \cup (htlcs \ htlcs') \cup (fps \ fps') \cup (offline \ offline') \subseteq Accounted'
      BY <1>0, <1>3 DEF SettleSwap, InHand, Begin
    <3> QED BY <1>0, <2>1, <3>1, <3>2, AccountedStays
  <2>4. Stands(Settler)'
    BY <1>0, <1>3, <2>3 DEF SettleSwap, Stands, WorkOK, Job, Goto, End, Begin, NextMint
  <2> QED BY <1>0, <2>1, <2>2, <2>3, <2>4, LossKept
<1>4. CASE BankSettled
  <2>1. OnlyMoves(Settler) /\ UNCHANGED home
    BY <1>0, <1>4 DEF BankSettled, OnlyMoves, WorkOK, Goto, End, Begin, NextMint
  <2>2. Aim(pc'[Settler], job'[Settler])
    BY <1>0, <1>4 DEF BankSettled, Aim, Exchanging, WorkOK, Job, NoJob, Goto, End, Begin, NextMint
  <2>3. Got \subseteq Got' /\ Accounted \subseteq Accounted'
    <3>1. Got \subseteq Got' /\ dropped \subseteq dropped'
      BY <1>0, <1>4, AddTyped DEF BankSettled, Got, DataOK
    <3>2. InHand(Settler) \cup (htlcs \ htlcs') \cup (fps \ fps') \cup (offline \ offline') \subseteq Accounted'
      <4>1. \A y \in InHand(Settler) : y \in Proof /\ banked'[y] > 0
        BY <1>0, <1>4, AddTyped DEF BankSettled, InHand, DataOK, WorkOK, Job
      <4> QED BY <1>4, <4>1 DEF BankSettled, Accounted, Held
    <3> QED BY <1>0, <2>1, <3>1, <3>2, AccountedStays
  <2>4. Stands(Settler)'
    <3>1. /\ pc'[Settler] = "remove" /\ job'[Settler].inputs = job[Settler].hand
          /\ job[Settler].hand \subseteq Proof
      BY <1>0, <1>4 DEF BankSettled, Stands, WorkOK, Job, Goto
    <3>2. \A y \in job[Settler].hand : banked'[y] > 0
      BY <1>0, <1>4, <3>1, AddTyped DEF BankSettled, DataOK
    <3> QED BY <3>1, <3>2 DEF Stands, Got
  <2> QED BY <1>0, <2>1, <2>2, <2>3, <2>4, LossKept
<1>5. CASE RemoveSettled
  <2>1. OnlyMoves(Settler) /\ UNCHANGED home
    BY <1>0, <1>5 DEF RemoveSettled, OnlyMoves, WorkOK, Goto, End, Begin, NextMint
  <2>2. Aim(pc'[Settler], job'[Settler])
    BY <1>0, <1>5 DEF RemoveSettled, Aim, Exchanging, WorkOK, Job, NoJob, Goto, End, Begin, NextMint
  <2>3. Got \subseteq Got' /\ Accounted \subseteq Accounted'
    <3>1. Got \subseteq Got' /\ dropped \subseteq dropped'
      BY <1>0, <1>5, AddTyped DEF RemoveSettled, Got, DataOK
    <3>2. InHand(Settler) \cup (htlcs \ htlcs') \cup (fps \ fps') \cup (offline \ offline') \subseteq Accounted'
      <4>1. \A y \in offline \ offline' : y \in Got'
        BY <1>0, <1>5, <3>1, ParameterAssumption DEF RemoveSettled, Stands, Left
      <4> QED BY <1>5, <4>1 DEF RemoveSettled, InHand, Accounted, Held, Got
    <3> QED BY <1>0, <2>1, <3>1, <3>2, AccountedStays
  <2>4. Stands(Settler)'
    BY <1>0, <1>5, <2>3 DEF RemoveSettled, Stands, WorkOK, Job, Goto, End, Begin, NextMint
  <2> QED BY <1>0, <2>1, <2>2, <2>3, <2>4, LossKept
<1>6. CASE SettleDone
  <2>1. OnlyMoves(Settler) /\ UNCHANGED home
    BY <1>0, <1>6 DEF SettleDone, OnlyMoves, WorkOK, Goto, End, Begin, NextMint
  <2>2. Aim(pc'[Settler], job'[Settler])
    BY <1>0, <1>6 DEF SettleDone, Aim, Exchanging, WorkOK, Job, NoJob, Goto, End, Begin, NextMint
  <2>3. Got \subseteq Got' /\ Accounted \subseteq Accounted'
    <3>1. Got \subseteq Got' /\ dropped \subseteq dropped'
      BY <1>0, <1>6, AddTyped DEF SettleDone, Got, DataOK
    <3>2. InHand(Settler) \cup (htlcs \ htlcs') \cup (fps \ fps') \cup (offline \ offline') \subseteq Accounted'
      BY <1>0, <1>6 DEF SettleDone, InHand, Begin
    <3> QED BY <1>0, <2>1, <3>1, <3>2, AccountedStays
  <2>4. Stands(Settler)'
    BY <1>0, <1>6, <2>3 DEF SettleDone, Stands, WorkOK, Job, Goto, End, Begin, NextMint
  <2> QED BY <1>0, <2>1, <2>2, <2>3, <2>4, LossKept
<1>7. CASE SettleSkip
  <2>1. OnlyMoves(Settler) /\ UNCHANGED home
    BY <1>0, <1>7 DEF SettleSkip, OnlyMoves, WorkOK, Goto, End, Begin, NextMint
  <2>2. Aim(pc'[Settler], job'[Settler])
    BY <1>0, <1>7 DEF SettleSkip, Aim, Exchanging, WorkOK, Job, NoJob, Goto, End, Begin, NextMint
  <2>3. Got \subseteq Got' /\ Accounted \subseteq Accounted'
    <3>1. Got \subseteq Got' /\ dropped \subseteq dropped'
      BY <1>0, <1>7, AddTyped DEF SettleSkip, Got, DataOK
    <3>2. InHand(Settler) \cup (htlcs \ htlcs') \cup (fps \ fps') \cup (offline \ offline') \subseteq Accounted'
      BY <1>0, <1>7 DEF SettleSkip, InHand, Begin
    <3> QED BY <1>0, <2>1, <3>1, <3>2, AccountedStays
  <2>4. Stands(Settler)'
    BY <1>0, <1>7, <2>3 DEF SettleSkip, Stands, WorkOK, Job, Goto, End, Begin, NextMint
  <2> QED BY <1>0, <2>1, <2>2, <2>3, <2>4, LossKept
<1> QED BY <1>1, <1>2, <1>3, <1>4, <1>5, <1>6, <1>7 DEF Settle

LEMMA FaultLoss ==
    ASSUME KeysInv, BankInv, LossInv, NEW a \in Agent, Fail(a) \/ SwapUnheard(a)
    PROVE  LossInv'
<1> USE DEF repo, core, clowder, locktimes, abroad, faults
<1>0. /\ job[a] \in Job /\ WorkOK /\ DataOK /\ DataOK' /\ LossInv
  BY KeysNext DEF KeysInv, WorkOK, Next
<1>1. /\ OnlyMoves(a) /\ pc'[a] \in {"idle", "mint"}
      /\ UNCHANGED <<home, banked, htlcs, fps, offline>> /\ dropped \cup InHand(a) \subseteq dropped'
  <2>1. CASE Fail(a)
    BY <1>0, <2>1 DEF Fail, OnlyMoves, WorkOK, End, Goto
  <2>2. CASE SwapUnheard(a)
    BY <1>0, <2>2 DEF SwapUnheard, InHand, OnlyMoves, WorkOK, End, Goto, NextMint
  <2> QED BY <2>1, <2>2
<1>2. Got \subseteq Got'
  BY <1>1 DEF Got
<1>3. InHand(a) \subseteq Accounted'
  BY <1>1, HeldParts DEF Accounted
<1>4. Accounted \subseteq Accounted'
  BY <1>0, <1>1, <1>2, <1>3, AccountedStays
<1>5. Aim(pc'[a], job'[a]) /\ Stands(a)'
  BY <1>1 DEF Aim, Exchanging, Stands
<1> QED BY <1>0, <1>1, <1>2, <1>4, <1>5, LossKept

LEMMA LossNext == KeysInv /\ BankInv /\ LossInv /\ "all" \notin Removals /\ [Next]_vars => LossInv'
<1> SUFFICES ASSUME KeysInv, BankInv, LossInv, "all" \notin Removals, [Next]_vars PROVE LossInv'
  OBVIOUS
<1> USE DEF repo, core, clowder, locktimes, abroad, faults
<1>0. WorkOK /\ DataOK /\ DataOK' /\ Settler \in Agent
  BY KeysNext DEF KeysInv, Agent
<1>1. CASE \E p \in Proc : Exchange(p) \/ Redeem(p)
  BY <1>1, ExchangeLoss, RedeemLoss
<1>2. CASE Settle \/ SettleSkip
  BY <1>2, SettleLoss
<1>3. CASE \E a \in Agent : Fail(a) \/ SwapUnheard(a)
  BY <1>3, FaultLoss
<1>4. CASE BankUnheard
  <2>1. /\ UNCHANGED <<pc, job, home, dropped, htlcs, fps, offline>>
        /\ banked' = Add(banked, job[Settler].hand) /\ pc[Settler] = "bank"
    BY <1>4 DEF BankUnheard
  <2>2. Got \subseteq Got'
    BY <1>0, <2>1, AddTyped DEF Got, DataOK
  <2>3. \A y \in InHand(Settler) : y \in Got'
    BY <1>0, <2>1, AddTyped DEF InHand, Got, DataOK, WorkOK, Job
  <2>4. OnlyMoves(Settler)
    BY <2>1 DEF OnlyMoves
  <2>5. InHand(Settler) \cup (htlcs \ htlcs') \cup (fps \ fps') \cup (offline \ offline') \subseteq Accounted'
    BY <2>1, <2>3, HeldParts DEF Accounted
  <2>6. Accounted \subseteq Accounted'
    BY <1>0, <2>1, <2>2, <2>4, <2>5, AccountedStays
  <2>7. Aim(pc'[Settler], job'[Settler]) /\ Stands(Settler)'
    BY <1>0, <2>1 DEF LossInv, Stands
  <2> QED BY <1>0, <2>1, <2>2, <2>4, <2>6, <2>7, LossKept
<1>5. CASE Crash
  <2>1. /\ \A a \in Agent : pc'[a] = "idle" /\ InHand(a) \subseteq dropped'
        /\ dropped \subseteq dropped' /\ UNCHANGED <<home, banked, htlcs, fps, offline>>
    BY <1>5 DEF Crash
  <2>2. Got' = Got
    BY <2>1 DEF Got
  <2>3. Held \subseteq Held'
    <3>1. \A y \in Held : y \in Got \/ y \in dropped \/ \E a \in Agent : y \in InHand(a)
      BY DEF Held, Got
    <3> QED BY <2>1, <2>2, <3>1, HeldParts
  <2>4. Accounted \subseteq Accounted'
    BY <2>1, <2>3 DEF Accounted
  <2>5. \A a \in Agent : Aim(pc'[a], job'[a]) /\ Stands(a)'
    BY <2>1 DEF Aim, Exchanging, Stands
  <2> QED BY <2>1, <2>4, <2>5 DEF LossInv
<1>6. CASE World \/ UNCHANGED vars
  <2>1. UNCHANGED <<pc, job, home, dropped, banked, htlcs, fps, offline>>
    BY <1>6 DEF World, Outage, Return, Lapse, Refund, vars
  <2>2. Accounted' = Accounted /\ Got' = Got
    BY <2>1 DEF Accounted, Held, Got, InHand
  <2> QED BY <2>1, <2>2 DEF LossInv, Stands
<1> QED BY <1>1, <1>2, <1>3, <1>4, <1>5, <1>6 DEF Next, World

\* No interleaving of exchanges, redemptions and rounds of the routine, and no outage, failure
\* or restart, loses foreign eCash but what a failure takes out of a handler's hand, given that
\* remove_proofs deletes what it is told to or nothing.
THEOREM ForeignKept ==
    ASSUME "all" \notin Removals
    PROVE  Spec => []NothingIsLost
<1>1. BankInv /\ KeysInv => spent \subseteq Held
  <2> SUFFICES ASSUME BankInv, KeysInv, NEW y \in spent PROVE y \in Held
    OBVIOUS
  <2>1. y \in Proof /\ banked[y] \in Nat
    BY DEF KeysInv, DataOK
  <2>2. CASE \E a \in Agent : y \in AtBank(a) /\ banked[y] = 0
    <3>1. PICK a \in Agent : y \in InHand(a)
      BY <2>2 DEF AtBank, InHand
    <3> QED BY <3>1, HeldParts
  <2>3. CASE banked[y] > 0
    BY <2>1, <2>3, HeldParts DEF Got
  <2>4. CASE y \in dropped
    BY <2>4, HeldParts
  <2> QED BY <2>1, <2>2, <2>3, <2>4 DEF BankInv
<1>2. BankInv /\ KeysInv /\ LossInv => NothingIsLost
  BY <1>1 DEF LossInv, NothingIsLost, Accounted
<1>3. KeysInv /\ BankInv /\ LossInv /\ [Next]_vars => LossInv'
  BY LossNext
<1> QED BY <1>2, <1>3, LossInit, KeysInvariant, BankInvariant, PTL DEF Spec

-----------------------------------------------------------------------------
(* A foreign proof pays for one redemption that shows its secret.  A Token  *)
(* is recorded for one exchange for ever.  An Htlc can be exchanged again   *)
(* by a request that checked it before it was swapped, and inserts it after *)
(* its row was removed: the row is then of a spent proof, which no request  *)
(* can swap, so it stays, and what was got for it is not redeemed under its *)
(* secret.                                                                  *)

\* What this mint has taken.
Taken == Held \cup offline

\* What eCash is being issued for that its request alone may be issued.
Promised(p) ==
    IF pc[p] = "reply" THEN job[p].inputs
    ELSE IF pc[p] \in {"keyset", "announce", "create", "issue", "fps"} THEN job[p].inputs \cap Token
    ELSE {}

Pledged(y) == home[y] > 0 \/ \E p \in Proc : y \in Promised(p)

\* What a request swapped and has yet to remove, and what it has yet to swap.
Taking(p) == IF pc[p] \in {"bank", "remove"} THEN job[p].hand ELSE {}

Facing(p) == IF pc[p] \in {"swap", "bank", "remove"} THEN job[p].todo ELSE {}

\* The row of a spent proof that no request removes.
Stuck(y) == y \in htlcs \cap spent /\ \A p \in Proc : y \notin Taking(p)

Once(y) ==
    /\ home[y] \in {0, 1}
    /\ home[y] = 1 => \A p \in Proc : y \notin Promised(p)
    /\ \A p, q \in Proc : y \in Promised(p) /\ y \in Promised(q) => p = q

Pledges ==
    /\ \A y \in Htlc : Pledged(y) => y \in htlcs \cup spent
    /\ \A y \in Token : Pledged(y) => y \in recorded

Takings ==
    /\ \A p \in Proc : Taking(p) \subseteq htlcs \cap spent /\ Facing(p) \subseteq htlcs \cup spent
    /\ \A p, q \in Proc : p # q => Taking(p) \cap Taking(q) = {}

RowsInv == Pledges /\ Takings /\ \A y \in Proof : Once(y) \/ Stuck(y)

Redeeming == {"search", "swap", "bank", "remove", "claim", "keep", "core"}

\* A request that redeems coins at l, given what wallets got and what is taken.  A coin whose
\* secret it shows stands for a proof that is taken or that the request has yet to take, and
\* one that was got second only for one that it has yet to swap.
Earns(l, j, got, taken) ==
    \A c \in j.coins :
        /\ l \in Redeeming => c[1] \in Proof /\ c[2] \in 1..got[c[1]]
        /\ Shows(j, c) =>
             /\ l \in {"swap", "bank", "remove"} => c[1] \in j.todo \/ (c[1] \in taken /\ c[2] = 1)
             /\ l = "claim" => c[1] \in j.todo /\ c[2] = 1
             /\ l = "keep" => c[1] \in j.hand /\ c[2] = 1
             /\ l = "core" => c[1] \in taken /\ c[2] = 1

Kind(l, j) ==
    /\ l = "check" => j.inputs \subseteq Htlc
    /\ l = "fps" => j.inputs \subseteq Token

OnceInv ==
    /\ RowsInv
    /\ \A p \in Proc : Kind(pc[p], job[p]) /\ Earns(pc[p], job[p], home, Taken)

LEMMA OnceInit == Init => OnceInv
<1> SUFFICES ASSUME Init PROVE OnceInv
  OBVIOUS
<1>1. \A p \in Proc : /\ Promised(p) = {} /\ Taking(p) = {} /\ Facing(p) = {}
                      /\ Kind(pc[p], job[p]) /\ Earns(pc[p], job[p], home, Taken)
  BY DEF Init, Promised, Taking, Facing, Kind, Earns, Redeeming, Agent, NoJob
<1>2. \A y \in Proof : home[y] = 0
  BY DEF Init
<1>3. Htlc \subseteq Proof /\ Token \subseteq Proof
  BY DEF Proof
<1> QED BY <1>1, <1>2, <1>3 DEF OnceInv, RowsInv, Pledges, Pledged, Takings, Once

\* What is taken stays taken.
LEMMA TakenStays ==
    ASSUME NEW a \in Agent, OnlyMoves(a), Got \subseteq Got', dropped \subseteq dropped',
           WorkOK, DataOK, DataOK',
           InHand(a) \cup (offline \ offline') \subseteq Taken'
    PROVE  Taken \subseteq Taken'
<1>1. ASSUME NEW b \in Agent, b # a, NEW y \in InHand(b) PROVE y \in Held'
  <2>1. y \in job[b].hand /\ pc[b] \in {"bank", "keep"} /\ y \in Proof
    BY <1>1 DEF InHand, WorkOK, Job
  <2>2. pc'[b] = pc[b] /\ job'[b] = job[b]
    BY <1>1 DEF OnlyMoves
  <2>3. CASE banked'[y] = 0
    <3>1. y \in InHand(b)'
      BY <2>1, <2>2, <2>3 DEF InHand
    <3> QED BY <3>1, HeldParts
  <2>4. CASE banked'[y] # 0
    BY <2>1, <2>4, HeldParts DEF Got, DataOK
  <2> QED BY <2>3, <2>4
<1>2. Got \cup dropped \subseteq Held'
  BY HeldParts
<1>3. Held \subseteq Taken'
  BY <1>1, <1>2 DEF Held, Got, Taken
<1> QED BY <1>3 DEF Taken

LEMMA TakenGrows ==
    ASSUME KeysInv, BankInv, LossInv, "all" \notin Removals, [Next]_vars
    PROVE  Taken \subseteq Taken'
<1> USE DEF repo, core, clowder, locktimes, abroad, faults
<1>0. /\ WorkOK /\ DataOK /\ DataOK' /\ Settler \in Agent /\ Proc \subseteq Agent
      /\ Held' \subseteq Taken' /\ offline' \subseteq Taken'
      /\ \A a \in Agent : job[a] \in Job /\ job[a].hand \subseteq Proof
  BY KeysNext DEF KeysInv, Agent, Taken, WorkOK, Job
<1>1. ASSUME NEW a \in Agent, QuietStep(a), pc[a] # "keep", offline \subseteq offline'
      PROVE  Taken \subseteq Taken'
  <2>1. Got \subseteq Got' /\ dropped \subseteq dropped' /\ InHand(a) = {} /\ OnlyMoves(a)
    BY <1>1 DEF QuietStep, Got, InHand
  <2> QED BY <1>0, <1>1, <2>1, TakenStays
<1>2. ASSUME NEW a \in Agent, OnlyMoves(a), dropped \subseteq dropped', UNCHANGED offline,
             banked' = Add(banked, job[a].hand), pc[a] = "bank"
      PROVE  Taken \subseteq Taken'
  <2>1. Got \subseteq Got' /\ \A y \in InHand(a) : y \in Got'
    BY <1>0, <1>2, AddTyped DEF Got, InHand, DataOK
  <2> QED BY <1>0, <1>2, <2>1, HeldParts, TakenStays
<1>3. ASSUME NEW p \in Proc, Exchange(p) PROVE Taken \subseteq Taken'
  <2>1. QuietStep(p)
    BY <1>0, <1>3, RequestIsQuiet
  <2>2. pc[p] # "keep" /\ UNCHANGED offline
    BY <1>3 DEF Exchange, OnlineStart, CheckHtlcs, StoreHtlcs, OfflineStart, Accept, Record, StoreFp,
                FindKeyset, AnnounceKeyset, StoreKeyset, SignalOnline, SignalOffline, Reply, Begin
  <2> QED BY <1>0, <1>1, <2>1, <2>2
<1>4. ASSUME NEW p \in Proc, RedeemStart(p) \/ Search(p) \/ RemoveHtlc(p) \/ ClaimFp(p) \/ CoreSwap(p)
      PROVE  Taken \subseteq Taken'
  <2>1. QuietStep(p)
    BY <1>0, <1>4, RequestIsQuiet
  <2>2. pc[p] # "keep" /\ UNCHANGED offline
    BY <1>4 DEF RedeemStart, Search, RemoveHtlc, ClaimFp, CoreSwap, Begin
  <2> QED BY <1>0, <1>1, <2>1, <2>2
<1>5. ASSUME NEW p \in Proc, StoreProof(p) PROVE Taken \subseteq Taken'
  <2>1. QuietStep(p) /\ pc[p] = "keep" /\ Aim(pc[p], job[p])
    BY <1>0, <1>5, RequestIsQuiet DEF StoreProof, LossInv
  <2>2. offline \subseteq offline' /\ job[p].hand \subseteq offline'
    BY <1>5, <2>1 DEF StoreProof, Aim
  <2>3. Got \subseteq Got' /\ dropped \subseteq dropped' /\ InHand(p) \subseteq offline' /\ OnlyMoves(p)
    BY <2>1, <2>2 DEF QuietStep, Got, InHand
  <2> QED BY <1>0, <2>2, <2>3, TakenStays
<1>6. ASSUME NEW a \in Agent, pc[a] = "swap", OnlyMoves(a), UNCHANGED <<banked, offline>>, dropped \subseteq dropped'
      PROVE  Taken \subseteq Taken'
  <2>1. Got \subseteq Got' /\ InHand(a) = {}
    BY <1>6 DEF Got, InHand
  <2> QED BY <1>0, <1>6, <2>1, TakenStays
<1>7. ASSUME NEW p \in Proc, SwapHtlcs(p) PROVE Taken \subseteq Taken'
  <2>1. pc[p] = "swap" /\ OnlyMoves(p) /\ UNCHANGED <<banked, offline, dropped>>
    BY <1>0, <1>7 DEF SwapHtlcs, OnlyMoves, WorkOK, Goto, End
  <2> QED BY <1>0, <1>6, <2>1
<1>8. ASSUME NEW p \in Proc, BankHtlcs(p) PROVE Taken \subseteq Taken'
  <2>1. /\ OnlyMoves(p) /\ UNCHANGED <<offline, dropped>>
        /\ banked' = Add(banked, job[p].hand) /\ pc[p] = "bank"
    BY <1>0, <1>8 DEF BankHtlcs, OnlyMoves, WorkOK, Goto
  <2> QED BY <1>0, <1>2, <2>1
<1>9. CASE SettleStart \/ LoadProofs \/ SettleDone \/ SettleSkip
  <2>1. QuietStep(Settler)
    BY <1>0, <1>9, RoutineIsQuiet
  <2>2. pc[Settler] # "keep" /\ UNCHANGED offline
    BY <1>9 DEF SettleStart, LoadProofs, SettleDone, SettleSkip, Begin
  <2> QED BY <1>0, <1>1, <2>1, <2>2
<1>10. CASE SettleSwap
  <2>1. pc[Settler] = "swap" /\ OnlyMoves(Settler) /\ UNCHANGED <<banked, offline, dropped>>
    BY <1>0, <1>10 DEF SettleSwap, OnlyMoves, WorkOK, Goto, NextMint
  <2> QED BY <1>0, <1>6, <2>1
<1>11. CASE BankSettled \/ BankUnheard
  <2>1. /\ OnlyMoves(Settler) /\ UNCHANGED <<offline, dropped>>
        /\ banked' = Add(banked, job[Settler].hand) /\ pc[Settler] = "bank"
    BY <1>0, <1>11 DEF BankSettled, BankUnheard, OnlyMoves, WorkOK, Goto
  <2> QED BY <1>0, <1>2, <2>1
<1>12. CASE RemoveSettled
  <2>1. QuietStep(Settler)
    BY <1>0, <1>12, RoutineIsQuiet
  <2>2. pc[Settler] = "remove" /\ Stands(Settler)
    BY <1>0, <1>12 DEF RemoveSettled, LossInv
  <2>3. Got \subseteq Got' /\ dropped \subseteq dropped' /\ InHand(Settler) = {} /\ OnlyMoves(Settler)
    BY <2>1, <2>2 DEF QuietStep, Got, InHand
  <2>4. offline \ offline' \subseteq Got'
    BY <1>12, <2>2, <2>3, ParameterAssumption DEF RemoveSettled, Stands, Left
  <2> QED BY <1>0, <2>3, <2>4, HeldParts, TakenStays
<1>13. ASSUME NEW a \in Agent, Fail(a) \/ SwapUnheard(a) PROVE Taken \subseteq Taken'
  <2>1. OnlyMoves(a) /\ UNCHANGED <<banked, offline>> /\ dropped \cup InHand(a) \subseteq dropped'
    <3>1. CASE Fail(a)
      BY <1>0, <3>1 DEF Fail, OnlyMoves, WorkOK, End, Goto
    <3>2. CASE SwapUnheard(a)
      BY <1>0, <3>2 DEF SwapUnheard, InHand, OnlyMoves, WorkOK, End, Goto, NextMint
    <3> QED BY <1>13, <3>1, <3>2
  <2>2. Got \subseteq Got'
    BY <2>1 DEF Got
  <2> QED BY <1>0, <2>1, <2>2, HeldParts, TakenStays
<1>14. CASE Crash
  <2>1. /\ \A a \in Agent : InHand(a) \subseteq dropped'
        /\ dropped \subseteq dropped' /\ UNCHANGED <<banked, offline>>
    BY <1>14 DEF Crash
  <2>2. \A y \in Held : y \in Got \/ y \in dropped \/ \E a \in Agent : y \in InHand(a)
    BY DEF Held, Got
  <2>3. Got' = Got
    BY <2>1 DEF Got
  <2> QED BY <1>0, <2>1, <2>2, <2>3, HeldParts DEF Taken
<1>15. CASE World \/ UNCHANGED vars
  <2>1. UNCHANGED <<pc, job, dropped, banked, offline>>
    BY <1>15 DEF World, Outage, Return, Lapse, Refund, vars
  <2> QED BY <2>1 DEF Taken, Held, InHand
<1> QED BY <1>3, <1>4, <1>5, <1>7, <1>8, <1>9, <1>10, <1>11, <1>12, <1>13, <1>14, <1>15
        DEF Next, World, Redeem, Settle

\* Steps that remove no row, promise no more and take nothing.
LEMMA RowsFrame ==
    ASSUME RowsInv, home' = home, spent \subseteq spent', htlcs \subseteq htlcs', recorded \subseteq recorded',
           \A p \in Proc : /\ Promised(p)' \subseteq Promised(p) /\ Taking(p)' \subseteq Taking(p)
                           /\ Facing(p)' \subseteq Facing(p) \cup htlcs
    PROVE  RowsInv'
<1>1. \A y : Pledged(y)' => Pledged(y)
  BY DEF Pledged
<1>2. Pledges'
  BY <1>1 DEF RowsInv, Pledges
<1>3. Takings'
  BY DEF RowsInv, Takings
<1>4. \A y \in Proof : Stuck(y) => Stuck(y)'
  BY DEF Stuck
<1>5. \A y \in Proof : Once(y) => Once(y)'
  BY DEF Once
<1> QED BY <1>2, <1>3, <1>4, <1>5 DEF RowsInv

\* What others promised, took and face does not change by a step of one agent.
LEMMA OthersRows ==
    ASSUME NEW a \in Agent, OnlyMoves(a), NEW q \in Proc, q # a
    PROVE  /\ Promised(q)' = Promised(q) /\ Taking(q)' = Taking(q) /\ Facing(q)' = Facing(q)
           /\ pc'[q] = pc[q] /\ job'[q] = job[q]
BY DEF OnlyMoves, Promised, Taking, Facing, Agent

\* A request knows no less when more was got and taken.
LEMMA EarnsMore ==
    ASSUME NEW got \in [Proof -> Nat], NEW got2 \in [Proof -> Nat],
           \A y \in Proof : got[y] <= got2[y],
           NEW taken, NEW taken2, taken \subseteq taken2, NEW l, NEW j, Earns(l, j, got, taken)
    PROVE  Earns(l, j, got2, taken2)
BY DEF Earns

LEMMA OnceStep ==
    ASSUME OnceInv, DataOK, DataOK', RowsInv', Taken \subseteq Taken', \A y \in Proof : home[y] <= home'[y],
           NEW a \in Agent, OnlyMoves(a),
           a \in Proc => Kind(pc'[a], job'[a]) /\ Earns(pc'[a], job'[a], home', Taken')
    PROVE  OnceInv'
<1>1. ASSUME NEW q \in Proc PROVE Kind(pc'[q], job'[q]) /\ Earns(pc'[q], job'[q], home', Taken')
  <2>1. CASE q = a
    BY <2>1
  <2>2. CASE q # a
    <3>1. pc'[q] = pc[q] /\ job'[q] = job[q]
      BY <2>2, OthersRows
    <3>2. home \in [Proof -> Nat] /\ home' \in [Proof -> Nat]
      BY DEF DataOK
    <3>3. Earns(pc[q], job[q], home', Taken')
      BY <3>2, EarnsMore DEF OnceInv
    <3> QED BY <3>1, <3>3 DEF OnceInv
  <2> QED BY <2>1, <2>2
<1> QED BY <1>1 DEF OnceInv

\* The steps of an exchange that store no Htlc, record nothing and end with no reply.
Steady(p) ==
    \/ OnlineStart(p) \/ CheckHtlcs(p) \/ OfflineStart(p) \/ Accept(p)
    \/ StoreFp(p) \/ FindKeyset(p) \/ AnnounceKeyset(p) \/ StoreKeyset(p)
    \/ SignalOnline(p) \/ SignalOffline(p)

LEMMA SteadyRows ==
    ASSUME KeysInv, OnceInv, NEW p \in Proc, Steady(p)
    PROVE  /\ Promised(p)' \subseteq Promised(p) /\ Taking(p)' = {} /\ Facing(p)' = {}
           /\ Kind(pc'[p], job'[p]) /\ pc'[p] \notin Redeeming
           /\ UNCHANGED <<home, spent, htlcs, recorded, redeemed>>
<1> USE DEF repo, core, clowder, locktimes, abroad, faults, Promised, Taking, Facing, Kind, Redeeming, Goto, End, Begin, Steady
<1>0. /\ p \in Agent /\ pc \in [Agent -> PCs] /\ job \in [Agent -> Job] /\ job[p] \in Job
      /\ Kind(pc[p], job[p]) /\ Fits(pc[p], job[p]) /\ Htlc \cap Token = {}
  BY ParameterAssumption DEF Agent, KeysInv, WorkOK, OnceInv
<1>1. CASE OnlineStart(p)
  BY <1>0, <1>1 DEF OnlineStart, NoJob
<1>2. CASE CheckHtlcs(p)
  BY <1>0, <1>2 DEF CheckHtlcs
<1>3. CASE OfflineStart(p)
  BY <1>0, <1>3 DEF OfflineStart
<1>4. CASE Accept(p)
  BY <1>0, <1>4 DEF Accept
<1>5. CASE StoreFp(p)
  BY <1>0, <1>5 DEF StoreFp, Job
<1>6. CASE FindKeyset(p)
  BY <1>0, <1>6 DEF FindKeyset, Job
<1>7. CASE AnnounceKeyset(p)
  BY <1>0, <1>7 DEF AnnounceKeyset, Job
<1>8. CASE StoreKeyset(p)
  BY <1>0, <1>8 DEF StoreKeyset
<1>9. CASE SignalOnline(p)
  BY <1>0, <1>9 DEF SignalOnline
<1>10. CASE SignalOffline(p)
  BY <1>0, <1>10 DEF SignalOffline
<1> QED BY <1>1, <1>2, <1>3, <1>4, <1>5, <1>6, <1>7, <1>8, <1>9, <1>10

\* Nothing is asked of a request that redeems nothing.
LEMMA EarnsNothing ==
    ASSUME NEW l, l \notin Redeeming, NEW j, NEW got, NEW taken
    PROVE  Earns(l, j, got, taken)
BY DEF Earns, Redeeming

LEMMA OnceExchange ==
    ASSUME KeysInv, OnceInv, Taken \subseteq Taken', NEW p \in Proc, Exchange(p)
    PROVE  OnceInv'
<1> USE DEF repo, core, clowder, locktimes, abroad, faults
<1>0. /\ p \in Agent /\ WorkOK /\ DataOK /\ DataOK' /\ job[p] \in Job /\ job[p].inputs \subseteq Proof
      /\ RowsInv /\ Kind(pc[p], job[p]) /\ Fits(pc[p], job[p]) /\ Htlc \cap Token = {}
      /\ \A y \in Proof : home[y] <= home[y]
  BY KeysNext, ParameterAssumption DEF Agent, KeysInv, WorkOK, Job, OnceInv, Next, DataOK
<1>1. OnlyMoves(p) /\ spent' = spent
  BY <1>0, RequestIsQuiet DEF QuietStep
<1>2. ASSUME Promised(p)' \subseteq Promised(p), Taking(p)' = {}, Facing(p)' = {},
             Kind(pc'[p], job'[p]), pc'[p] \notin Redeeming, redeemed' = redeemed,
             home' = home, htlcs \subseteq htlcs', recorded' = recorded
      PROVE  OnceInv'
  <2>1. RowsInv'
    BY <1>0, <1>1, <1>2, OthersRows, RowsFrame
  <2> QED BY <1>0, <1>1, <1>2, <2>1, EarnsNothing, OnceStep
<1>3. CASE Steady(p)
  BY <1>0, <1>2, <1>3, SteadyRows
<1>4. ASSUME pc[p] # "idle", pc'[p] = "idle", redeemed' = redeemed, home' = home,
             htlcs' = htlcs, recorded' = recorded
      PROVE  OnceInv'
  <2>1. Promised(p)' = {} /\ Taking(p)' = {} /\ Facing(p)' = {}
        /\ Kind(pc'[p], job'[p]) /\ pc'[p] \notin Redeeming
    BY <1>4 DEF Promised, Taking, Facing, Kind, Redeeming
  <2> QED BY <1>2, <1>4, <2>1
<1>5. CASE StoreHtlcs(p)
  <2>1. CASE job[p].inputs \cap htlcs = {}
    <3> DEFINE new == job[p].inputs
    <3>1. /\ pc[p] = "htlc" /\ pc'[p] = "reply" /\ job'[p] = job[p] /\ htlcs' = htlcs \cup new
          /\ UNCHANGED <<home, recorded, redeemed>> /\ new \subseteq Htlc
      BY <1>0, <1>5, <2>1 DEF StoreHtlcs, Goto, WorkOK, Fits
    <3>2. /\ Promised(p)' = new /\ Taking(p)' = {} /\ Facing(p)' = {}
          /\ Promised(p) = {} /\ Taking(p) = {} /\ Facing(p) = {}
          /\ Kind(pc'[p], job'[p]) /\ pc'[p] \notin Redeeming
      BY <3>1 DEF Promised, Taking, Facing, Kind, Redeeming
    <3>3. \A q \in Proc : q # p =>
             Promised(q)' = Promised(q) /\ Taking(q)' = Taking(q) /\ Facing(q)' = Facing(q)
      BY <1>0, <1>1, OthersRows
    <3>4. Takings'
      BY <1>0, <1>1, <3>1, <3>2, <3>3 DEF RowsInv, Takings
    <3>5. \A y \in Proof : Pledged(y)' => Pledged(y) \/ y \in new
      BY <3>1, <3>2, <3>3 DEF Pledged
    <3>6. Pledges'
      BY <1>0, <1>1, <3>1, <3>5 DEF RowsInv, Pledges, Proof
    <3>7. ASSUME NEW y \in Proof PROVE Once(y)' \/ Stuck(y)'
      <4>1. CASE y \notin new
        <5>1. Once(y) => Once(y)'
          BY <3>1, <3>2, <3>3, <4>1 DEF Once
        <5>2. Stuck(y) => Stuck(y)'
          BY <1>1, <3>1, <3>2, <3>3 DEF Stuck
        <5> QED BY <1>0, <5>1, <5>2 DEF RowsInv
      <4>2. CASE y \in new /\ y \in spent
        <5>1. \A q \in Proc : y \notin Taking(q)
          BY <1>0, <2>1, <4>2 DEF RowsInv, Takings
        <5>2. \A q \in Proc : y \notin Taking(q)'
          BY <3>2, <3>3, <5>1
        <5> QED BY <1>1, <3>1, <4>2, <5>2 DEF Stuck
      <4>3. CASE y \in new /\ y \notin spent
        <5>1. ~Pledged(y) /\ home[y] \in Nat
          BY <1>0, <2>1, <3>1, <4>3 DEF RowsInv, Pledges, DataOK
        <5>2. home'[y] = 0 /\ \A q \in Proc : y \in Promised(q)' => q = p
          BY <3>1, <3>3, <5>1 DEF Pledged
        <5> QED BY <5>2 DEF Once
      <4> QED BY <4>1, <4>2, <4>3
    <3>8. RowsInv'
      BY <3>4, <3>6, <3>7 DEF RowsInv
    <3> QED BY <1>0, <1>1, <3>1, <3>2, <3>8, EarnsNothing, OnceStep
  <2>2. CASE job[p].inputs \cap htlcs # {}
    BY <1>0, <1>4, <1>5, <2>2 DEF StoreHtlcs, End, Goto, WorkOK
  <2> QED BY <2>1, <2>2
<1>6. CASE Record(p)
  <2>1. CASE job[p].inputs \cap recorded = {}
    <3> DEFINE new == job[p].inputs
    <3>1. /\ pc[p] = "record" /\ pc'[p] = "keyset" /\ job'[p] = job[p] /\ recorded' = recorded \cup new
          /\ UNCHANGED <<home, htlcs, redeemed>> /\ new \subseteq Token
      BY <1>0, <1>6, <2>1 DEF Record, Goto, WorkOK, Fits
    <3>2. /\ Promised(p)' = new /\ Taking(p)' = {} /\ Facing(p)' = {}
          /\ Promised(p) = {} /\ Taking(p) = {} /\ Facing(p) = {}
          /\ Kind(pc'[p], job'[p]) /\ pc'[p] \notin Redeeming
      BY <3>1 DEF Promised, Taking, Facing, Kind, Redeeming
    <3>3. \A q \in Proc : q # p =>
             Promised(q)' = Promised(q) /\ Taking(q)' = Taking(q) /\ Facing(q)' = Facing(q)
      BY <1>0, <1>1, OthersRows
    <3>4. Takings'
      BY <1>0, <1>1, <3>1, <3>2, <3>3 DEF RowsInv, Takings
    <3>5. \A y \in Proof : Pledged(y)' => Pledged(y) \/ y \in new
      BY <3>1, <3>2, <3>3 DEF Pledged
    <3>6. Pledges'
      BY <1>0, <1>1, <3>1, <3>5 DEF RowsInv, Pledges, Proof
    <3>7. ASSUME NEW y \in Proof PROVE Once(y)' \/ Stuck(y)'
      <4>1. CASE y \notin new
        <5>1. Once(y) => Once(y)'
          BY <3>1, <3>2, <3>3, <4>1 DEF Once
        <5>2. Stuck(y) => Stuck(y)'
          BY <1>1, <3>1, <3>2, <3>3 DEF Stuck
        <5> QED BY <1>0, <5>1, <5>2 DEF RowsInv
      <4>2. CASE y \in new
        <5>1. ~Pledged(y) /\ home[y] \in Nat
          BY <1>0, <2>1, <3>1, <4>2 DEF RowsInv, Pledges, DataOK
        <5>2. home'[y] = 0 /\ \A q \in Proc : y \in Promised(q)' => q = p
          BY <3>1, <3>3, <5>1 DEF Pledged
        <5> QED BY <5>2 DEF Once
      <4> QED BY <4>1, <4>2
    <3>8. RowsInv'
      BY <3>4, <3>6, <3>7 DEF RowsInv
    <3> QED BY <1>0, <1>1, <3>1, <3>2, <3>8, EarnsNothing, OnceStep
  <2>2. CASE job[p].inputs \cap recorded # {}
    BY <1>0, <1>4, <1>6, <2>2 DEF Record, End, Goto, WorkOK
  <2> QED BY <2>1, <2>2
<1>7. CASE Reply(p)
  <2> DEFINE new == job[p].inputs
  <2>1. /\ pc[p] = "reply" /\ pc'[p] = "idle" /\ home' = Add(home, new)
        /\ UNCHANGED <<htlcs, recorded, redeemed>>
    BY <1>0, <1>7 DEF Reply, End, Goto, WorkOK
  <2>2. /\ Promised(p)' = {} /\ Taking(p)' = {} /\ Facing(p)' = {}
        /\ Promised(p) = new /\ Taking(p) = {} /\ Facing(p) = {}
        /\ Kind(pc'[p], job'[p]) /\ pc'[p] \notin Redeeming
    BY <2>1 DEF Promised, Taking, Facing, Kind, Redeeming
  <2>3. \A q \in Proc : q # p =>
           Promised(q)' = Promised(q) /\ Taking(q)' = Taking(q) /\ Facing(q)' = Facing(q)
    BY <1>0, <1>1, OthersRows
  <2>4. /\ \A y \in new : home'[y] = home[y] + 1
        /\ \A y \in Proof \ new : home'[y] = home[y]
        /\ \A y \in Proof : home[y] \in Nat
    BY <1>0, <2>1, AddTyped DEF DataOK
  <2>5. Takings'
    BY <1>0, <1>1, <2>1, <2>2, <2>3 DEF RowsInv, Takings
  <2>6. \A y \in Proof : Pledged(y)' => Pledged(y)
    BY <2>2, <2>3, <2>4 DEF Pledged
  <2>7. Pledges'
    BY <1>0, <1>1, <2>1, <2>6 DEF RowsInv, Pledges, Proof
  <2>8. ASSUME NEW y \in Proof PROVE Once(y)' \/ Stuck(y)'
    <3>1. Stuck(y) => Stuck(y)'
      BY <1>1, <2>1, <2>2, <2>3 DEF Stuck
    <3>2. CASE Once(y) /\ y \in new
      <4>1. home[y] = 0 /\ \A q \in Proc : y \in Promised(q) => q = p
        BY <2>2, <3>2 DEF Once
      <4>2. home'[y] = 1 /\ \A q \in Proc : y \notin Promised(q)'
        BY <2>2, <2>3, <2>4, <3>2, <4>1
      <4> QED BY <4>2 DEF Once
    <3>3. CASE Once(y) /\ y \notin new
      BY <2>2, <2>3, <2>4, <3>3 DEF Once
    <3> QED BY <1>0, <3>1, <3>2, <3>3 DEF RowsInv
  <2>9. RowsInv'
    BY <2>5, <2>7, <2>8 DEF RowsInv
  <2>10. \A y \in Proof : home[y] <= home'[y]
    BY <2>4
  <2> QED BY <1>0, <1>1, <2>1, <2>2, <2>9, <2>10, EarnsNothing, OnceStep
<1> QED BY <1>3, <1>5, <1>6, <1>7 DEF Exchange, Steady

\* What the coins of a request say of the repositories.
LEMMA CoinFacts ==
    ASSUME KeysInv, BankInv, LossInv, RowsInv, NEW y \in Proof, home[y] > 0
    PROVE  /\ y \in Htlc => y \in htlcs \/ y \in Taken
           /\ y \in Token => y \in fps \/ y \in Taken
           /\ y \in Htlc /\ home[y] # 1 => y \in htlcs /\ y \in spent
           /\ y \in Token => home[y] = 1
<1>0. DataOK /\ Htlc \cap Token = {} /\ y \in Accounted
  BY ParameterAssumption DEF KeysInv, LossInv
<1>1. home[y] \in Nat /\ htlcs \subseteq Htlc /\ fps \subseteq Token /\ offline \subseteq Token
  BY <1>0 DEF DataOK
<1>2. y \in Htlc => y \in htlcs \/ y \in Taken
  BY <1>0, <1>1 DEF Accounted, Taken
<1>3. y \in Token => y \in fps \/ y \in Taken
  BY <1>0, <1>1 DEF Accounted, Taken
<1>4. home[y] = 1 \/ Stuck(y)
  BY <1>1 DEF RowsInv, Once
<1>5. Stuck(y) => y \in htlcs /\ y \in spent
  BY DEF Stuck
<1> QED BY <1>0, <1>1, <1>2, <1>3, <1>4, <1>5

\* A request finds the proof that its coins were got for, or else it is taken.
LEMMA SearchEarns ==
    ASSUME KeysInv, BankInv, LossInv, OnceInv, Taken \subseteq Taken', NEW p \in Proc, Search(p)
    PROVE  Earns(pc'[p], job'[p], home', Taken')
<1> DEFINE locked == SearchHtlc(job[p].shown)
           found == SearchFp(job[p].shown)
<1>0. /\ p \in Agent /\ WorkOK /\ DataOK /\ job[p] \in Job /\ RowsInv /\ pc[p] = "search"
      /\ Earns(pc[p], job[p], home, Taken)
      /\ Htlc \cap Token = {} /\ Secret \cap Token = {} /\ Lock \in [Htlc -> Secret]
      /\ htlcs \subseteq Htlc /\ fps \subseteq Token /\ home' = home
  BY ParameterAssumption DEF Search, Agent, KeysInv, WorkOK, DataOK, OnceInv, core
<1>1. /\ job'[p].coins = job[p].coins /\ job'[p].shown = job[p].shown
      /\ job'[p].todo = IF locked # {} THEN locked ELSE found
      /\ pc'[p] = IF locked # {} THEN "swap" ELSE IF found # {} THEN "claim" ELSE "core"
  <2>1. job'[p] = [job[p] EXCEPT !.todo = IF locked # {} THEN locked ELSE found]
    BY <1>0 DEF Search, WorkOK
  <2>2. /\ job'[p].coins = job[p].coins /\ job'[p].shown = job[p].shown
        /\ job'[p].todo = IF locked # {} THEN locked ELSE found
    BY <1>0, <2>1 DEF Job
  <2> QED BY <1>0, <2>2 DEF Search, Goto, WorkOK
<1>2. SUFFICES ASSUME NEW c \in job[p].coins
               PROVE  /\ c[1] \in Proof /\ c[2] \in 1..home[c[1]]
                      /\ Shows(job[p], c) =>
                           /\ locked # {} => c[1] \in locked \/ (c[1] \in Taken /\ c[2] = 1)
                           /\ locked = {} /\ found # {} => c[1] \in found /\ c[2] = 1
                           /\ locked = {} /\ found = {} => c[1] \in Taken /\ c[2] = 1
  <2>1. pc'[p] \in {"swap", "claim", "core"}
    BY <1>1
  <2> QED BY <1>0, <1>1, <2>1 DEF Earns, Shows
<1> DEFINE y == c[1]
<1>3. y \in Proof /\ c[2] \in 1..home[y] /\ home[y] \in Nat
  BY <1>0, <1>2 DEF Earns, Redeeming, DataOK
<1>4. home[y] > 0 /\ (home[y] = 1 => c[2] = 1)
  BY <1>3
<1>5. SUFFICES ASSUME job[p].shown = SecretOf(y)
               PROVE  /\ locked # {} => c[1] \in locked \/ (c[1] \in Taken /\ c[2] = 1)
                      /\ locked = {} /\ found # {} => c[1] \in found /\ c[2] = 1
                      /\ locked = {} /\ found = {} => c[1] \in Taken /\ c[2] = 1
  BY <1>3 DEF Shows
<1>6. CASE y \in Htlc
  <2>1. job[p].shown = Lock[y] /\ Lock[y] \in Secret
    BY <1>0, <1>5, <1>6 DEF SecretOf
  <2>2. found = {}
    BY <1>0, <2>1 DEF SearchFp
  <2>3. y \in htlcs => y \in locked
    BY <2>1 DEF SearchHtlc
  <2> QED BY <1>0, <1>3, <1>4, <1>6, <2>2, <2>3, CoinFacts
<1>7. CASE y \in Token
  <2>1. job[p].shown = y /\ y \notin Htlc
    BY <1>0, <1>5, <1>7 DEF SecretOf
  <2>2. locked = {}
    BY <1>0, <1>7, <2>1 DEF SearchHtlc
  <2>3. found = fps \cap {y}
    BY <2>1 DEF SearchFp
  <2> QED BY <1>0, <1>3, <1>4, <1>7, <2>2, <2>3, CoinFacts
<1> QED BY <1>3, <1>6, <1>7 DEF Proof

LEMMA OnceRedeem ==
    ASSUME KeysInv, BankInv, LossInv, OnceInv, Taken \subseteq Taken', NEW p \in Proc, Redeem(p)
    PROVE  OnceInv'
<1> USE DEF repo, core, clowder, locktimes, abroad, faults
<1>0. /\ p \in Agent /\ p # Settler /\ WorkOK /\ DataOK /\ DataOK' /\ job[p] \in Job
      /\ job[p].inputs \subseteq Proof /\ job[p].todo \subseteq Proof /\ job[p].hand \subseteq Proof
      /\ RowsInv /\ Earns(pc[p], job[p], home, Taken) /\ Stands(p)
      /\ \A y \in Proof : home[y] <= home[y]
  BY KeysNext, ParameterAssumption DEF Agent, KeysInv, WorkOK, Job, OnceInv, LossInv, Next, DataOK
<1>1. /\ OnlyMoves(p) /\ home' = home /\ recorded' = recorded
      /\ pc[p] \in Redeeming \cup {"idle"} /\ pc'[p] \in Redeeming \cup {"idle"}
      /\ Kind(pc'[p], job'[p]) /\ Promised(p)' = {}
      /\ (~CoreSwap(p) => redeemed' = redeemed)
  <2>1. /\ OnlyMoves(p) /\ home' = home /\ recorded' = recorded
        /\ (~CoreSwap(p) => redeemed' = redeemed)
        /\ pc[p] \in Redeeming \cup {"idle"} /\ pc'[p] \in Redeeming \cup {"idle"}
    BY <1>0 DEF Redeem, RedeemStart, Search, SwapHtlcs, BankHtlcs, RemoveHtlc, ClaimFp, StoreProof, CoreSwap,
                OnlyMoves, WorkOK, Goto, End, Begin, Redeeming
  <2> QED BY <2>1 DEF Redeeming, Promised, Kind
<1>2. ASSUME Taking(p)' \subseteq Taking(p), Facing(p)' \subseteq Facing(p) \cup htlcs,
             spent' = spent, htlcs' = htlcs, redeemed' = redeemed,
             Earns(pc'[p], job'[p], home', Taken')
      PROVE  OnceInv'
  <2>1. RowsInv'
    BY <1>0, <1>1, <1>2, OthersRows, RowsFrame
  <2> QED BY <1>0, <1>1, <1>2, <2>1, OnceStep
<1>3. CASE RedeemStart(p)
  <2>1. PICK C \in SUBSET UNION {CoinsOf(y) : y \in Proof}, s \in Secret \cup Token \cup {None} :
           /\ pc'[p] = IF s = None THEN "core" ELSE "search"
           /\ job'[p] = [NoJob EXCEPT !.coins = C, !.shown = s]
           /\ UNCHANGED <<spent, htlcs, redeemed>>
    BY <1>0, <1>3 DEF RedeemStart, Begin, Goto, WorkOK
  <2>2. Taking(p)' = {} /\ Facing(p)' = {} /\ job'[p].coins = C /\ job'[p].shown = s
    BY <2>1 DEF Taking, Facing, NoJob
  <2>3. \A c \in C : c[1] \in Proof /\ c[2] \in 1..home[c[1]]
    BY DEF CoinsOf
  <2>4. \A c \in C : s = None => ~Shows(job'[p], c)
    BY <2>2, <2>3, ParameterAssumption DEF Shows, SecretOf, Proof
  <2>5. Earns(pc'[p], job'[p], home', Taken')
    BY <1>1, <2>1, <2>2, <2>3, <2>4 DEF Earns
  <2> QED BY <1>2, <2>1, <2>2, <2>5
<1>4. CASE Search(p)
  <2>1. /\ pc'[p] \in {"swap", "claim", "core"} /\ UNCHANGED <<spent, htlcs, redeemed>>
        /\ (pc'[p] = "swap" => job'[p].todo \subseteq htlcs)
    BY <1>0, <1>4 DEF Search, Goto, WorkOK, Job, SearchHtlc
  <2>2. Taking(p)' = {} /\ Facing(p)' \subseteq htlcs
    BY <2>1 DEF Taking, Facing
  <2> QED BY <1>2, <1>4, <2>1, <2>2, SearchEarns
<1>5. ASSUME pc'[p] = "idle", UNCHANGED <<spent, htlcs, redeemed>>
      PROVE  OnceInv'
  <2>1. Taking(p)' = {} /\ Facing(p)' = {} /\ Earns(pc'[p], job'[p], home', Taken')
    BY <1>5, EarnsNothing DEF Taking, Facing, Redeeming
  <2> QED BY <1>2, <1>5, <2>1
<1>6. CASE SwapHtlcs(p)
  <2>1. pc[p] = "swap" /\ UNCHANGED <<htlcs, banked, redeemed>>
    BY <1>6 DEF SwapHtlcs
  <2>2. CASE Works(p, "idle", NoJob) /\ UNCHANGED spent
    <3>1. pc'[p] = "idle"
      BY <1>0, <2>2, Moved
    <3> QED BY <1>5, <2>1, <2>2, <3>1
  <2>3. ASSUME NEW S \in SUBSET job[p].todo, S \cap spent = {}, spent' = spent \cup S,
               Works(p, "bank", [job[p] EXCEPT !.todo = @ \ S, !.hand = S])
        PROVE  OnceInv'
    <3>1. /\ pc'[p] = "bank" /\ job'[p].todo = job[p].todo \ S /\ job'[p].hand = S
          /\ job'[p].coins = job[p].coins /\ job'[p].shown = job[p].shown
      <4> DEFINE j == [job[p] EXCEPT !.todo = @ \ S, !.hand = S]
      <4>1. pc'[p] = "bank" /\ job'[p] = j
        BY <1>0, <2>3, Moved
      <4>2. j.todo = job[p].todo \ S /\ j.hand = S /\ j.coins = job[p].coins /\ j.shown = job[p].shown
        BY <1>0 DEF Job
      <4> QED BY <4>1, <4>2
    <3>2. /\ Taking(p) = {} /\ Taking(p)' = S /\ Facing(p) = job[p].todo
          /\ Facing(p)' = job[p].todo \ S /\ Promised(p) = {}
      BY <2>1, <3>1 DEF Taking, Facing, Promised
    <3>3. \A q \in Proc : q # p =>
             Promised(q)' = Promised(q) /\ Taking(q)' = Taking(q) /\ Facing(q)' = Facing(q)
      BY <1>0, <1>1, OthersRows
    <3>4. S \subseteq htlcs /\ \A q \in Proc : Taking(q) \cap S = {}
      BY <1>0, <2>3, <3>2 DEF RowsInv, Takings
    <3>5. Takings'
      BY <1>0, <2>1, <2>3, <3>2, <3>3, <3>4 DEF RowsInv, Takings
    <3>6. \A y \in Proof : Pledged(y)' => Pledged(y)
      BY <1>1, <3>2, <3>3 DEF Pledged
    <3>7. Pledges'
      BY <1>0, <1>1, <2>1, <2>3, <3>6 DEF RowsInv, Pledges, Proof
    <3>8. ASSUME NEW y \in Proof PROVE Once(y)' \/ Stuck(y)'
      <4>1. Once(y) => Once(y)'
        BY <1>1, <3>2, <3>3 DEF Once
      <4>2. Stuck(y) => Stuck(y)'
        BY <2>1, <2>3, <3>2, <3>3 DEF Stuck
      <4> QED BY <1>0, <4>1, <4>2 DEF RowsInv
    <3>9. RowsInv'
      BY <3>5, <3>7, <3>8 DEF RowsInv
    <3>10. \A y \in S : y \in Taken'
      <4>1. \A y \in S : y \in Proof /\ (banked'[y] > 0 \/ banked'[y] = 0)
        BY <1>0, <2>3 DEF DataOK
      <4>2. \A y \in S : y \in Got' \/ y \in InHand(p)'
        BY <3>1, <4>1 DEF Got, InHand
      <4> QED BY <1>0, <4>2, HeldParts DEF Taken
    <3>11. ASSUME NEW c \in job[p].coins
           PROVE  /\ c[1] \in Proof /\ c[2] \in 1..home[c[1]]
                  /\ Shows(job[p], c) => c[1] \in job[p].todo \ S \/ (c[1] \in Taken' /\ c[2] = 1)
      <4>1. /\ c[1] \in Proof /\ c[2] \in 1..home[c[1]] /\ home[c[1]] \in Nat
            /\ Shows(job[p], c) => c[1] \in job[p].todo \/ (c[1] \in Taken /\ c[2] = 1)
        BY <1>0, <2>1, <3>11 DEF Earns, Redeeming, DataOK
      <4>2. CASE c[1] \in S
        <5>1. home[c[1]] = 1
          <6>1. c[1] \in Htlc /\ home[c[1]] > 0 /\ c[1] \notin spent
            BY <1>0, <2>3, <3>4, <4>1, <4>2 DEF DataOK
          <6> QED BY <1>0, <4>1, <6>1, CoinFacts
        <5> QED BY <3>10, <4>1, <4>2, <5>1
      <4> QED BY <4>1, <4>2
    <3>12. Earns(pc'[p], job'[p], home', Taken')
      BY <1>1, <3>1, <3>11 DEF Earns, Shows
    <3> QED BY <1>0, <1>1, <2>1, <3>9, <3>12, OnceStep
  <2> QED BY <1>0, <1>6, <2>1, <2>2, <2>3, RedeemMoves
<1>7. CASE BankHtlcs(p)
  <2>1. /\ pc[p] = "bank" /\ pc'[p] = "remove" /\ job'[p] = job[p] /\ UNCHANGED <<spent, htlcs, redeemed>>
    BY <1>0, <1>7 DEF BankHtlcs, Goto, WorkOK
  <2>2. Taking(p)' = Taking(p) /\ Facing(p)' = Facing(p)
    BY <2>1 DEF Taking, Facing
  <2>3. Earns(pc'[p], job'[p], home', Taken')
    BY <1>0, <1>1, <2>1 DEF Earns, Shows, Redeeming
  <2> QED BY <1>2, <2>1, <2>2, <2>3
<1>8. CASE RemoveHtlc(p)
  <2>1. PICK y \in job[p].hand :
           /\ pc[p] = "remove" /\ htlcs' = htlcs \ {y}
           /\ job'[p] = [job[p] EXCEPT !.hand = @ \ {y}]
           /\ pc'[p] = IF job[p].hand # {y} THEN "remove" ELSE IF job[p].todo # {} THEN "swap" ELSE "core"
           /\ UNCHANGED <<spent, redeemed>>
    BY <1>0, <1>8 DEF RemoveHtlc, Goto, WorkOK
  <2>2. /\ job'[p].hand = job[p].hand \ {y} /\ job'[p].todo = job[p].todo
        /\ job'[p].coins = job[p].coins /\ job'[p].shown = job[p].shown
    BY <1>0, <2>1 DEF Job
  <2>3. /\ Taking(p) = job[p].hand /\ Taking(p)' \subseteq job[p].hand \ {y}
        /\ Facing(p)' \subseteq Facing(p) /\ Promised(p) = {}
    BY <2>1, <2>2 DEF Taking, Facing, Promised
  <2>4. \A q \in Proc : q # p =>
           Promised(q)' = Promised(q) /\ Taking(q)' = Taking(q) /\ Facing(q)' = Facing(q)
    BY <1>0, <1>1, OthersRows
  <2>5. y \in spent /\ \A q \in Proc : q # p => y \notin Taking(q)
    BY <1>0, <2>1, <2>3 DEF RowsInv, Takings
  <2>6. Takings'
    BY <1>0, <2>1, <2>3, <2>4, <2>5 DEF RowsInv, Takings
  <2>7. \A x \in Proof : Pledged(x)' => Pledged(x)
    BY <1>1, <2>3, <2>4 DEF Pledged
  <2>8. Pledges'
    BY <1>0, <1>1, <2>1, <2>5, <2>7 DEF RowsInv, Pledges, Proof
  <2>9. ASSUME NEW x \in Proof PROVE Once(x)' \/ Stuck(x)'
    <3>1. Once(x) => Once(x)'
      BY <1>1, <2>3, <2>4 DEF Once
    <3>2. Stuck(x) => Stuck(x)'
      BY <2>1, <2>3, <2>4 DEF Stuck
    <3> QED BY <1>0, <3>1, <3>2 DEF RowsInv
  <2>10. RowsInv'
    BY <2>6, <2>8, <2>9 DEF RowsInv
  <2>11. pc'[p] \in {"remove", "swap", "core"} /\ (pc'[p] = "core" => job[p].todo = {})
    BY <2>1
  <2>12. Earns(pc'[p], job'[p], home', Taken')
    BY <1>0, <1>1, <2>1, <2>2, <2>11 DEF Earns, Shows, Redeeming
  <2> QED BY <1>0, <1>1, <2>1, <2>10, <2>12, OnceStep
<1>9. CASE ClaimFp(p)
  <2>1. /\ pc[p] = "claim" /\ pc'[p] = "keep" /\ job'[p].hand = job[p].todo
        /\ job'[p].coins = job[p].coins /\ job'[p].shown = job[p].shown
        /\ UNCHANGED <<spent, htlcs, redeemed>>
    BY <1>0, <1>9 DEF ClaimFp, Goto, WorkOK, Job
  <2>2. Taking(p)' = {} /\ Facing(p)' = {}
    BY <2>1 DEF Taking, Facing
  <2>3. Earns(pc'[p], job'[p], home', Taken')
    BY <1>0, <1>1, <2>1 DEF Earns, Shows, Redeeming
  <2> QED BY <1>2, <2>1, <2>2, <2>3
<1>10. CASE StoreProof(p)
  <2>1. CASE job[p].hand \cap offline = {}
    <3>1. /\ pc[p] = "keep" /\ pc'[p] = "core" /\ job[p].hand \subseteq offline'
          /\ job'[p].coins = job[p].coins /\ job'[p].shown = job[p].shown
          /\ UNCHANGED <<spent, htlcs, redeemed>>
      BY <1>0, <1>10, <2>1 DEF StoreProof, Goto, WorkOK, Job
    <3>2. Taking(p)' = {} /\ Facing(p)' = {}
      BY <3>1 DEF Taking, Facing
    <3>3. Earns(pc'[p], job'[p], home', Taken')
      BY <1>0, <1>1, <3>1 DEF Earns, Shows, Redeeming, Taken
    <3> QED BY <1>2, <3>1, <3>2, <3>3
  <2>2. CASE job[p].hand \cap offline # {}
    BY <1>0, <1>5, <1>10, <2>2 DEF StoreProof, End, Goto, WorkOK
  <2> QED BY <2>1, <2>2
<1>11. CASE CoreSwap(p)
  <2>1. /\ pc[p] = "core" /\ pc'[p] = "idle" /\ UNCHANGED <<spent, htlcs>>
    BY <1>0, <1>11 DEF CoreSwap, End, Goto, WorkOK
  <2>2. /\ Taking(p)' = {} /\ Facing(p)' = {} /\ Earns(pc'[p], job'[p], home', Taken')
        /\ Promised(p) = {} /\ Taking(p) = {} /\ Facing(p) = {}
    BY <2>1, EarnsNothing DEF Taking, Facing, Promised, Redeeming
  <2>3. RowsInv'
    BY <1>0, <1>1, <2>1, <2>2, OthersRows, RowsFrame
  <2> QED BY <1>0, <1>1, <2>1, <2>2, <2>3, OnceStep
<1> QED BY <1>3, <1>4, <1>6, <1>7, <1>8, <1>9, <1>10, <1>11 DEF Redeem

LEMMA OnceNext == KeysInv /\ BankInv /\ LossInv /\ OnceInv /\ "all" \notin Removals /\ [Next]_vars => OnceInv'
<1> SUFFICES ASSUME KeysInv, BankInv, LossInv, OnceInv, "all" \notin Removals, [Next]_vars PROVE OnceInv'
  OBVIOUS
<1> USE DEF repo, core, clowder, locktimes, abroad, faults
<1>0. /\ WorkOK /\ DataOK /\ DataOK' /\ Settler \in Agent /\ Settler \notin Proc /\ RowsInv
      /\ \A y \in Proof : home[y] <= home[y]
  BY KeysNext, ParameterAssumption DEF KeysInv, Agent, OnceInv, DataOK
<1>1. Taken \subseteq Taken'
  BY TakenGrows
<1>2. CASE \E p \in Proc : Exchange(p) \/ Redeem(p)
  BY <1>1, <1>2, OnceExchange, OnceRedeem
\* Other steps touch no row and issue nothing.
<1>3. ASSUME UNCHANGED <<home, htlcs, recorded, redeemed>>, spent \subseteq spent',
             NEW a \in Agent, OnlyMoves(a), a \in Proc => pc'[a] = "idle"
      PROVE  OnceInv'
  <2>1. a \in Proc => /\ Promised(a)' = {} /\ Taking(a)' = {} /\ Facing(a)' = {}
                      /\ Kind(pc'[a], job'[a]) /\ Earns(pc'[a], job'[a], home', Taken')
    BY <1>3, EarnsNothing DEF Promised, Taking, Facing, Kind, Redeeming
  <2>2. RowsInv'
    BY <1>0, <1>3, <2>1, OthersRows, RowsFrame
  <2> QED BY <1>0, <1>1, <1>3, <2>1, <2>2, OnceStep
<1>4. CASE Settle \/ SettleSkip
  <2>1. UNCHANGED <<home, htlcs, recorded, redeemed>> /\ spent \subseteq spent'
    BY <1>4 DEF Settle, SettleStart, LoadProofs, SettleSwap, BankSettled, RemoveSettled, SettleDone, SettleSkip
  <2>2. OnlyMoves(Settler)
    BY <1>0, <1>4 DEF Settle, SettleStart, LoadProofs, SettleSwap, BankSettled, RemoveSettled, SettleDone,
                      SettleSkip, OnlyMoves, WorkOK, Begin, End, Goto, NextMint
  <2> QED BY <1>0, <1>3, <2>1, <2>2
<1>5. ASSUME NEW a \in Agent, Fail(a) \/ SwapUnheard(a) PROVE OnceInv'
  <2>1. UNCHANGED <<home, htlcs, recorded, redeemed>> /\ spent \subseteq spent'
    BY <1>5 DEF Fail, SwapUnheard
  <2>2. OnlyMoves(a) /\ (a \in Proc => pc'[a] = "idle")
    BY <1>0, <1>5 DEF Fail, SwapUnheard, OnlyMoves, WorkOK, End, Goto, NextMint
  <2> QED BY <1>3, <1>5, <2>1, <2>2
<1>6. CASE BankUnheard \/ World \/ UNCHANGED vars
  <2>1. UNCHANGED <<pc, job, home, htlcs, recorded, redeemed, spent>>
    BY <1>6 DEF BankUnheard, World, Outage, Return, Lapse, Refund, vars
  <2>2. OnlyMoves(Settler)
    BY <2>1 DEF OnlyMoves
  <2> QED BY <1>0, <1>3, <2>1, <2>2
<1>7. CASE Crash
  <2>1. UNCHANGED <<home, htlcs, recorded, redeemed, spent>> /\ \A p \in Proc : pc'[p] = "idle"
    BY <1>7 DEF Crash, Agent
  <2>2. \A p \in Proc : /\ Promised(p)' = {} /\ Taking(p)' = {} /\ Facing(p)' = {}
                        /\ Kind(pc'[p], job'[p]) /\ Earns(pc'[p], job'[p], home', Taken')
    BY <2>1, EarnsNothing DEF Promised, Taking, Facing, Kind, Redeeming
  <2>3. RowsInv'
    BY <1>0, <2>1, <2>2, RowsFrame
  <2> QED BY <1>1, <2>1, <2>2, <2>3 DEF OnceInv
<1> QED BY <1>2, <1>4, <1>5, <1>6, <1>7 DEF Next, World

\* What was redeemed, and what wallets took back.
PaidInv ==
    /\ \A c \in redeemed \ late : c[1] \in Taken /\ c[2] = 1
    /\ \A c \in late : c[1] \in lapsed
    /\ refunded \cap spent = {} /\ dropped \cap Htlc \subseteq spent

LEMMA PaidInit == Init => PaidInv
  BY DEF Init, PaidInv

LEMMA RefundNext ==
    ASSUME KeysInv, BankInv, PaidInv, [Next]_vars
    PROVE  refunded' \cap spent' = {} /\ dropped' \cap Htlc \subseteq spent'
<1> USE DEF repo, core, clowder, locktimes, abroad, faults
<1>0. /\ refunded \cap spent = {} /\ dropped \cap Htlc \subseteq spent
      /\ Htlc \cap Token = {} /\ \A a \in Agent : Fits(pc[a], job[a])
  BY ParameterAssumption DEF PaidInv, KeysInv
<1>1. \A a \in Agent : InHand(a) \cap Htlc \subseteq spent
  BY <1>0 DEF InHand, AtBank, BankInv, Fits
<1>2. CASE UNCHANGED <<refunded, spent, dropped>>
  BY <1>0, <1>2
<1>3. ASSUME NEW S, S \cap refunded = {}, spent' = spent \cup S, dropped' \subseteq dropped \cup S,
             UNCHANGED refunded
      PROVE  refunded' \cap spent' = {} /\ dropped' \cap Htlc \subseteq spent'
  BY <1>0, <1>3
<1>4. ASSUME NEW p \in Proc, Exchange(p) PROVE UNCHANGED <<refunded, spent, dropped>>
  BY <1>4 DEF Exchange, OnlineStart, CheckHtlcs, StoreHtlcs, OfflineStart, Accept, Record, StoreFp,
              FindKeyset, AnnounceKeyset, StoreKeyset, SignalOnline, SignalOffline, Reply
<1>5. ASSUME NEW p \in Proc, Redeem(p)
      PROVE  refunded' \cap spent' = {} /\ dropped' \cap Htlc \subseteq spent'
  <2>1. CASE SwapHtlcs(p)
    BY <1>2, <1>3, <2>1 DEF SwapHtlcs, Swappable
  <2>2. CASE ~SwapHtlcs(p)
    BY <1>2, <1>5, <2>2 DEF Redeem, RedeemStart, Search, BankHtlcs, RemoveHtlc, ClaimFp, StoreProof, CoreSwap
  <2> QED BY <2>1, <2>2
<1>6. CASE SettleSwap
  BY <1>2, <1>3, <1>6 DEF SettleSwap, Swappable
<1>7. CASE SettleStart \/ LoadProofs \/ BankSettled \/ RemoveSettled \/ SettleDone \/ SettleSkip \/ BankUnheard
  BY <1>2, <1>7 DEF SettleStart, LoadProofs, BankSettled, RemoveSettled, SettleDone, SettleSkip, BankUnheard
<1>8. CASE World
  BY <1>0, <1>8 DEF World, Outage, Return, Lapse, Refund, Swappable
<1>9. ASSUME NEW a \in Agent, Fail(a) PROVE refunded' \cap spent' = {} /\ dropped' \cap Htlc \subseteq spent'
  BY <1>0, <1>1, <1>9 DEF Fail
<1>10. ASSUME NEW a \in Agent, SwapUnheard(a)
       PROVE  refunded' \cap spent' = {} /\ dropped' \cap Htlc \subseteq spent'
  BY <1>3, <1>10 DEF SwapUnheard, Swappable
<1>11. CASE Crash
  BY <1>0, <1>1, <1>11 DEF Crash
<1>12. CASE UNCHANGED vars
  BY <1>2, <1>12 DEF vars
<1> QED BY <1>2, <1>4, <1>5, <1>6, <1>7, <1>8, <1>9, <1>10, <1>11, <1>12 DEF Next, World, Settle

LEMMA PaidNext ==
    ASSUME KeysInv, BankInv, LossInv, OnceInv, PaidInv, "all" \notin Removals, [Next]_vars
    PROVE  PaidInv'
<1> USE DEF repo, core, clowder, locktimes, abroad, faults
<1>1. Taken \subseteq Taken'
  BY TakenGrows
<1>2. CASE UNCHANGED <<redeemed, late>> /\ lapsed \subseteq lapsed'
  BY <1>1, <1>2, RefundNext DEF PaidInv
<1>3. ASSUME NEW p \in Proc, CoreSwap(p) PROVE PaidInv'
  <2>1. /\ Earns("core", job[p], home, Taken) /\ UNCHANGED lapsed
        /\ \/ UNCHANGED <<redeemed, late>>
           \/ /\ \A c \in job[p].coins : Shows(job[p], c) \/ c[1] \in lapsed
              /\ redeemed' = redeemed \cup job[p].coins
              /\ late' = late \cup {c \in job[p].coins : ~Shows(job[p], c)}
    BY <1>3 DEF CoreSwap, OnceInv
  <2>2. \A c \in job[p].coins : Shows(job[p], c) => c[1] \in Taken /\ c[2] = 1
    BY <2>1 DEF Earns
  <2> QED BY <1>1, <2>1, <2>2, RefundNext DEF PaidInv
<1>4. ASSUME NEW p \in Proc, Exchange(p) PROVE UNCHANGED <<redeemed, late, lapsed>>
  BY <1>4 DEF Exchange, OnlineStart, CheckHtlcs, StoreHtlcs, OfflineStart, Accept, Record, StoreFp,
              FindKeyset, AnnounceKeyset, StoreKeyset, SignalOnline, SignalOffline, Reply
<1>5. ASSUME NEW p \in Proc, Redeem(p), ~CoreSwap(p) PROVE UNCHANGED <<redeemed, late, lapsed>>
  BY <1>5 DEF Redeem, RedeemStart, Search, SwapHtlcs, BankHtlcs, RemoveHtlc, ClaimFp, StoreProof
<1>6. CASE Settle \/ SettleSkip \/ BankUnheard
  BY <1>2, <1>6 DEF Settle, SettleStart, LoadProofs, SettleSwap, BankSettled, RemoveSettled, SettleDone,
                    SettleSkip, BankUnheard
<1>7. CASE World
  BY <1>2, <1>7 DEF World, Outage, Return, Lapse, Refund
<1>8. ASSUME NEW a \in Agent, Fail(a) \/ SwapUnheard(a) PROVE UNCHANGED <<redeemed, late, lapsed>>
  BY <1>8 DEF Fail, SwapUnheard
<1>9. CASE Crash \/ UNCHANGED vars
  BY <1>2, <1>9 DEF Crash, vars
<1> QED BY <1>2, <1>3, <1>4, <1>5, <1>6, <1>7, <1>8, <1>9 DEF Next, World

\* However requests for the same proofs and secrets meet, and whatever fails, a foreign proof
\* pays for one redemption that shows its secret, and only after this mint has taken it;
\* without the secret only eCash past its locktime is redeemed, and what a wallet took back
\* paid for no other.  Given that remove_proofs deletes what it is told to or nothing.
THEOREM ForeignOnce ==
    ASSUME "all" \notin Removals
    PROVE  Spec => []RedeemedOnce
<1>1. KeysInv /\ BankInv /\ PaidInv => RedeemedOnce
  <2> SUFFICES ASSUME KeysInv, BankInv, PaidInv PROVE RedeemedOnce
    OBVIOUS
  <2>0. /\ redeemed \subseteq Proof \X Nat /\ refunded \subseteq Htlc /\ offline \subseteq Token
        /\ Htlc \cap Token = {} /\ \A y \in Proof : banked[y] \in Nat
        /\ \A a \in Agent : Fits(pc[a], job[a])
    BY ParameterAssumption DEF KeysInv, DataOK
  <2>1. Taken \cap Htlc \subseteq spent
    <3>1. \A y \in Proof : banked[y] > 0 => y \in spent
      BY <2>0 DEF BankInv
    <3>2. \A a \in Agent : InHand(a) \cap Htlc \subseteq spent
      BY <2>0 DEF InHand, AtBank, BankInv, Fits
    <3> QED BY <2>0, <3>1, <3>2 DEF PaidInv, Taken, Held
  <2>2. ASSUME NEW c \in redeemed \ late PROVE c[1] \in (Held \cup offline) \ refunded
    BY <2>0, <2>1 DEF PaidInv, Taken
  <2>3. ASSUME NEW c \in redeemed \ late, NEW d \in redeemed \ late, c[1] = d[1] PROVE c = d
    <3>1. c \in Proof \X Nat /\ d \in Proof \X Nat /\ c[2] = 1 /\ d[2] = 1
      BY <2>0 DEF PaidInv
    <3> QED BY <2>3, <3>1
  <2>4. \A c \in late : c[1] \in lapsed
    BY DEF PaidInv
  <2> QED BY <2>2, <2>3, <2>4 DEF RedeemedOnce
<1>2. KeysInv /\ BankInv /\ LossInv /\ [Next]_vars => LossInv'
  BY LossNext
<1>3. KeysInv /\ BankInv /\ LossInv /\ OnceInv /\ [Next]_vars => OnceInv'
  BY OnceNext
<1>4. KeysInv /\ BankInv /\ LossInv /\ OnceInv /\ PaidInv /\ [Next]_vars => PaidInv'
  BY PaidNext
<1> QED BY <1>1, <1>2, <1>3, <1>4, LossInit, OnceInit, PaidInit, KeysInvariant, BankInvariant, PTL DEF Spec
=============================================================================
