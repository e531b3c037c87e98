-------------------------- MODULE EbillMintProofs --------------------------
(* Theorems about EbillMint, for any operations, bills, outputs and requests. *)
EXTENDS EbillMint, TLAPS

-----------------------------------------------------------------------------
(* Types and the order of a handler's steps. *)

Basic == TypeOK /\ HandlersInOrder

\* Handlers that stay where they are remain in order while operations keep their target.
LEMMA OrderFrame ==
    ASSUME HandlersInOrder, NEW p \in Proc,
           \A q \in Proc \ {p} : pc'[q] = pc[q] /\ job'[q] = job[q] /\ todo'[q] = todo[q],
           \A u \in Uid : ops[u] # None => ops'[u] # None /\ ops'[u].target = ops[u].target,
           InOrder(p)'
    PROVE  HandlersInOrder'
<1> SUFFICES ASSUME NEW q \in Proc PROVE InOrder(q)'
  BY DEF HandlersInOrder
<1>1. CASE q = p
  BY <1>1
<1>2. CASE q # p
  <2>1. pc'[q] = pc[q] /\ job'[q] = job[q] /\ todo'[q] = todo[q] /\ InOrder(q)
    BY <1>2 DEF HandlersInOrder
  <2>2. pc[q] \in {"sign", "update", "announce"} => job[q].uid \in Uid
    BY <2>1 DEF InOrder, MintJobs
  <2> QED
    BY <2>1, <2>2 DEF InOrder
<1> QED
  BY <1>1, <1>2

\* The reply of a handler leaves its slot empty and the others as they are.
LEMMA EndBasic ==
    ASSUME TypeOK, NEW p \in Proc, End(p)
    PROVE  /\ pc' \in [Proc -> PCs] /\ job' \in [Proc -> Jobs] /\ todo' \in [Proc -> SUBSET B]
           /\ \A q \in Proc \ {p} : pc'[q] = pc[q] /\ job'[q] = job[q] /\ todo'[q] = todo[q]
           /\ pc'[p] = "idle" /\ InOrder(p)'
<1>1. /\ pc' \in [Proc -> PCs] /\ job' \in [Proc -> Jobs] /\ todo' \in [Proc -> SUBSET B]
      /\ pc'[p] = "idle"
  BY DEF TypeOK, End, Goto, PCs, Jobs
<1>2. \A q \in Proc \ {p} : pc'[q] = pc[q] /\ job'[q] = job[q] /\ todo'[q] = todo[q]
  BY DEF TypeOK, End, Goto
<1>3. InOrder(p)'
  BY <1>1 DEF InOrder
<1> QED
  BY <1>1, <1>2, <1>3

\* Each step of new_minting_operation keeps the types and the order of its steps.
LEMMA NewStepBasic ==
    ASSUME Basic, NEW p \in Proc, NewStep(p)
    PROVE  Basic'
<1> USE DEF Basic, HandlersInOrder
<1>1. CASE NewStart(p)
  <2>1. PICK r \in NewOps : NewStart(p)!(r)
    BY <1>1 DEF NewStart
  <2>2. TypeOK'
    BY <2>1, RequestAssumption DEF Begin, Goto, TypeOK, PCs, Jobs
  <2>3. pc'[p] = "lookup" /\ job'[p] = r
    BY <2>1 DEF Begin, Goto, TypeOK
  <2>4. InOrder(p)'
    BY <2>3 DEF InOrder
  <2> QED
    BY <2>1, <2>2, <2>4, OrderFrame DEF Begin, Goto, TypeOK
<1>2. CASE LookupBill(p) \/ Relookup(p)
  <2>1. job[p] \in NewOps
    BY <1>2 DEF LookupBill, Relookup, InOrder
  <2>2. CASE End(p)
    BY <1>2, <2>2, EndBasic, OrderFrame DEF LookupBill, Relookup, TypeOK
  <2>3. CASE \E l \in {"store", "register"} : Goto(p, l) /\ UNCHANGED <<job, todo>>
    <3>1. TypeOK'
      BY <1>2, <2>3 DEF LookupBill, Relookup, Goto, TypeOK, PCs
    <3>2. InOrder(p)'
      BY <2>1, <2>3 DEF Goto, TypeOK, InOrder
    <3> QED
      BY <1>2, <2>3, <3>1, <3>2, OrderFrame DEF LookupBill, Relookup, Goto, TypeOK
  <2> QED
    BY <1>2, <2>2, <2>3 DEF LookupBill, Relookup
<1>3. CASE StoreOp(p)
  <2>1. job[p] \in NewOps /\ job[p].uid \in Uid
    BY <1>3, RequestAssumption DEF StoreOp, InOrder
  <2>2. TypeOK'
    BY <1>3, <2>1, RequestAssumption DEF StoreOp, Goto, TypeOK, PCs, Operation
  <2>3. pc'[p] \in {"register", "relookup"} /\ job'[p] = job[p]
    BY <1>3 DEF StoreOp, Goto, TypeOK
  <2>4. InOrder(p)'
    BY <2>1, <2>3 DEF InOrder
  <2>5. \A u \in Uid : ops[u] # None => ops'[u] # None /\ ops'[u].target = ops[u].target
    BY <1>3, <2>1 DEF StoreOp, Storable, KeyFree, TypeOK
  <2> QED
    BY <1>3, <2>2, <2>4, <2>5, OrderFrame DEF StoreOp, Goto, TypeOK
<1>4. CASE Register(p)
  <2>1. job[p] \in NewOps
    BY <1>4 DEF Register, InOrder
  <2>2. TypeOK'
    BY <1>4, <2>1, EndBasic, RequestAssumption DEF Register, TypeOK
  <2> QED
    BY <1>4, <2>2, EndBasic, OrderFrame DEF Register
<1> QED
  BY <1>1, <1>2, <1>3, <1>4 DEF NewStep

\* Each step of mint keeps the types and the order of its steps.
LEMMA MintStepBasic ==
    ASSUME Basic, NEW p \in Proc, MintStep(p)
    PROVE  Basic'
<1> USE DEF Basic, HandlersInOrder
<1>1. CASE MintStart(p)
  <2>1. PICK r \in MintRequests : MintStart(p)!(r)
    BY <1>1 DEF MintStart
  <2> DEFINE j == [uid |-> r.uid, key |-> r.key, outputs |-> r.outputs,
                   minted |-> 0, attempt |-> 1]
  <2>2. j \in MintJobs
    BY RequestAssumption, ParameterAssumption DEF MintJobs
  <2>3. TypeOK'
    BY <2>1, <2>2 DEF Begin, Goto, TypeOK, PCs, Jobs
  <2>4. pc'[p] = "load" /\ job'[p] = j
    BY <2>1 DEF Begin, Goto, TypeOK
  <2>5. InOrder(p)'
    BY <2>2, <2>4 DEF InOrder
  <2> QED
    BY <2>1, <2>3, <2>5, OrderFrame DEF Begin, Goto, TypeOK
<1>2. CASE LoadOp(p)
  <2>1. CASE Mintable(job[p])
    <3>1. job[p] \in MintJobs
      BY <1>2 DEF LoadOp, InOrder
    <3>2. job[p].uid \in Uid /\ ops[job[p].uid] \in Operation /\ job[p].outputs \in SUBSET B
      BY <2>1, <3>1 DEF Mintable, TypeOK, MintJobs
    <3>3. [job[p] EXCEPT !.minted = ops[job[p].uid].minted] \in MintJobs
      BY <3>1, <3>2 DEF MintJobs, Operation
    <3>4. /\ pc' = [pc EXCEPT ![p] = "sign"]
          /\ job' = [job EXCEPT ![p] = [job[p] EXCEPT !.minted = ops[job[p].uid].minted]]
          /\ todo' = [todo EXCEPT ![p] = job[p].outputs]
          /\ UNCHANGED <<ops, signed, registered, announced, crashes>>
      BY <1>2, <2>1 DEF LoadOp, Goto, TypeOK
    <3>5. TypeOK'
      BY <3>2, <3>3, <3>4 DEF TypeOK, PCs, Jobs
    <3>6. /\ pc'[p] = "sign" /\ todo'[p] = job[p].outputs
          /\ job'[p] = [job[p] EXCEPT !.minted = ops[job[p].uid].minted]
      BY <3>4 DEF TypeOK
    <3>7. /\ job'[p].uid = job[p].uid /\ job'[p].outputs = job[p].outputs
          /\ job'[p].minted = ops[job[p].uid].minted
      BY <3>1, <3>6 DEF MintJobs
    <3>8. InOrder(p)'
      BY <2>1, <3>3, <3>4, <3>6, <3>7 DEF InOrder, Mintable
    <3> QED
      BY <3>4, <3>5, <3>8, OrderFrame DEF TypeOK
  <2>2. CASE ~Mintable(job[p])
    BY <1>2, <2>2, EndBasic, OrderFrame DEF LoadOp, TypeOK
  <2> QED
    BY <2>1, <2>2
<1>3. CASE SignBlind(p)
  <2>1. PICK b \in todo[p] : SignBlind(p)!(b)
    BY <1>3 DEF SignBlind
  <2>2. job[p].uid \in Uid /\ b \in B
    BY <2>1 DEF InOrder, MintJobs, TypeOK
  <2>3. CASE signed[b] = None
    <3>1. TypeOK'
      BY <2>1, <2>2, <2>3 DEF TypeOK
    <3>2. pc'[p] = "sign" /\ job'[p] = job[p] /\ todo'[p] = todo[p] \ {b} /\ ops' = ops
      BY <2>1, <2>3 DEF TypeOK
    <3>3. InOrder(p)'
      BY <2>1, <3>2 DEF InOrder
    <3> QED
      BY <2>1, <2>3, <3>1, <3>3, OrderFrame DEF TypeOK
  <2>4. CASE signed[b] # None
    BY <2>1, <2>4, EndBasic, OrderFrame DEF TypeOK
  <2> QED
    BY <2>3, <2>4
<1>4. CASE Signed(p)
  <2>1. pc'[p] = "update" /\ TypeOK'
    BY <1>4 DEF Signed, Goto, TypeOK, PCs
  <2>2. InOrder(p)'
    BY <1>4, <2>1 DEF InOrder, Signed
  <2> QED
    BY <1>4, <2>1, <2>2, OrderFrame DEF Signed, Goto, TypeOK
<1>5. CASE UpdateMinted(p)
  <2>1. CASE Unmoved(job[p])
    <3>1. job[p] \in MintJobs /\ job[p].uid \in Uid /\ ops[job[p].uid] \in Operation
      BY <1>5, <2>1 DEF UpdateMinted, Unmoved, InOrder, MintJobs, TypeOK
    <3> DEFINE m == job[p].minted + Worth[job[p].outputs]
    <3>2. m \in Nat
      BY <3>1, WorthAssumption DEF MintJobs
    <3>3. [ops[job[p].uid] EXCEPT !.minted = m] \in Operation
      BY <3>1, <3>2 DEF Operation
    <3>4. /\ ops' = [ops EXCEPT ![job[p].uid] = [ops[job[p].uid] EXCEPT !.minted = m]]
          /\ pc' = [pc EXCEPT ![p] = "announce"]
          /\ UNCHANGED <<job, todo, signed, registered, announced, crashes>>
      BY <1>5, <2>1, <3>1 DEF UpdateMinted, Goto, TypeOK
    <3> HIDE DEF m
    <3>5. TypeOK'
      BY <3>1, <3>3, <3>4 DEF TypeOK, PCs
    <3>6. None \notin Operation
      BY ParameterAssumption DEF Operation
    <3>7. \A u \in Uid : ops[u] # None => ops'[u] # None /\ ops'[u].target = ops[u].target
      BY <3>1, <3>3, <3>4, <3>6 DEF TypeOK, Operation
    <3>8. InOrder(p)'
      BY <1>5, <3>1, <3>4, <3>7 DEF InOrder, UpdateMinted, TypeOK
    <3> QED
      BY <3>4, <3>5, <3>7, <3>8, OrderFrame DEF TypeOK
  <2>2. CASE ~Unmoved(job[p])
    BY <1>5, <2>2, EndBasic, OrderFrame DEF UpdateMinted, TypeOK
  <2> QED
    BY <2>1, <2>2
<1>6. CASE Announce(p) \/ Retry(p)
  <2>1. job[p] \in MintJobs /\ ops' = ops /\ signed' = signed /\ registered' = registered
    BY <1>6 DEF Announce, Retry, InOrder
  <2>2. announced' \in SUBSET [uid: Uid, outputs: SUBSET B]
    BY <1>6, <2>1 DEF Announce, Retry, TypeOK, MintJobs
  <2>3. CASE End(p)
    BY <1>6, <2>1, <2>2, <2>3, EndBasic, OrderFrame DEF Announce, Retry, TypeOK
  <2>4. CASE /\ job' = [job EXCEPT ![p].attempt = @ + 1]
             /\ UNCHANGED <<pc, todo>>
    <3>0. job[p].attempt \in 1..Attempts /\ job[p].attempt < Attempts /\ Attempts \in Nat
      <4>1. ~End(p)
        BY <1>6, <2>4 DEF Announce, Retry, End, Goto, TypeOK
      <4> QED BY <1>6, <2>1, <4>1, ParameterAssumption DEF Announce, Retry, MintJobs
    <3>1. [job[p] EXCEPT !.attempt = @ + 1] \in MintJobs
      BY <2>1, <3>0 DEF MintJobs
    <3>2. job' = [job EXCEPT ![p] = [job[p] EXCEPT !.attempt = @ + 1]]
      BY <2>4 DEF TypeOK
    <3>3. TypeOK'
      BY <1>6, <2>1, <2>2, <2>4, <3>1, <3>2 DEF Announce, Retry, TypeOK, Jobs
    <3>4. job'[p] = [job[p] EXCEPT !.attempt = @ + 1] /\ pc'[p] = "announce" /\ todo'[p] = todo[p]
      BY <1>6, <2>4, <3>2 DEF Announce, Retry, TypeOK
    <3>5. job'[p].uid = job[p].uid /\ job'[p].outputs = job[p].outputs
      BY <2>1, <3>4 DEF MintJobs
    <3>6. pc[p] = "announce"
      BY <1>6 DEF Announce, Retry
    <3>7. InOrder(p)'
      BY <2>1, <3>1, <3>4, <3>5, <3>6 DEF InOrder
    <3> QED
      BY <2>1, <2>4, <3>2, <3>3, <3>7, OrderFrame DEF TypeOK
  <2> QED
    BY <1>6, <2>3, <2>4 DEF Announce, Retry
<1> QED
  BY <1>1, <1>2, <1>3, <1>4, <1>5, <1>6 DEF MintStep

\* A step of a minting operation, of a mint, a failure or a restart.
LEMMA NextBasic ==
    ASSUME Basic, [Next]_vars
    PROVE  Basic'
<1>1. CASE \E p \in Proc : NewStep(p) \/ MintStep(p)
  BY <1>1, NewStepBasic, MintStepBasic
<1>2. CASE \E p \in Proc : Fail(p)
  BY <1>2, EndBasic, OrderFrame DEF Basic, Fail, TypeOK
<1>3. CASE Crash
  <2>1. TypeOK'
    BY <1>3 DEF Basic, HandlersInOrder, Crash, TypeOK, PCs, Jobs
  <2>2. \A q \in Proc : pc'[q] = "idle"
    BY <1>3 DEF Crash
  <2> QED
    BY <2>1, <2>2 DEF Basic, HandlersInOrder, InOrder
<1>4. CASE UNCHANGED vars
  BY <1>4 DEF Basic, HandlersInOrder, vars, TypeOK, InOrder
<1> QED
  BY <1>1, <1>2, <1>3, <1>4 DEF Next

\* The service starts with no operations and no requests.
LEMMA InitBasic == Init => Basic
BY DEF Init, Basic, HandlersInOrder, TypeOK, InOrder, PCs, Jobs

\* TypeOK holds in every behaviour: a request that mints never runs ahead of the operation
\* it was admitted to, which stays with its target, and it signs outputs of its own only.
THEOREM TypeCorrect == Spec => [](TypeOK /\ HandlersInOrder)
<1>1. Init => Basic
  BY InitBasic
<1>2. Basic /\ [Next]_vars => Basic'
  BY NextBasic
<1> QED
  BY <1>1, <1>2, PTL DEF Spec, Basic

-----------------------------------------------------------------------------
(* What clowder hears of is counted. *)

\* More outputs are worth more.
LEMMA WorthMonotone ==
    ASSUME NEW S \in SUBSET B, NEW T \in SUBSET B, S \subseteq T
    PROVE  Worth[S] \in Nat /\ Worth[T] \in Nat /\ Worth[S] <= Worth[T]
<1>1. T = S \cup (T \ S) /\ S \cap (T \ S) = {} /\ T \ S \in SUBSET B
  OBVIOUS
<1>2. Worth[T] = Worth[S] + Worth[T \ S]
  BY <1>1, WorthAssumption
<1>3. Worth[S] \in Nat /\ Worth[T] \in Nat /\ Worth[T \ S] \in Nat
  BY <1>1, WorthAssumption
<1> QED
  BY <1>2, <1>3

\* No outputs are worth nothing.
LEMMA WorthEmpty == Worth[{}] = 0
<1>1. {} \in SUBSET B /\ {} \cap {} = {} /\ {} \cup {} = {}
  OBVIOUS
<1>2. Worth[{}] = Worth[{}] + Worth[{}] /\ Worth[{}] \in Nat
  BY <1>1, WorthAssumption
<1>3. \A w \in Nat : w = w + w => w = 0
  OBVIOUS
<1> QED
  BY <1>2, <1>3

\* Requests that have signed nothing more, and events that are not new, leave signatures in
\* the hands they are in.
LEMMA SignedFrame ==
    ASSUME Basic, SignedOnce,
           \A q \in Proc : Mine(q)' \subseteq Mine(q),
           \A q \in Proc : pc'[q] \in {"sign", "update"} =>
               pc[q] \in {"sign", "update"} \/ Mine(q)' = {},
           announced' = announced, signed' = signed
    PROVE  SignedOnce'
<1>1. \A p \in Proc : \A b \in Mine(p)' : signed'[b] # None
  BY DEF SignedOnce
<1>2. \A e \in announced' : \A b \in e.outputs : signed'[b] # None
  BY DEF SignedOnce
<1>3. \A p, q \in Proc : p # q => Mine(p)' \cap Mine(q)' = {}
  <2> SUFFICES ASSUME NEW p \in Proc, NEW q \in Proc, p # q
               PROVE  Mine(p)' \cap Mine(q)' = {}
    OBVIOUS
  <2>1. Mine(p) \cap Mine(q) = {} /\ Mine(p)' \subseteq Mine(p) /\ Mine(q)' \subseteq Mine(q)
    BY DEF SignedOnce
  <2> QED
    BY <2>1
<1>4. \A p \in Proc : \A e \in announced' :
        pc'[p] \in {"sign", "update"} => Mine(p)' \cap e.outputs = {}
  <2> SUFFICES ASSUME NEW p \in Proc, NEW e \in announced, pc'[p] \in {"sign", "update"}
               PROVE  Mine(p)' \cap e.outputs = {}
    OBVIOUS
  <2>1. CASE Mine(p)' = {}
    BY <2>1
  <2>2. CASE pc[p] \in {"sign", "update"}
    <3>1. Mine(p) \cap e.outputs = {} /\ Mine(p)' \subseteq Mine(p)
      BY <2>2 DEF SignedOnce
    <3> QED
      BY <3>1
  <2> QED
    BY <2>1, <2>2
<1> QED
  BY <1>1, <1>2, <1>3, <1>4 DEF SignedOnce

\* Every step keeps signatures with the one request that got them: only SignBlind adds to
\* what a request has signed, and only Announce to what clowder has heard of.
LEMMA StepSigned ==
    ASSUME Basic, SignedOnce, [Next]_vars
    PROVE  SignedOnce'
<1>1. ASSUME NEW p \in Proc, SignBlind(p) PROVE SignedOnce'
  <2>1. PICK b \in todo[p] : SignBlind(p)!(b)
    BY <1>1 DEF SignBlind
  <2>2. CASE signed[b] # None
    <3>1. /\ \A q \in Proc \ {p} : pc'[q] = pc[q] /\ job'[q] = job[q] /\ todo'[q] = todo[q]
          /\ pc'[p] = "idle"
      BY <2>1, <2>2, EndBasic DEF Basic
    <3>2. \A q \in Proc : Mine(q)' \subseteq Mine(q)
      BY <3>1 DEF Mine
    <3> QED
      BY <2>1, <2>2, <3>1, <3>2, SignedFrame
  <2>3. CASE signed[b] = None
    <3>1. /\ job[p] \in MintJobs /\ job[p].uid \in Uid /\ b \in B
          /\ todo[p] \subseteq job[p].outputs
      BY <2>1 DEF Basic, HandlersInOrder, InOrder, MintJobs, TypeOK
    <3>2. /\ signed' = [signed EXCEPT ![b] = job[p].uid]
          /\ todo' = [todo EXCEPT ![p] = todo[p] \ {b}]
          /\ pc' = pc /\ job' = job /\ announced' = announced
      BY <2>1, <2>3 DEF Basic, HandlersInOrder, TypeOK
    <3>3. Mine(p)' = Mine(p) \cup {b} /\ \A q \in Proc \ {p} : Mine(q)' = Mine(q)
      BY <2>1, <3>1, <3>2 DEF Mine, Basic, HandlersInOrder, TypeOK
    <3>4. \A c \in B : signed[c] # None => signed'[c] # None
      BY <3>1, <3>2, ParameterAssumption DEF Basic, HandlersInOrder, TypeOK
    <3>5. signed'[b] # None
      BY <3>1, <3>2, ParameterAssumption DEF Basic, HandlersInOrder, TypeOK
    <3>6. (\A q \in Proc : Mine(q) \subseteq B) /\ \A e \in announced : e.outputs \subseteq B
      BY DEF Mine, Basic, HandlersInOrder, InOrder, MintJobs, TypeOK
    <3>7. (\A q \in Proc : b \notin Mine(q)) /\ \A e \in announced : b \notin e.outputs
      BY <2>3 DEF SignedOnce
    <3>8. \A q \in Proc : \A c \in Mine(q)' : signed'[c] # None
      BY <3>3, <3>4, <3>5, <3>6 DEF SignedOnce
    <3>9. \A e \in announced' : \A c \in e.outputs : signed'[c] # None
      BY <3>2, <3>4, <3>6 DEF SignedOnce
    <3>10. \A q, r \in Proc : q # r => Mine(q)' \cap Mine(r)' = {}
      BY <3>3, <3>7 DEF SignedOnce
    <3>11. \A q \in Proc : \A e \in announced' :
             pc'[q] \in {"sign", "update"} => Mine(q)' \cap e.outputs = {}
      BY <3>2, <3>3, <3>7 DEF SignedOnce
    <3> QED
      BY <3>8, <3>9, <3>10, <3>11 DEF SignedOnce
  <2> QED
    BY <2>2, <2>3
<1>2. ASSUME NEW p \in Proc, Announce(p) PROVE SignedOnce'
  <2>1. /\ job[p] \in MintJobs /\ todo[p] = {} /\ pc[p] = "announce"
        /\ announced' = announced \cup {[uid |-> job[p].uid, outputs |-> job[p].outputs]}
        /\ signed' = signed
    BY <1>2 DEF Announce, Basic, HandlersInOrder, InOrder
  <2>2. Mine(p) = job[p].outputs
    BY <2>1 DEF Mine
  <2>3. /\ \A q \in Proc \ {p} : pc'[q] = pc[q] /\ job'[q] = job[q] /\ todo'[q] = todo[q]
        /\ pc'[p] \in {"idle", "announce"}
        /\ pc'[p] = "announce" => job'[p].outputs = job[p].outputs /\ todo'[p] = todo[p]
    <3>1. CASE End(p)
      BY <3>1, EndBasic DEF Basic
    <3>2. CASE job' = [job EXCEPT ![p].attempt = @ + 1] /\ UNCHANGED <<pc, todo>>
      <4>1. job'[p] = [job[p] EXCEPT !.attempt = @ + 1]
        BY <3>2 DEF Basic, HandlersInOrder, TypeOK
      <4> QED
        BY <2>1, <3>2, <4>1 DEF Basic, HandlersInOrder, TypeOK, MintJobs
    <3> QED
      BY <1>2, <3>1, <3>2 DEF Announce
  <2>4. (\A q \in Proc \ {p} : Mine(q)' = Mine(q)) /\ Mine(p)' \subseteq Mine(p)
    BY <2>1, <2>3 DEF Mine
  <2>5. \A q \in Proc : \A c \in Mine(q)' : signed'[c] # None
    BY <2>1, <2>4 DEF SignedOnce
  <2>6. \A e \in announced' : \A c \in e.outputs : signed'[c] # None
    BY <2>1, <2>2 DEF SignedOnce
  <2>7. \A q, r \in Proc : q # r => Mine(q)' \cap Mine(r)' = {}
    BY <2>4 DEF SignedOnce
  <2>8. \A q \in Proc : \A e \in announced' :
          pc'[q] \in {"sign", "update"} => Mine(q)' \cap e.outputs = {}
    BY <2>1, <2>2, <2>3, <2>4 DEF SignedOnce
  <2> QED
    BY <2>5, <2>6, <2>7, <2>8 DEF SignedOnce
<1>3. CASE \/ \E p \in Proc : \/ NewStep(p) \/ MintStart(p) \/ LoadOp(p) \/ Signed(p)
                              \/ UpdateMinted(p) \/ Retry(p) \/ Fail(p)
           \/ Crash \/ UNCHANGED vars
  <2>1. announced' = announced /\ signed' = signed
    BY <1>3 DEF NewStep, NewStart, LookupBill, StoreOp, Relookup, Register, MintStart, LoadOp,
      Signed, UpdateMinted, Retry, Fail, Crash, vars
  <2>2. CASE \E p \in Proc : \/ NewStep(p) \/ MintStart(p) \/ LoadOp(p) \/ Signed(p)
                             \/ UpdateMinted(p) \/ Retry(p) \/ Fail(p)
    <3>1. PICK p \in Proc : \/ NewStep(p) \/ MintStart(p) \/ LoadOp(p) \/ Signed(p)
                            \/ UpdateMinted(p) \/ Retry(p) \/ Fail(p)
      BY <2>2
    <3>2. \A q \in Proc \ {p} : pc'[q] = pc[q] /\ job'[q] = job[q] /\ todo'[q] = todo[q]
      <4>1. CASE End(p)
        BY <4>1, EndBasic DEF Basic
      <4>2. CASE ~End(p)
        BY <3>1, <4>2 DEF NewStep, NewStart, LookupBill, StoreOp, Relookup, Register, MintStart,
          LoadOp, Signed, UpdateMinted, Retry, Fail, Begin, Goto, Basic, HandlersInOrder, TypeOK
      <4> QED
        BY <4>1, <4>2
    <3>3. /\ Mine(p)' \subseteq Mine(p)
          /\ pc'[p] \in {"sign", "update"} => pc[p] \in {"sign", "update"} \/ Mine(p)' = {}
      <4>1. CASE End(p)
        BY <4>1, EndBasic DEF Basic, Mine
      <4>2. CASE LoadOp(p) /\ ~End(p)
        <5>1. job[p] \in MintJobs
          BY <4>2 DEF LoadOp, Basic, HandlersInOrder, InOrder
        <5>2. /\ job'[p] = [job[p] EXCEPT !.minted = ops[job[p].uid].minted]
              /\ todo'[p] = job[p].outputs
          BY <4>2 DEF LoadOp, Basic, HandlersInOrder, TypeOK
        <5> QED
          BY <5>1, <5>2 DEF Mine, MintJobs
      <4>3. CASE Signed(p)
        BY <4>3 DEF Signed, Goto, Mine, Basic, HandlersInOrder, TypeOK
      <4>4. CASE UpdateMinted(p) /\ ~End(p)
        BY <4>4 DEF UpdateMinted, Goto, Mine, Basic, HandlersInOrder, TypeOK
      <4>5. CASE Retry(p)
        <5>1. job[p] \in MintJobs /\ job'[p] = [job[p] EXCEPT !.attempt = @ + 1]
          BY <4>5 DEF Retry, Basic, HandlersInOrder, TypeOK, InOrder
        <5> QED
          BY <4>5, <5>1 DEF Retry, Mine, MintJobs
      <4>6. CASE (NewStep(p) \/ MintStart(p)) /\ ~End(p)
        <5>1. pc'[p] \in {"lookup", "store", "relookup", "register", "load"}
          BY <4>6 DEF NewStep, NewStart, LookupBill, StoreOp, Relookup, Register, MintStart,
            Begin, Goto, Basic, HandlersInOrder, TypeOK
        <5> QED
          BY <5>1 DEF Mine
      <4> QED
        BY <3>1, <4>1, <4>2, <4>3, <4>4, <4>5, <4>6 DEF Fail
    <3>4. \A q \in Proc \ {p} : Mine(q)' = Mine(q)
      BY <3>2 DEF Mine
    <3> QED
      BY <2>1, <3>2, <3>3, <3>4, SignedFrame
  <2>3. CASE Crash
    <3>1. \A q \in Proc : pc'[q] = "idle" /\ Mine(q)' = {}
      BY <2>3 DEF Crash, Mine
    <3> QED
      BY <2>1, <3>1, SignedFrame
  <2>4. CASE UNCHANGED vars
    BY <2>1, <2>4, SignedFrame DEF vars, Mine
  <2> QED
    BY <1>3, <2>2, <2>3, <2>4
<1> QED
  BY <1>1, <1>2, <1>3 DEF Next, MintStep

\* What counts are outputs.
LEMMA CountedOutputs == Basic => \A u \in Uid : Counted(u) \in SUBSET B
BY DEF Basic, HandlersInOrder, TypeOK, InOrder, MintJobs, Counted, AnnouncedFor

\* While no operation changes, it is enough that nothing new counts.
LEMMA CoveredFrame ==
    ASSUME Basic, Covered, ops' = ops, \A u \in Uid : Counted(u)' \subseteq Counted(u)
    PROVE  Covered'
<1> SUFFICES ASSUME NEW u \in Uid
             PROVE  IF ops[u] = None THEN Counted(u)' = {}
                    ELSE /\ Worth[Counted(u)'] <= ops[u].minted
                         /\ ops[u].minted <= Ceiling(ops[u].target)
                         /\ \E r \in NewOps : r.target = ops[u].target
  BY DEF Covered
<1>1. Counted(u) \in SUBSET B /\ Counted(u)' \subseteq Counted(u)
  BY CountedOutputs
<1>2. CASE ops[u] = None
  BY <1>1, <1>2 DEF Covered
<1>3. CASE ops[u] # None
  <2>1. Counted(u)' \in SUBSET B
    BY <1>1
  <2>2. /\ Worth[Counted(u)'] \in Nat /\ Worth[Counted(u)] \in Nat
        /\ Worth[Counted(u)'] <= Worth[Counted(u)]
    BY <1>1, <2>1, WorthMonotone
  <2>3. /\ Worth[Counted(u)] <= ops[u].minted /\ ops[u].minted \in Nat
        /\ ops[u].minted <= Ceiling(ops[u].target)
        /\ \E r \in NewOps : r.target = ops[u].target
    BY <1>3 DEF Covered, Basic, TypeOK, Operation
  <2>4. Worth[Counted(u)'] <= ops[u].minted
    BY <2>2, <2>3
  <2> QED
    BY <1>3, <2>3, <2>4
<1> QED
  BY <1>2, <1>3

\* A handler that does not come to announce leaves what counts as it is or drops its own.
LEMMA CountedFrame ==
    ASSUME NEW p \in Proc, announced' = announced,
           \A q \in Proc \ {p} : pc'[q] = pc[q] /\ job'[q] = job[q],
           pc'[p] = "announce" =>
               /\ pc[p] = "announce"
               /\ job'[p].uid = job[p].uid /\ job'[p].outputs = job[p].outputs
    PROVE  \A u \in Uid : Counted(u)' \subseteq Counted(u)
<1> TAKE u \in Uid
<1> SUFFICES ASSUME NEW q \in Proc, pc'[q] = "announce", job'[q].uid = u
             PROVE  /\ pc[q] = "announce" /\ job[q].uid = u
                    /\ job'[q].outputs = job[q].outputs
  BY DEF Counted, AnnouncedFor
<1> QED
  OBVIOUS

\* Every step keeps what counts within the minted amount, and that within the ceiling:
\* UpdateMinted adds outputs that no other request has, to the amount that it loaded.
LEMMA StepCovered ==
    ASSUME Basic, SignedOnce, Covered, [Next]_vars
    PROVE  Covered'
<1>1. ASSUME NEW p \in Proc, StoreOp(p), Storable(job[p]) PROVE Covered'
  <2>1. job[p] \in NewOps /\ job[p].uid \in Uid
    BY <1>1, RequestAssumption DEF StoreOp, Basic, HandlersInOrder, InOrder
  <2> PICK v \in Uid : v = job[p].uid
    BY <2>1
  <2> DEFINE o == [bill |-> job[p].bill, key |-> job[p].key,
                   target |-> job[p].target, minted |-> 0]
  <2>2. o # None /\ o.target = job[p].target /\ o.minted = 0 /\ job[p].target \in Nat
    BY <2>1, RequestAssumption, ParameterAssumption
  <2>3. /\ ops[v] = None
        /\ ops' = [ops EXCEPT ![v] = o]
        /\ \A u \in Uid : Counted(u)' = Counted(u)
    <3>1. /\ pc' = [pc EXCEPT ![p] = "register"] /\ pc[p] = "store"
          /\ job' = job /\ announced' = announced
      BY <1>1 DEF StoreOp, Goto
    <3>2. \A q \in Proc : (pc'[q] = "announce") = (pc[q] = "announce")
      BY <3>1 DEF Basic, TypeOK
    <3> QED
      BY <1>1, <3>1, <3>2 DEF StoreOp, Storable, KeyFree, Counted, AnnouncedFor
  <2> HIDE DEF o
  <2>4. ops'[v] = o /\ \A u \in Uid : u # v => ops'[u] = ops[u]
    BY <2>1, <2>3 DEF Basic, TypeOK
  <2>5. Counted(v)' = {}
    BY <2>1, <2>3 DEF Covered
  <2>6. Worth[Counted(v)'] <= o.minted
    BY <2>2, <2>5, WorthEmpty
  <2>7. o.minted <= Ceiling(o.target)
    BY <2>2, ParameterAssumption DEF Ceiling
  <2>8. \E r \in NewOps : r.target = o.target
    BY <2>1, <2>2
  <2> QED
    BY <2>2, <2>3, <2>4, <2>6, <2>7, <2>8 DEF Covered
<1>2. ASSUME NEW p \in Proc, UpdateMinted(p), Unmoved(job[p]) PROVE Covered'
  <2> PICK v \in Uid : v = job[p].uid
    BY <1>2 DEF UpdateMinted, Basic, HandlersInOrder, InOrder, MintJobs
  <2> PICK S \in SUBSET B : S = job[p].outputs
    BY <1>2 DEF UpdateMinted, Basic, HandlersInOrder, InOrder, MintJobs
  <2> DEFINE m == job[p].minted + Worth[S]
  <2>1. /\ job[p] \in MintJobs /\ v \in Uid /\ ops[v] \in Operation /\ ops[v] # None
        /\ pc[p] = "update" /\ todo[p] = {}
        /\ m <= Ceiling(ops[v].target)
        /\ ops[v].minted = job[p].minted
    BY <1>2 DEF UpdateMinted, Unmoved, Basic, HandlersInOrder, InOrder, MintJobs, TypeOK
  <2>2. /\ S \in SUBSET B /\ Worth[S] \in Nat /\ Counted(v) \in SUBSET B
        /\ Worth[Counted(v)] \in Nat /\ ops[v].minted \in Nat /\ m \in Nat
    BY <2>1, CountedOutputs, WorthAssumption DEF MintJobs, Operation
  <2>3. [ops[v] EXCEPT !.minted = m] \in Operation
    BY <2>1, <2>2 DEF Operation
  <2>4. /\ ops' = [ops EXCEPT ![v] = [ops[v] EXCEPT !.minted = m]]
        /\ pc' = [pc EXCEPT ![p] = "announce"] /\ job' = job /\ announced' = announced
    BY <1>2, <2>1 DEF UpdateMinted, Goto, Basic, TypeOK
  <2>5. Counted(v)' = Counted(v) \cup S
    BY <2>1, <2>4 DEF Basic, TypeOK, Counted, AnnouncedFor
  <2>6. \A u \in Uid : u # v => Counted(u)' = Counted(u)
    BY <2>1, <2>4 DEF Basic, TypeOK, Counted, AnnouncedFor
  <2>7. Counted(v) \cap S = {}
    <3>1. Mine(p) = S
      BY <2>1 DEF Mine
    <3>2. \A e \in announced : S \cap e.outputs = {}
      BY <2>1, <3>1 DEF SignedOnce
    <3>3. \A q \in Proc : pc[q] = "announce" => S \cap job[q].outputs = {}
      <4> SUFFICES ASSUME NEW q \in Proc, pc[q] = "announce"
                   PROVE  S \cap job[q].outputs = {}
        OBVIOUS
      <4>1. Mine(q) = job[q].outputs /\ q # p
        BY <2>1 DEF Mine, Basic, HandlersInOrder, InOrder
      <4> QED
        BY <3>1, <4>1 DEF SignedOnce
    <3> QED
      BY <3>2, <3>3 DEF Counted, AnnouncedFor
  <2>8. Worth[Counted(v)'] = Worth[Counted(v)] + Worth[S]
    BY <2>2, <2>5, <2>7, WorthAssumption
  <2>9. Worth[Counted(v)] <= ops[v].minted /\ \E r \in NewOps : r.target = ops[v].target
    BY <2>1 DEF Covered
  <2>10. Worth[Counted(v)'] <= m
    BY <2>1, <2>2, <2>8, <2>9
  <2>11. ops'[v] = [ops[v] EXCEPT !.minted = m] /\ \A u \in Uid : u # v => ops'[u] = ops[u]
    BY <2>1, <2>4 DEF Basic, TypeOK
  <2> HIDE DEF m
  <2>12. ops'[v].minted = m /\ ops'[v].target = ops[v].target /\ ops'[v] # None
    BY <2>1, <2>3, <2>11, ParameterAssumption DEF Operation
  <2>13. ops'[v].minted <= Ceiling(ops'[v].target)
    BY <2>1, <2>12 DEF m
  <2>14. Worth[Counted(v)'] <= ops'[v].minted
    BY <2>10, <2>12
  <2> SUFFICES ASSUME NEW u \in Uid
               PROVE  IF ops'[u] = None THEN Counted(u)' = {}
                      ELSE /\ Worth[Counted(u)'] <= ops'[u].minted
                           /\ ops'[u].minted <= Ceiling(ops'[u].target)
                           /\ \E r \in NewOps : r.target = ops'[u].target
    BY DEF Covered
  <2>15. CASE u = v
    BY <2>9, <2>12, <2>13, <2>14, <2>15
  <2>16. CASE u # v
    BY <2>6, <2>11, <2>16 DEF Covered
  <2> QED
    BY <2>15, <2>16
<1>3. ASSUME NEW p \in Proc, Announce(p) PROVE Covered'
  <2>1. /\ job[p] \in MintJobs /\ pc[p] = "announce" /\ ops' = ops
        /\ announced' = announced \cup {[uid |-> job[p].uid, outputs |-> job[p].outputs]}
    BY <1>3 DEF Announce, Basic, HandlersInOrder, InOrder
  <2>2. /\ \A q \in Proc \ {p} : pc'[q] = pc[q] /\ job'[q] = job[q]
        /\ pc'[p] = "announce" =>
              job'[p].uid = job[p].uid /\ job'[p].outputs = job[p].outputs
    <3>1. CASE End(p)
      BY <3>1, EndBasic DEF Basic
    <3>2. CASE job' = [job EXCEPT ![p].attempt = @ + 1] /\ UNCHANGED <<pc, todo>>
      <4>1. job'[p] = [job[p] EXCEPT !.attempt = @ + 1]
        BY <3>2 DEF Basic, TypeOK
      <4> QED
        BY <2>1, <3>2, <4>1 DEF Basic, TypeOK, MintJobs
    <3> QED
      BY <1>3, <3>1, <3>2 DEF Announce
  <2>3. ASSUME NEW u \in Uid PROVE Counted(u)' \subseteq Counted(u)
    <3>1. AnnouncedFor(u)' \subseteq Counted(u)
      BY <2>1 DEF Counted, AnnouncedFor
    <3>2. ASSUME NEW q \in Proc, pc'[q] = "announce", job'[q].uid = u
          PROVE  job'[q].outputs \subseteq Counted(u)
      <4>1. pc[q] = "announce" /\ job[q].uid = u /\ job'[q].outputs = job[q].outputs
        BY <2>1, <2>2, <3>2
      <4> QED
        BY <4>1 DEF Counted
    <3> QED
      BY <3>1, <3>2 DEF Counted
  <2> QED
    BY <2>1, <2>3, CoveredFrame
<1>4. ASSUME NEW p \in Proc,
             \/ NewStep(p) /\ ~(StoreOp(p) /\ Storable(job[p]))
             \/ MintStart(p) \/ LoadOp(p) \/ SignBlind(p) \/ Signed(p)
             \/ (UpdateMinted(p) /\ ~Unmoved(job[p])) \/ Retry(p) \/ Fail(p)
      PROVE  Covered'
  <2>1. ops' = ops /\ announced' = announced
    BY <1>4 DEF NewStep, NewStart, LookupBill, StoreOp, Relookup, Register, MintStart, LoadOp,
      SignBlind, Signed, UpdateMinted, Retry, Fail
  <2>2. CASE End(p)
    BY <2>1, <2>2, EndBasic, CountedFrame, CoveredFrame DEF Basic
  <2>3. CASE Retry(p)
    <3>1. job[p] \in MintJobs /\ job'[p] = [job[p] EXCEPT !.attempt = @ + 1]
      BY <2>3 DEF Retry, Basic, HandlersInOrder, TypeOK, InOrder
    <3>2. job'[p].uid = job[p].uid /\ job'[p].outputs = job[p].outputs
      BY <3>1 DEF MintJobs
    <3>3. pc' = pc /\ \A q \in Proc \ {p} : job'[q] = job[q]
      BY <2>3 DEF Retry, Basic, TypeOK
    <3> QED
      BY <2>1, <3>2, <3>3, CountedFrame, CoveredFrame
  <2>4. CASE ~End(p) /\ ~Retry(p)
    <3>1. /\ pc'[p] # "announce"
          /\ \A q \in Proc \ {p} : pc'[q] = pc[q] /\ job'[q] = job[q]
      BY <1>4, <2>4 DEF NewStep, NewStart, LookupBill, StoreOp, Relookup, Register, MintStart,
        LoadOp, SignBlind, Signed, UpdateMinted, Fail, Begin, Goto, Basic, TypeOK
    <3> QED
      BY <2>1, <3>1, CountedFrame, CoveredFrame
  <2> QED
    BY <2>2, <2>3, <2>4
<1>5. CASE Crash
  <2>1. ops' = ops /\ announced' = announced /\ \A q \in Proc : pc'[q] = "idle"
    BY <1>5 DEF Crash
  <2>2. \A u \in Uid : Counted(u)' \subseteq Counted(u)
    BY <2>1 DEF Counted, AnnouncedFor
  <2> QED
    BY <2>1, <2>2, CoveredFrame
<1>6. CASE UNCHANGED vars
  BY <1>6, CoveredFrame DEF vars, Counted, AnnouncedFor
<1> QED
  BY <1>1, <1>2, <1>3, <1>4, <1>5, <1>6 DEF Next, NewStep, MintStep

-----------------------------------------------------------------------------
(* Bills and their registration. *)

\* An operation that is stored keeps its bill and its target; one that is new has taken a
\* bill that no other has, where bills are unique.
LEMMA OpsGrow ==
    ASSUME Basic, [Next]_vars
    PROVE  /\ \A u \in Uid : ops[u] # None =>
                 ops'[u] # None /\ ops'[u].bill = ops[u].bill /\ ops'[u].target = ops[u].target
           /\ \A u, v \in Uid : u # v /\ ops[u] = None /\ ops'[u] # None =>
                 /\ ops'[v] = ops[v]
                 /\ UniqueBill /\ ops[v] # None => ops[v].bill # ops'[u].bill
<1>1. CASE ops' = ops
  BY <1>1
<1>2. ASSUME NEW p \in Proc, StoreOp(p), Storable(job[p])
      PROVE  \E w \in Uid :
                /\ ops[w] = None /\ \A u \in Uid : u # w => ops'[u] = ops[u]
                /\ UniqueBill => \A v \in Uid : ops[v] # None => ops[v].bill # ops'[w].bill
  <2>1. job[p] \in NewOps /\ job[p].uid \in Uid
    BY <1>2, RequestAssumption DEF StoreOp, Basic, HandlersInOrder, InOrder
  <2>2. /\ ops[job[p].uid] = None /\ ops'[job[p].uid].bill = job[p].bill
        /\ \A u \in Uid : u # job[p].uid => ops'[u] = ops[u]
    BY <1>2, <2>1 DEF StoreOp, Storable, KeyFree, Basic, TypeOK
  <2>3. UniqueBill => \A v \in Uid : ops[v] # None => ops[v].bill # job[p].bill
    BY <1>2 DEF Storable, BoundTo
  <2> QED
    BY <2>1, <2>2, <2>3
<1>3. ASSUME NEW p \in Proc, UpdateMinted(p), Unmoved(job[p])
      PROVE  \A u \in Uid :
                /\ ops[u] = None => ops'[u] = ops[u]
                /\ ops[u] # None =>
                      ops'[u] # None /\ ops'[u].bill = ops[u].bill /\ ops'[u].target = ops[u].target
  <2>1. job[p] \in MintJobs
    BY <1>3 DEF UpdateMinted, Basic, HandlersInOrder, InOrder
  <2> DEFINE w == job[p].uid
             m == job[p].minted + Worth[job[p].outputs]
  <2>2. w \in Uid /\ m \in Nat
    BY <2>1, WorthAssumption DEF MintJobs
  <2>3. /\ ops[w] # None /\ ops[w] \in Operation
        /\ ops' = [ops EXCEPT ![w].minted = m]
    BY <1>3, <2>2 DEF UpdateMinted, Unmoved, Basic, TypeOK
  <2> HIDE DEF w, m
  <2>4. ops'[w] = [ops[w] EXCEPT !.minted = m] /\ \A u \in Uid : u # w => ops'[u] = ops[u]
    BY <2>2, <2>3 DEF Basic, TypeOK
  <2>5. ops'[w] \in Operation /\ ops'[w].bill = ops[w].bill /\ ops'[w].target = ops[w].target
    BY <2>2, <2>3, <2>4 DEF Operation
  <2>6. ops'[w] # None
    BY <2>5, ParameterAssumption DEF Operation
  <2> QED
    BY <2>3, <2>4, <2>5, <2>6
<1>4. \/ ops' = ops
      \/ \E p \in Proc : StoreOp(p) /\ Storable(job[p])
      \/ \E p \in Proc : UpdateMinted(p) /\ Unmoved(job[p])
  BY DEF Next, NewStep, MintStep, NewStart, LookupBill, StoreOp, Relookup, Register, MintStart,
     LoadOp, SignBlind, Signed, UpdateMinted, Announce, Retry, Fail, Crash, vars
<1>5. CASE \E p \in Proc : StoreOp(p) /\ Storable(job[p])
  BY <1>2, <1>5
<1>6. CASE \E p \in Proc : UpdateMinted(p) /\ Unmoved(job[p])
  BY <1>3, <1>6
<1> QED
  BY <1>1, <1>4, <1>5, <1>6

\* A request gets to the registration by finding its operation or by storing it.
LEMMA Arrival ==
    ASSUME Basic, [Next]_vars, NEW p \in Proc, pc'[p] = "register"
    PROVE  /\ job'[p] = job[p] /\ job[p] \in NewOps
           /\ \/ pc[p] = "register"
              \/ /\ ops'[job[p].uid] # None
                 /\ ops'[job[p].uid].bill = job[p].bill
                 /\ ops'[job[p].uid].target = job[p].target
<1>1. CASE pc[p] = "register" /\ job'[p] = job[p]
  BY <1>1 DEF Basic, HandlersInOrder, InOrder
<1>2. CASE LookupBill(p) \/ Relookup(p)
  <2>1. job[p] \in NewOps /\ job'[p] = job[p] /\ ops' = ops
    BY <1>2 DEF LookupBill, Relookup, End, Goto, Basic, TypeOK, HandlersInOrder, InOrder
  <2>2. PICK u \in BoundTo(job[p].bill) : SameOp(u, job[p])
    BY <1>2 DEF LookupBill, Relookup, End, Goto, Basic, TypeOK
  <2> QED
    BY <2>1, <2>2 DEF BoundTo, SameOp
<1>3. CASE StoreOp(p)
  <2>1. /\ job[p] \in NewOps /\ job'[p] = job[p] /\ Storable(job[p])
        /\ job[p].uid \in Uid /\ job[p].bill \in Bill /\ job[p].key \in Key
        /\ job[p].target \in Nat
    BY <1>3, RequestAssumption
       DEF StoreOp, Goto, Basic, TypeOK, HandlersInOrder, InOrder
  <2> DEFINE o == [bill |-> job[p].bill, key |-> job[p].key, target |-> job[p].target,
                   minted |-> 0]
  <2>2. o # None
    BY <2>1, ParameterAssumption
  <2>3. ops'[job[p].uid] = o
    BY <1>3, <2>1 DEF StoreOp, Basic, TypeOK
  <2> QED
    BY <2>1, <2>2, <2>3
<1>4. ASSUME NEW q \in Proc, NewStep(q) \/ MintStep(q) \/ Fail(q), q # p
      PROVE  pc'[p] = pc[p] /\ job'[p] = job[p]
  BY <1>4 DEF NewStep, MintStep, NewStart, LookupBill, StoreOp, Relookup, Register, MintStart,
     LoadOp, SignBlind, Signed, UpdateMinted, Announce, Retry, Fail, Begin, End, Goto, Basic,
     TypeOK
<1>5. ASSUME NewStep(p) \/ MintStep(p) \/ Fail(p)
      PROVE  LookupBill(p) \/ Relookup(p) \/ StoreOp(p)
  BY <1>5 DEF NewStep, MintStep, NewStart, Register, MintStart, LoadOp, SignBlind, Signed,
     UpdateMinted, Announce, Retry, Fail, Begin, End, Goto, Basic, TypeOK
<1> QED
  BY <1>1, <1>2, <1>3, <1>4, <1>5 DEF Next, Crash, vars

\* Clowder hears of a bill from Register only.
LEMMA NewlyRegistered ==
    ASSUME [Next]_vars, NEW e \in registered' \ registered
    PROVE  \E p \in Proc : pc[p] = "register" /\ e.bill = job[p].bill /\ e.amount = job[p].target
                          /\ ops' = ops
<1>1. PICK p \in Proc : Register(p)
  BY DEF Next, NewStep, MintStep, NewStart, LookupBill, StoreOp, Relookup, MintStart, LoadOp,
     SignBlind, Signed, UpdateMinted, Announce, Retry, Fail, Crash, vars
<1>2. e = [bill |-> job[p].bill, amount |-> job[p].target]
  BY <1>1 DEF Register
<1> QED
  BY <1>1, <1>2 DEF Register

\* Every step keeps bills with one operation each, and registers no other amount.
LEMMA StepRegistering ==
    ASSUME Basic, [Next]_vars, Registering
    PROVE  Registering'
<1>1. ASSUME NEW p \in Proc, pc'[p] = "register"
      PROVE  LET u == job'[p].uid
             IN  /\ ops'[u] # None /\ ops'[u].bill = job'[p].bill
                 /\ ops'[u].target = job'[p].target
  <2>1. job'[p] = job[p] /\ job[p].uid \in Uid
    BY <1>1, Arrival, RequestAssumption
  <2>2. CASE pc[p] = "register"
    BY <2>1, <2>2, OpsGrow DEF Registering
  <2> QED
    BY <1>1, <2>1, <2>2, Arrival
<1>2. ASSUME UniqueBill PROVE OneOpPerBill'
  <2> SUFFICES ASSUME NEW u \in Uid, NEW v \in Uid, u # v, ops'[u] # None, ops'[v] # None
               PROVE  ops'[u].bill # ops'[v].bill
    BY DEF OneOpPerBill
  <2> QED
    BY <1>2, OpsGrow DEF Registering, OneOpPerBill
<1>3. ASSUME UniqueBill PROVE RegisteredOnce'
  <2> SUFFICES ASSUME NEW e \in registered'
               PROVE  \E u \in BoundTo(e.bill)' :
                         ops'[u].target = e.amount /\ BoundTo(e.bill)' = {u}
    BY DEF RegisteredOnce
  <2>1. \E u \in Uid : ops'[u] # None /\ ops'[u].bill = e.bill /\ ops'[u].target = e.amount
    <3>1. CASE e \in registered
      <4>1. PICK u \in BoundTo(e.bill) : ops[u].target = e.amount
        BY <1>3, <3>1 DEF Registering, RegisteredOnce
      <4> QED
        BY <4>1, OpsGrow DEF BoundTo
    <3>2. CASE e \notin registered
      <4>1. PICK p \in Proc : /\ pc[p] = "register" /\ e.bill = job[p].bill
                              /\ e.amount = job[p].target /\ ops' = ops
        BY <3>2, NewlyRegistered
      <4>2. job[p].uid \in Uid
        BY <4>1, RequestAssumption DEF Basic, HandlersInOrder, InOrder
      <4> QED
        BY <4>1, <4>2 DEF Registering
    <3> QED
      BY <3>1, <3>2
  <2>2. PICK u \in Uid : ops'[u] # None /\ ops'[u].bill = e.bill /\ ops'[u].target = e.amount
    BY <2>1
  <2>3. BoundTo(e.bill)' = {u}
    BY <1>2, <1>3, <2>2 DEF BoundTo, OneOpPerBill
  <2> QED
    BY <2>2, <2>3
<1> QED
  BY <1>1, <1>2, <1>3 DEF Registering

-----------------------------------------------------------------------------
(* The inductive invariant, and what follows from it. *)

\* The invariant that the theorems below rest on holds in every reachable state: what a
\* request has had signed, what it is about to announce and what the row counts are
\* related in every interleaving.
THEOREM Inductive == Spec => []IndInv
<1>1. Init => IndInv
  <2> SUFFICES ASSUME Init PROVE IndInv
    OBVIOUS
  <2>1. Basic
    BY InitBasic
  <2>2. SignedOnce
    BY DEF Init, SignedOnce, Mine
  <2>3. Covered
    BY DEF Init, Covered, Counted, AnnouncedFor
  <2>4. Registering
    BY DEF Init, Registering, OneOpPerBill, RegisteredOnce
  <2> QED
    BY <2>1, <2>2, <2>3, <2>4 DEF IndInv, Basic
<1>2. IndInv /\ [Next]_vars => IndInv'
  BY NextBasic, StepSigned, StepCovered, StepRegistering DEF IndInv, Basic
<1> QED
  BY <1>1, <1>2, PTL DEF Spec

\* AnnouncedIsCounted holds in every behaviour: the mint events clowder accepts for an
\* operation never add up to more than its minted amount, whatever requests interleave,
\* are retried or get lost.
THEOREM CountedInFull == Spec => []AnnouncedIsCounted
<1>1. IndInv => AnnouncedIsCounted
  <2> SUFFICES ASSUME IndInv, NEW u \in Uid, AnnouncedFor(u) # {}
               PROVE  ops[u] # None /\ Worth[AnnouncedFor(u)] <= ops[u].minted
    BY DEF AnnouncedIsCounted
  <2>1. AnnouncedFor(u) \subseteq Counted(u) /\ Counted(u) \in SUBSET B
    BY CountedOutputs DEF Counted, IndInv, Basic
  <2>2. ops[u] # None /\ Worth[Counted(u)] <= ops[u].minted /\ ops[u].minted \in Nat
    BY <2>1 DEF IndInv, Covered, TypeOK, Operation
  <2>3. AnnouncedFor(u) \in SUBSET B
    BY <2>1
  <2>4. /\ Worth[AnnouncedFor(u)] \in Nat /\ Worth[Counted(u)] \in Nat
        /\ Worth[AnnouncedFor(u)] <= Worth[Counted(u)]
    BY <2>1, <2>3, WorthMonotone
  <2> QED
    BY <2>2, <2>4
<1> QED
  BY <1>1, Inductive, PTL

\* Where the repository keeps bills unique, a bill has one operation and is registered with
\* clowder for the target of that operation and for no other amount, although two requests
\* may look the bill up before either stores its operation.
THEOREM Registered == UniqueBill => (Spec => []RegisteredOnce)
<1> SUFFICES ASSUME UniqueBill PROVE Spec => []RegisteredOnce
  OBVIOUS
<1>1. IndInv => RegisteredOnce
  BY DEF IndInv, Registering
<1> QED
  BY <1>1, Inductive, PTL

-----------------------------------------------------------------------------
(* The repository keeps what MintOps promises. *)

OpMap == [u \in Uid |-> OpOf(u)]

\* Operations that do not change look the same from outside.
LEMMA OpMapFrame ==
    ASSUME ops' = ops
    PROVE  OpMap' = OpMap
BY DEF OpMap, OpOf

\* A row with a free key and a free bill binds the bill.
LEMMA StoreBinds ==
    ASSUME UniqueBill, IndInv, NEW p \in Proc, StoreOp(p), Storable(job[p])
    PROVE  Promised!Next
<1>1. job[p] \in NewOps /\ job[p].uid \in Uid /\ job[p].bill \in Bill /\ job[p].target \in Nat
  BY RequestAssumption DEF StoreOp, IndInv, HandlersInOrder, InOrder
<1> PICK v \in Uid : v = job[p].uid
  BY <1>1
<1> PICK e \in Bill : e = job[p].bill
  BY <1>1
<1> PICK c \in {Ceiling(r.target) : r \in NewOps} : c = Ceiling(job[p].target)
  BY <1>1
<1> DEFINE o == [bill |-> job[p].bill, key |-> job[p].key, target |-> job[p].target, minted |-> 0]
<1>2. o # None /\ o.target = job[p].target /\ o.minted = 0 /\ o.bill = e
  BY <1>1, RequestAssumption, ParameterAssumption
<1>3. ops[v] = None /\ ops' = [ops EXCEPT ![v] = o] /\ BoundTo(e) = {}
  BY DEF StoreOp, Storable, KeyFree
<1> HIDE DEF o
<1>4. ops'[v] = o /\ \A u \in Uid : u # v => ops'[u] = ops[u]
  BY <1>3 DEF IndInv, TypeOK
<1>5. /\ OpOf(v) = [state |-> "unbound"]
      /\ OpOf(v)' = [state |-> "bound", bill |-> e, ceiling |-> c, minted |-> 0]
      /\ \A u \in Uid : u # v => OpOf(u)' = OpOf(u)
  BY <1>2, <1>3, <1>4 DEF OpOf
<1>6. \A u \in Uid : OpMap[u] = [state |-> "unbound"] \/ OpMap[u].bill # e
  BY <1>3 DEF OpMap, OpOf, BoundTo
<1>7. OpMap' = [OpMap EXCEPT ![v] = [state |-> "bound", bill |-> e, ceiling |-> c, minted |-> 0]]
  BY <1>5 DEF OpMap
<1>8. OpMap[v] = [state |-> "unbound"]
  BY <1>5 DEF OpMap
<1>9. Promised!Bind(v, e, c)
  BY <1>6, <1>7, <1>8 DEF OpMap, Promised!Bind, Promised!Unbound, Promised!Bound
<1> QED
  BY <1>9 DEF Promised!Next

\* An update of a row that has not moved mints, unless the outputs are worth nothing.
LEMMA UpdateMints ==
    ASSUME IndInv, NEW p \in Proc, UpdateMinted(p), Unmoved(job[p])
    PROVE  Promised!Next \/ OpMap' = OpMap
<1>1. /\ job[p] \in MintJobs /\ job[p].outputs \in SUBSET B /\ job[p].uid \in Uid
  BY DEF UpdateMinted, IndInv, HandlersInOrder, InOrder, MintJobs
<1> PICK v \in Uid : v = job[p].uid
  BY <1>1
<1> PICK m : m = job[p].minted + Worth[job[p].outputs]
  OBVIOUS
<1>2. /\ ops[v] \in Operation /\ ops[v] # None /\ ops[v].minted = job[p].minted
      /\ m <= Ceiling(ops[v].target)
  BY DEF UpdateMinted, Unmoved, IndInv, HandlersInOrder, InOrder, TypeOK
<1>3. Worth[job[p].outputs] \in Nat /\ ops[v].minted \in Nat
  BY <1>1, <1>2, WorthAssumption DEF Operation
<1>4. m \in Nat /\ m >= ops[v].minted
  BY <1>2, <1>3
<1>5. Ceiling(ops[v].target) \in Nat
  BY <1>2, ParameterAssumption DEF Ceiling, Operation
<1>6. /\ ops'[v] = [ops[v] EXCEPT !.minted = m]
      /\ \A u \in Uid : u # v => ops'[u] = ops[u]
  BY DEF UpdateMinted, IndInv, TypeOK
<1>7. ops'[v] \in Operation /\ ops'[v] # None
  BY <1>2, <1>4, <1>6, ParameterAssumption DEF Operation
<1>8. /\ ops'[v].minted = m /\ ops'[v].bill = ops[v].bill /\ ops'[v].target = ops[v].target
  BY <1>2, <1>6 DEF Operation
<1>9. /\ OpMap[v] = [state |-> "bound", bill |-> ops[v].bill,
                     ceiling |-> Ceiling(ops[v].target), minted |-> ops[v].minted]
      /\ OpOf(v)' = [state |-> "bound", bill |-> ops[v].bill,
                     ceiling |-> Ceiling(ops[v].target), minted |-> m]
      /\ \A u \in Uid : u # v => OpOf(u)' = OpOf(u)
  BY <1>2, <1>6, <1>7, <1>8 DEF OpOf, OpMap
<1>10. OpMap' = [OpMap EXCEPT ![v] = [OpMap[v] EXCEPT !.minted = m]]
  BY <1>9 DEF OpMap
<1>11. CASE m = ops[v].minted
  <2>1. [OpMap[v] EXCEPT !.minted = m] = OpMap[v]
    BY <1>9, <1>11
  <2> QED
    BY <1>10, <2>1 DEF OpMap
<1>12. CASE m # ops[v].minted
  <2>1. /\ OpMap[v] # [state |-> "unbound"]
        /\ OpMap[v].minted = ops[v].minted /\ OpMap[v].ceiling = Ceiling(ops[v].target)
    BY <1>9
  <2>2. m > OpMap[v].minted /\ m \in 0..OpMap[v].ceiling
    BY <1>2, <1>3, <1>4, <1>5, <1>12, <2>1
  <2>3. Promised!Mint(v, m)
    BY <1>10, <2>1, <2>2 DEF OpMap, Promised!Mint, Promised!Unbound
  <2> QED
    BY <2>1, <2>2, <2>3 DEF OpMap, Promised!Next, Promised!Unbound
<1> QED
  BY <1>11, <1>12

\* Where the repository keeps bills unique, every step is a step of MintOps or none:
\* ImplementsMintOps holds in every behaviour.
THEOREM Refines == UniqueBill => (Spec => ImplementsMintOps)
<1> SUFFICES ASSUME UniqueBill
             PROVE  Spec => ImplementsMintOps
  OBVIOUS
<1>1. Init => Promised!Init
  BY DEF Init, OpOf, Promised!Init, Promised!Unbound
<1>2. IndInv /\ [Next]_vars => [Promised!Next]_([u \in Uid |-> OpOf(u)])
  <2> SUFFICES ASSUME IndInv, [Next]_vars
               PROVE  Promised!Next \/ OpMap' = OpMap
    BY DEF OpMap
  <2>1. ASSUME NEW p \in Proc, StoreOp(p), Storable(job[p])
        PROVE  Promised!Next \/ OpMap' = OpMap
    BY <2>1, StoreBinds
  <2>2. ASSUME NEW p \in Proc, UpdateMinted(p), Unmoved(job[p])
        PROVE  Promised!Next \/ OpMap' = OpMap
    BY <2>2, UpdateMints
  <2>3. ASSUME NEW p \in Proc,
               \/ NewStep(p) /\ ~(StoreOp(p) /\ Storable(job[p]))
               \/ MintStep(p) /\ ~(UpdateMinted(p) /\ Unmoved(job[p]))
               \/ Fail(p)
        PROVE  Promised!Next \/ OpMap' = OpMap
    <3>1. ops' = ops
      BY <2>3 DEF NewStep, MintStep, NewStart, LookupBill, StoreOp, Relookup, Register,
        MintStart, LoadOp, SignBlind, Signed, UpdateMinted, Announce, Retry, Fail
    <3> QED
      BY <3>1, OpMapFrame
  <2>4. CASE Crash \/ UNCHANGED vars
    BY <2>4, OpMapFrame DEF Crash, vars
  <2> QED
    BY <2>1, <2>2, <2>3, <2>4 DEF Next
<1> QED
  BY <1>1, <1>2, Inductive, PTL DEF Spec, ImplementsMintOps, Promised!Spec
=============================================================================
