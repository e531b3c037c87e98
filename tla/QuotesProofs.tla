---------------------------- MODULE QuotesProofs ----------------------------
(* Theorems about Quotes, for any quotes, enquiries, terms, requests in       *)
(* flight and bounds.  The argument: a request writes what it decided on a    *)
(* copy of the quote, and only if the quote still has the status of the copy; *)
(* in between the terms and the enquiry cannot have changed (KnowsStays).     *)
EXTENDS Quotes, TLAPS

Knows(l, j) == JobInOrder(l, j) /\ CopyIsOf(l, j)

\* Agent a goes to l with job j.
Becomes(a, l, j) ==
    /\ l \in PCs /\ j \in Job
    /\ pc' = [pc EXCEPT ![a] = l]
    /\ job' = [job EXCEPT ![a] = j]

-----------------------------------------------------------------------------
(* Lemmas about records and jobs. *)

LEMMA RecordFacts ==
    ASSUME NEW r \in Record
    PROVE  /\ r # None /\ r.status \in StatusNames /\ r.enquiry \in Enquiry
           /\ r.terms \in Terms \cup {None}
BY NoneAssumption DEF Record

\* An offer that expired is the same offer.
LEMMA CheckedIs ==
    ASSUME NEW r \in Record, NEW at \in Nat
    PROVE  /\ Checked(r, at) \in Record
           /\ Checked(r, at).enquiry = r.enquiry /\ Checked(r, at).terms = r.terms
           /\ \/ Checked(r, at) = r
              \/ r.status = "offered" /\ Checked(r, at).status = "offerexpired"
<1>1. "offerexpired" \in StatusNames
  BY DEF StatusNames, Closed
<1>2. CASE r.status = "offered" /\ at > r.at
  BY <1>1, <1>2 DEF Checked, Record
<1>3. CASE ~(r.status = "offered" /\ at > r.at)
  BY <1>3 DEF Checked
<1> QED BY <1>2, <1>3

\* The decision of a request keeps the terms, and is one that may follow.
LEMMA DecidedIs ==
    ASSUME NEW kind \in {"cancel", "deny", "reject", "accept", "enable", "override", "fail"},
           NEW r \in Record, NEW at \in Nat
    PROVE  /\ Decided(kind, r, at) \in Record
           /\ Decided(kind, r, at).enquiry = r.enquiry
           /\ Decided(kind, r, at).terms = r.terms
           /\ Decided(kind, r, at).status \in Following(From(kind))
           /\ Decided(kind, r, at).status # "offerexpired"
           /\ From(kind) = "pending" => Decided(kind, r, at).status \in {"canceled", "denied"}
           /\ From(kind) # "pending" => Decided(kind, r, at).status \notin {"canceled", "denied"}
           /\ kind \in {"enable", "override"} => Decided(kind, r, at).status = "mintingenabled"
           /\ kind \notin {"enable", "override"} => Decided(kind, r, at).status # "mintingenabled"
           /\ From(kind) \in {"pending", "offered", "accepted", "failedebillvalidation"}
<1> DEFINE d == Decided(kind, r, at)
<1>1. CASE kind = "cancel"
  <2>1. d = [r EXCEPT !.status = "canceled", !.at = at] /\ From(kind) = "pending"
    BY <1>1 DEF Decided, From
  <2>2. d \in Record /\ d.status = "canceled" /\ d.enquiry = r.enquiry /\ d.terms = r.terms
    BY <2>1 DEF Record, StatusNames, Closed
  <2> QED BY <1>1, <2>1, <2>2 DEF Following
<1>2. CASE kind = "deny"
  <2>1. d = [r EXCEPT !.status = "denied", !.at = at] /\ From(kind) = "pending"
    BY <1>2 DEF Decided, From
  <2>2. d \in Record /\ d.status = "denied" /\ d.enquiry = r.enquiry /\ d.terms = r.terms
    BY <2>1 DEF Record, StatusNames, Closed
  <2> QED BY <1>2, <2>1, <2>2 DEF Following
<1>3. CASE kind = "reject"
  <2>1. d = [r EXCEPT !.status = "rejected", !.at = at] /\ From(kind) = "offered"
    BY <1>3 DEF Decided, From
  <2>2. d \in Record /\ d.status = "rejected" /\ d.enquiry = r.enquiry /\ d.terms = r.terms
    BY <2>1 DEF Record, StatusNames, Closed
  <2> QED BY <1>3, <2>1, <2>2 DEF Following
<1>4. CASE kind = "accept"
  <2>1. d = [r EXCEPT !.status = "accepted", !.at = 0] /\ From(kind) = "offered"
    BY <1>4 DEF Decided, From
  <2>2. d \in Record /\ d.status = "accepted" /\ d.enquiry = r.enquiry /\ d.terms = r.terms
    <3>1. PICK z \in Nat : z = 0
      OBVIOUS
    <3> QED BY <2>1, <3>1 DEF Record, StatusNames, Closed
  <2> QED BY <1>4, <2>1, <2>2 DEF Following
<1>5. CASE kind = "enable"
  <2>1. d = [r EXCEPT !.status = "mintingenabled"] /\ From(kind) = "accepted"
    BY <1>5 DEF Decided, From
  <2>2. d \in Record /\ d.status = "mintingenabled" /\ d.enquiry = r.enquiry /\ d.terms = r.terms
    BY <2>1 DEF Record, StatusNames, Closed
  <2> QED BY <1>5, <2>1, <2>2 DEF Following
<1>6. CASE kind = "override"
  <2>1. d = [r EXCEPT !.status = "mintingenabled"] /\ From(kind) = "failedebillvalidation"
    BY <1>6 DEF Decided, From
  <2>2. d \in Record /\ d.status = "mintingenabled" /\ d.enquiry = r.enquiry /\ d.terms = r.terms
    BY <2>1 DEF Record, StatusNames, Closed
  <2> QED BY <1>6, <2>1, <2>2 DEF Following
<1>7. CASE kind = "fail"
  <2>1. d = [r EXCEPT !.status = "failedebillvalidation"] /\ From(kind) = "accepted"
    BY <1>7 DEF Decided, From
  <2>2. d \in Record /\ d.status = "failedebillvalidation" /\ d.enquiry = r.enquiry /\ d.terms = r.terms
    BY <2>1 DEF Record, StatusNames, Closed
  <2> QED BY <1>7, <2>1, <2>2 DEF Following
<1> QED BY <1>1, <1>2, <1>3, <1>4, <1>5, <1>6, <1>7

\* Jobs keep their types.
LEMMA JobFacts ==
    ASSUME NEW j \in Job
    PROVE  /\ j.at \in Nat /\ j.todo \subseteq Quote
           /\ j.quote \in Quote \cup {None} /\ j.new \in Record \cup {None}
BY DEF Job

\* A job is given a quote and a copy of it.
Given(j, q, r) == [j EXCEPT !.quote = q, !.new = r]

LEMMA GivenFacts ==
    ASSUME NEW j \in Job, NEW q \in Quote, NEW r \in Record
    PROVE  /\ Given(j, q, r) \in Job
           /\ Given(j, q, r).kind = j.kind /\ Given(j, q, r).todo = j.todo
           /\ Given(j, q, r).enquiry = j.enquiry /\ Given(j, q, r).at = j.at
           /\ Given(j, q, r).quote = q /\ Given(j, q, r).new = r
BY DEF Given, Job

-----------------------------------------------------------------------------
(* What a step does to a quote, an operation and the fees. *)

\* Quotes are written by updates, and new ones are stored.
LEMMA QuotesWritten ==
    ASSUME [Next]_vars
    PROVE  \/ quotes' = quotes
           \/ \E a \in Agent : /\ Update(a) /\ pc[a] = "update" /\ Unmoved(job[a])
                               /\ quotes' = [quotes EXCEPT ![job[a].quote] = job[a].new]
           \/ \E p \in Proc : Store(p)
<1>1. ASSUME NEW a \in Agent, Update(a)
      PROVE  quotes' = quotes \/ (/\ Update(a) /\ pc[a] = "update" /\ Unmoved(job[a])
                                  /\ quotes' = [quotes EXCEPT ![job[a].quote] = job[a].new])
  BY <1>1 DEF Update
<1>2. quotes' = quotes \/ (\E a \in Agent : Update(a)) \/ \E p \in Proc : Store(p)
  BY DEF Next, RequestStep, MonitorStep, EnableStep, Request, LoadQuote, Listed, LoadDecision,
     Keyset, Enquire, Search, Decide, LoadOverride, SignFees, AddOperation, CollectFees,
     ListAccepted, CheckQuote, Validate, ValidateFails, Endorse, Tick, Fail, Crash, Begin, vars, Agent
<1> QED BY <1>1, <1>2

\* A quote that is stored is the pending one of an enquiry.
LEMMA StoreIs ==
    ASSUME QuotesInv, NEW p \in Proc, Store(p)
    PROVE  \E q \in Quote \ Stored, r \in Record :
              /\ quotes' = [quotes EXCEPT ![q] = r]
              /\ r.status = "pending" /\ r.terms = None
<1>1. PICK q \in Quote \ Stored : Store(p)!(q)
  BY DEF Store
<1>2. p \in Agent /\ job[p] \in Job
  BY DEF Agent, QuotesInv, TypeOK
<1>3. job[p].enquiry \in Enquiry /\ job[p].at \in Nat
  BY <1>1, <1>2, JobFacts DEF QuotesInv, JobInOrder
<1> DEFINE r == [status |-> "pending", enquiry |-> job[p].enquiry, submitted |-> job[p].at,
                 at |-> 0, terms |-> None]
<1>4. r \in Record
  BY <1>3 DEF Record, StatusNames
<1> QED BY <1>1, <1>4

\* What the others can rely on: a stored quote stays, with its enquiry and its terms, and
\* moves on in its status.
Moved(q) ==
    /\ quotes'[q] \in Record
    /\ quotes'[q].enquiry = quotes[q].enquiry
    /\ quotes[q].terms # None => quotes'[q].terms = quotes[q].terms
    /\ quotes'[q] # quotes[q] => quotes'[q].status \in Following(quotes[q].status)
    /\ Sound(quotes'[q])
    /\ quotes'[q].status = "mintingenabled" /\ quotes[q].status # "mintingenabled" =>
          op[q] # Treasury!Unbound /\ q \in fees

LEMMA QuotesMove ==
    ASSUME QuotesInv, [Next]_vars, NEW q \in Stored
    PROVE  Moved(q)
<1>0. quotes[q] \in Record /\ Sound(quotes[q]) /\ q \in Quote
  BY DEF QuotesInv, TypeOK, Stored
<1>1. CASE quotes' = quotes
  BY <1>0, <1>1 DEF Moved
<1>2. ASSUME NEW p \in Proc, Store(p) PROVE Moved(q)
  <2>1. PICK o \in Quote \ Stored, r \in Record : quotes' = [quotes EXCEPT ![o] = r]
    BY <1>2, StoreIs
  <2>2. quotes'[q] = quotes[q]
    BY <1>0, <2>1 DEF QuotesInv, TypeOK
  <2> QED BY <1>0, <2>2 DEF Moved
<1>3. ASSUME NEW a \in Agent, pc[a] = "update", Unmoved(job[a]),
             quotes' = [quotes EXCEPT ![job[a].quote] = job[a].new]
      PROVE  Moved(q)
  <2>1. job[a].quote \in Stored /\ job[a].new \in Record
    <3>1. job[a] \in Job /\ JobInOrder(pc[a], job[a])
      BY DEF QuotesInv, TypeOK
    <3> QED BY <1>3, <3>1, JobFacts DEF JobInOrder
  <2>2. CASE q # job[a].quote
    <3>1. quotes'[q] = quotes[q]
      BY <1>0, <1>3, <2>2 DEF QuotesInv, TypeOK
    <3> QED BY <1>0, <3>1 DEF Moved
  <2>3. CASE q = job[a].quote
    <3>1. quotes'[q] = job[a].new
      BY <1>0, <1>3, <2>3 DEF QuotesInv, TypeOK
    <3>2. /\ job[a].new.enquiry = quotes[q].enquiry
          /\ job[a].new.status \in Following(quotes[q].status)
          /\ Sound(job[a].new)
          /\ quotes[q].status # "pending" => job[a].new.terms = quotes[q].terms
      BY <1>3, <2>3 DEF QuotesInv, JobInOrder, CopyIsOf, Unmoved
    <3>3. quotes[q].status = "pending" => quotes[q].terms = None
      BY <1>0 DEF Sound
    <3>4. job[a].new.status = "mintingenabled" => op[q] # Treasury!Unbound /\ q \in fees
      BY <1>3, <2>3 DEF QuotesInv, CopyIsOf
    <3> QED BY <2>1, <3>1, <3>2, <3>3, <3>4 DEF Moved
  <2> QED BY <2>2, <2>3
<1> QED BY <1>1, <1>2, <1>3, QuotesWritten

\* Operations are bound by the treasury for quotes that agents enable, and stay bound.
LEMMA OpsBound ==
    ASSUME [Next]_vars
    PROVE  \/ op' = op
           \/ \E a \in Agent : /\ AddOperation(a) /\ pc[a] = "bind"
                               /\ Treasury!Bind(job[a].quote, job[a].new.enquiry.bill,
                                                job[a].new.terms)
<1>1. ASSUME NEW a \in Agent, AddOperation(a)
      PROVE  op' = op \/ Treasury!Bind(job[a].quote, job[a].new.enquiry.bill, job[a].new.terms)
  BY <1>1 DEF AddOperation
<1>2. ASSUME NEW a \in Agent, AddOperation(a) PROVE pc[a] = "bind"
  BY <1>2 DEF AddOperation
<1>3. op' = op \/ \E a \in Agent : AddOperation(a)
  BY DEF Next, RequestStep, MonitorStep, EnableStep, Request, LoadQuote, Listed, LoadDecision,
     Keyset, Enquire, Search, Decide, Store, LoadOverride, SignFees, CollectFees, Update,
     ListAccepted, CheckQuote, Validate, ValidateFails, Endorse, Tick, Fail, Crash, Begin, vars, Agent
<1> QED BY <1>1, <1>2, <1>3

LEMMA OpsStay ==
    ASSUME QuotesInv, [Next]_vars
    PROVE  /\ op' = [q \in Quote |-> op'[q]]
           /\ \A q \in Quote : op[q] # Treasury!Unbound => op'[q] = op[q]
<1>1. CASE op' = op
  BY <1>1 DEF QuotesInv
<1>2. ASSUME NEW u, NEW b, NEW c, Treasury!Bind(u, b, c)
      PROVE  /\ op' = [q \in Quote |-> op'[q]]
             /\ \A q \in Quote : op[q] # Treasury!Unbound => op'[q] = op[q]
  <2>1. op[u] = Treasury!Unbound /\ op' = [op EXCEPT ![u] = Treasury!Bound(b, c, 0)]
    BY <1>2 DEF Treasury!Bind
  <2>2. op = [q \in Quote |-> op[q]]
    BY DEF QuotesInv
  <2> QED BY <2>1, <2>2
<1> QED BY <1>1, <1>2, OpsBound

LEMMA FeesGrow ==
    ASSUME [Next]_vars
    PROVE  fees \subseteq fees'
BY DEF Next, RequestStep, MonitorStep, EnableStep, Request, LoadQuote, Listed, LoadDecision,
   Keyset, Enquire, Search, Decide, Store, LoadOverride, SignFees, AddOperation, CollectFees,
   Update, ListAccepted, CheckQuote, Validate, ValidateFails, Endorse, Tick, Fail, Crash, Begin, vars

\* A quote that was accepted is accepted or a step further for good.
LEMMA LaterStays ==
    \A s \in AcceptedOrLater : Following(s) \subseteq AcceptedOrLater
BY DEF AcceptedOrLater, Following

\* Whatever the other agents do between two steps of one, what it knows stays true.
LEMMA KnowsStays ==
    ASSUME QuotesInv, [Next]_vars, NEW l \in PCs, NEW j \in Job, Knows(l, j)
    PROVE  Knows(l, j)'
<1> USE DEF Knows
<1>1. \A q \in Stored : q \in Quote /\ quotes'[q] # None /\ Moved(q)
  BY QuotesMove, RecordFacts DEF Moved, Stored
<1>2. \A q \in Stored : quotes[q].status \in AcceptedOrLater =>
         quotes'[q].status \in AcceptedOrLater
  BY <1>1, LaterStays DEF Moved
<1>3. JobInOrder(l, j)'
  BY <1>1 DEF JobInOrder, Moved, Stored
<1>4. CASE l \in {"fees", "bind", "collect"}
  <2>1. j.quote \in Stored /\ j.new.terms = quotes[j.quote].terms
        /\ quotes[j.quote].status \in AcceptedOrLater
    BY <1>4 DEF JobInOrder, CopyIsOf
  <2>2. quotes[j.quote].terms # None
    BY <2>1, ParameterAssumption DEF QuotesInv, Sound, AcceptedOrLater
  <2>3. quotes'[j.quote].terms = quotes[j.quote].terms
    BY <1>1, <2>1, <2>2 DEF Moved
  <2>4. l = "collect" => op'[j.quote] # Treasury!Unbound
    BY <1>1, <2>1, OpsStay DEF CopyIsOf
  <2> QED BY <1>2, <1>3, <1>4, <2>1, <2>3, <2>4 DEF CopyIsOf, Treasury!Unbound
<1>5. CASE l = "update"
  <2>1. /\ j.quote \in Stored /\ Sound(j.new) /\ j.new.status \in Following(Found(j))
        /\ \/ j.new.status = "offerexpired"
           \/ j.kind \in Decisions \cup {"enable", "fail", "override"}
    BY <1>5 DEF JobInOrder, CopyIsOf
  <2>2. ASSUME Found(j) # "pending"
        PROVE  j.new.terms = quotes'[j.quote].terms
    <3>1. j.new.terms = quotes[j.quote].terms
      BY <1>5, <2>2 DEF CopyIsOf
    <3>2. j.new.status \notin {"pending", "canceled", "denied"}
      BY <2>1, <2>2 DEF Found, From, Following, Decisions
    <3>3. quotes[j.quote].terms # None
      BY <2>1, <3>1, <3>2, ParameterAssumption DEF Sound
    <3> QED BY <1>1, <2>1, <3>1, <3>3 DEF Moved
  <2>3. ASSUME j.new.status = "mintingenabled"
        PROVE  op'[j.quote] # Treasury!Unbound /\ j.quote \in fees'
    BY <1>1, <1>5, <2>1, <2>3, OpsStay, FeesGrow DEF CopyIsOf
  <2>4. Found(j)' = Found(j) /\ Sound(j.new)' = Sound(j.new)
    BY DEF Found, Sound
  <2> QED BY <1>3, <1>5, <2>1, <2>2, <2>3, <2>4 DEF CopyIsOf, Treasury!Unbound, Following
<1>6. CASE l \notin {"fees", "bind", "collect", "update"}
  BY <1>3, <1>6 DEF CopyIsOf
<1> QED BY <1>4, <1>5, <1>6

-----------------------------------------------------------------------------
(* What an agent knows after a step of its own. *)

Goes(a) == \E l \in PCs, j \in Job : Becomes(a, l, j) /\ Knows(l, j)

\* It is easy to know enough where nothing is decided.
LEMMA RestKnows ==
    ASSUME NEW l \in {"idle", "check", "load"}, NEW j, j.todo \subseteq Stored,
           j.kind # "enquire"
    PROVE  Knows(l, j)
BY DEF Knows, JobInOrder, CopyIsOf

\* What an agent knows, and which types its job has.
LEMMA KnowsNow ==
    ASSUME QuotesInv, NEW a \in Agent
    PROVE  /\ Knows(pc[a], job[a]) /\ job[a] \in Job /\ pc[a] \in PCs
           /\ job[a].at \in Nat /\ job[a].todo \subseteq Stored
           /\ pc \in [Agent -> PCs] /\ job \in [Agent -> Job]
BY JobFacts DEF QuotesInv, TypeOK, Knows, JobInOrder

LEMMA ProceedGoes ==
    ASSUME QuotesInv, NEW a \in Agent, NEW rest \in SUBSET Stored, Proceed(a, rest)
    PROVE  Goes(a)
<1>1. job[a].at \in Nat /\ rest \in SUBSET Quote /\ "idle" \in PCs /\ "check" \in PCs
  BY KnowsNow DEF Stored, PCs
<1>2. CASE rest # {}
  <2> DEFINE j == NewJob("enable", job[a].at, rest, None)
  <2>1. j \in Job /\ j.kind = "enable" /\ j.todo = rest
    BY <1>1 DEF NewJob, Job
  <2>2. pc' = [pc EXCEPT ![a] = "check"] /\ job' = [job EXCEPT ![a] = j]
    BY <1>2 DEF Proceed, Goto
  <2>3. Knows("check", j)
    BY <2>1, RestKnows
  <2> HIDE DEF j
  <2> QED BY <1>1, <2>1, <2>2, <2>3 DEF Goes, Becomes
<1>3. CASE rest = {}
  <2>1. NoJob \in Job /\ NoJob.kind = "none" /\ NoJob.todo = {}
    BY DEF NoJob, NewJob, Job
  <2>2. Knows("idle", NoJob)
    BY <2>1, RestKnows
  <2> QED BY <1>1, <1>3, <2>1, <2>2 DEF Proceed, Goto, Goes, Becomes
<1> QED BY <1>2, <1>3

LEMMA EndGoes ==
    ASSUME QuotesInv, NEW a \in Agent, End(a)
    PROVE  Goes(a)
BY KnowsNow, ProceedGoes DEF End

\* An agent that goes on with its job as it is.
LEMMA GotoGoes ==
    ASSUME QuotesInv, NEW a \in Agent, NEW l \in PCs, Goto(a, l), job' = job,
           Knows(l, job[a])
    PROVE  Goes(a)
<1>1. job' = [job EXCEPT ![a] = job[a]]
  BY KnowsNow
<1> QED BY <1>1, KnowsNow DEF Goto, Goes, Becomes

LEMMA BeginGoes ==
    ASSUME QuotesInv, NEW a \in Agent, NEW l \in {"load", "check"},
           NEW kind \in Requests \cup {"none", "enable", "fail"}, kind # "enquire",
           NEW todo \in SUBSET Stored, Begin(a, l, kind, todo, None)
    PROVE  Goes(a)
<1> DEFINE j == NewJob(kind, now, todo, None)
<1>1. now \in Nat /\ todo \in SUBSET Quote /\ l \in PCs
  BY ParameterAssumption DEF QuotesInv, TypeOK, Stored, PCs
<1>2. j \in Job /\ j.kind = kind /\ j.todo = todo
  BY <1>1 DEF NewJob, Job
<1>3. Knows(l, j)
  BY <1>2, RestKnows
<1>4. pc' = [pc EXCEPT ![a] = l] /\ job' = [job EXCEPT ![a] = j]
  BY DEF Begin, Goto
<1> HIDE DEF j
<1> QED BY <1>1, <1>2, <1>3, <1>4 DEF Goes, Becomes

\* An agent is about to do something with the copy r of quote q.
LEMMA CopyGoes ==
    ASSUME QuotesInv, NEW a \in Agent, NEW l \in {"keyset", "update", "decide", "fees"},
           NEW q \in Stored, NEW r \in Record,
           Goto(a, l), job' = [job EXCEPT ![a].quote = q, ![a].new = r],
           r.enquiry = quotes[q].enquiry,
           l = "decide" => job[a].kind = "enquire",
           CopyIsOf(l, Given(job[a], q, r))
    PROVE  Goes(a)
<1> DEFINE j == Given(job[a], q, r)
<1>1. q \in Quote /\ l \in PCs /\ r # None
  BY RecordFacts DEF Stored, PCs
<1>2. /\ j \in Job /\ j.kind = job[a].kind /\ j.todo = job[a].todo
      /\ j.enquiry = job[a].enquiry /\ j.quote = q /\ j.new = r
  BY <1>1, KnowsNow, GivenFacts
<1>3. job' = [job EXCEPT ![a] = j]
  BY KnowsNow DEF Given
<1>4. /\ job[a].todo \subseteq Stored
      /\ job[a].kind = "enquire" => job[a].enquiry \in Enquiry
  BY KnowsNow DEF Knows, JobInOrder
<1>5. CopyIsOf(l, j)
  OBVIOUS
<1> HIDE DEF j
<1>6. JobInOrder(l, j)
  BY <1>1, <1>2, <1>4 DEF JobInOrder
<1> QED BY <1>1, <1>2, <1>3, <1>5, <1>6 DEF Goes, Becomes, Goto, Knows

\* The copy of an offer that expired.
LEMMA ExpiredCopy ==
    ASSUME QuotesInv, NEW q \in Stored, NEW j \in Job, NEW at \in Nat,
           Checked(quotes[q], at) # quotes[q]
    PROVE  LET r == Checked(quotes[q], at)
           IN  /\ r \in Record /\ r.enquiry = quotes[q].enquiry
               /\ CopyIsOf("update", Given(j, q, r))
<1> DEFINE r == Checked(quotes[q], at)
           k == Given(j, q, r)
<1>1. q \in Quote /\ quotes[q] \in Record /\ Sound(quotes[q])
  BY DEF QuotesInv, TypeOK, Stored
<1>2. /\ r \in Record /\ r.enquiry = quotes[q].enquiry /\ r.terms = quotes[q].terms
      /\ quotes[q].status = "offered" /\ r.status = "offerexpired"
  BY <1>1, CheckedIs
<1> HIDE DEF r
<1>3. k \in Job /\ k.quote = q /\ k.new = r
  BY <1>1, <1>2, GivenFacts
<1> HIDE DEF k
<1>4. Found(k) = "offered"
  BY <1>2, <1>3 DEF Found, From
<1>5. CopyIsOf("update", k)
  BY <1>1, <1>2, <1>3, <1>4 DEF CopyIsOf, Following, Sound
<1> QED BY <1>2, <1>5 DEF r, k

\* The copy that a decision was made on.
LEMMA DecidedCopy ==
    ASSUME QuotesInv, NEW q \in Stored, NEW j \in Job, NEW at \in Nat,
           j.kind \in {"cancel", "deny", "accept", "reject"}, quotes[q].status = From(j.kind)
    PROVE  LET r == Decided(j.kind, quotes[q], at)
           IN  /\ r \in Record /\ r.enquiry = quotes[q].enquiry
               /\ CopyIsOf("update", Given(j, q, r))
<1> DEFINE r == Decided(j.kind, quotes[q], at)
           k == Given(j, q, r)
<1>1. q \in Quote /\ quotes[q] \in Record /\ Sound(quotes[q])
  BY DEF QuotesInv, TypeOK, Stored
<1>2. /\ r \in Record /\ r.enquiry = quotes[q].enquiry /\ r.terms = quotes[q].terms
      /\ r.status \in Following(From(j.kind)) /\ r.status # "offerexpired"
      /\ From(j.kind) = "pending" => r.status \in {"canceled", "denied"}
      /\ From(j.kind) # "pending" => r.status \notin {"canceled", "denied"}
      /\ r.status # "mintingenabled"
  <2>1. PICK kind \in {"cancel", "deny", "reject", "accept", "enable", "override", "fail"} :
           kind = j.kind /\ kind \notin {"enable", "override"}
    OBVIOUS
  <2>2. /\ Decided(kind, quotes[q], at) \in Record
        /\ Decided(kind, quotes[q], at).enquiry = quotes[q].enquiry
        /\ Decided(kind, quotes[q], at).terms = quotes[q].terms
        /\ Decided(kind, quotes[q], at).status \in Following(From(kind))
        /\ Decided(kind, quotes[q], at).status # "offerexpired"
    BY <1>1, DecidedIs, ZenonT(60)
  <2>3. /\ From(kind) = "pending" => Decided(kind, quotes[q], at).status \in {"canceled", "denied"}
        /\ From(kind) # "pending" => Decided(kind, quotes[q], at).status \notin {"canceled", "denied"}
    BY <1>1, DecidedIs, ZenonT(60)
  <2>4. Decided(kind, quotes[q], at).status # "mintingenabled"
    BY <1>1, <2>1, DecidedIs
  <2> QED BY <2>1, <2>2, <2>3, <2>4
<1> HIDE DEF r
<1>3. k \in Job /\ k.quote = q /\ k.new = r /\ k.kind = j.kind
  BY <1>1, <1>2, GivenFacts
<1> HIDE DEF k
<1>4. Found(k) = From(j.kind)
  BY <1>2, <1>3 DEF Found
<1>5. From(j.kind) \in {"pending", "offered"}
  BY DEF From
<1>6. Sound(r)
  <2>1. CASE From(j.kind) = "pending"
    BY <1>1, <1>2, <2>1 DEF Sound
  <2>2. CASE From(j.kind) = "offered"
    BY <1>1, <1>2, <2>2 DEF Sound, Following
  <2> QED BY <1>5, <2>1, <2>2
<1>7. CopyIsOf("update", k)
  BY <1>2, <1>3, <1>4, <1>6 DEF CopyIsOf, Decisions
<1> QED BY <1>2, <1>7 DEF r, k

-----------------------------------------------------------------------------
(* The steps of requests. *)

LEMMA StoredFacts ==
    ASSUME QuotesInv, NEW q \in Stored
    PROVE  q \in Quote /\ quotes[q] \in Record /\ Sound(quotes[q])
BY DEF QuotesInv, TypeOK, Stored

LEMMA RequestGoes ==
    ASSUME QuotesInv, NEW p \in Proc, Request(p)
    PROVE  Goes(p)
<1>0. p \in Agent
  BY DEF Agent
<1>1. ASSUME NEW kind \in Requests \cap (Decisions \cup {"lookup", "override"}), NEW q \in Stored,
             Begin(p, "load", kind, {q}, None)
      PROVE  Goes(p)
  <2>1. {q} \in SUBSET Stored /\ kind # "enquire"
    BY DEF Decisions
  <2> QED BY <1>0, <1>1, <2>1, BeginGoes
<1>2. ASSUME "list" \in Requests, Begin(p, "load", "list", WithStatus("offered"), None)
      PROVE  Goes(p)
  <2>1. WithStatus("offered") \in SUBSET Stored
    BY DEF WithStatus
  <2> QED BY <1>0, <1>2, <2>1, BeginGoes
<1> QED BY <1>1, <1>2 DEF Request

\* A look-up or a list goes on.
LEMMA LoadMore ==
    ASSUME QuotesInv, NEW a \in Agent, NEW q, job[a].kind # "enquire",
           pc' = [pc EXCEPT ![a] = "load"], job' = [job EXCEPT ![a].todo = @ \ {q}]
    PROVE  Goes(a)
<1> DEFINE j == [job[a] EXCEPT !.todo = job[a].todo \ {q}]
<1>1. "load" \in PCs /\ job[a] \in Job /\ job[a].todo \subseteq Stored
  BY KnowsNow DEF PCs
<1>2. /\ j \in Job /\ j.kind = job[a].kind /\ j.todo = job[a].todo \ {q}
  BY <1>1 DEF Job, Stored
<1>3. job' = [job EXCEPT ![a] = j]
  BY KnowsNow
<1> HIDE DEF j
<1>4. Knows("load", j)
  BY <1>1, <1>2, RestKnows
<1> QED BY <1>1, <1>2, <1>3, <1>4 DEF Goes, Becomes

LEMMA LoadQuoteGoes ==
    ASSUME QuotesInv, NEW p \in Proc, LoadQuote(p)
    PROVE  Goes(p)
<1>0. p \in Agent
  BY DEF Agent
<1>1. PICK q \in job[p].todo : LoadQuote(p)!(q)
  BY DEF LoadQuote
<1> DEFINE r == Checked(quotes[q], job[p].at)
<1>2. /\ pc[p] = "load" /\ job[p].kind \in {"lookup", "list", "offer"}
      /\ IF r # quotes[q]
         THEN Write(p, q, r)
         ELSE IF job[p].kind = "offer"
         THEN IF r.status = "pending"
              THEN Goto(p, "keyset") /\ job' = [job EXCEPT ![p].quote = q, ![p].new = r]
              ELSE End(p)
         ELSE job' = [job EXCEPT ![p].todo = @ \ {q}] /\ UNCHANGED pc
  BY <1>1
<1>3. /\ q \in Stored /\ job[p] \in Job /\ job[p].at \in Nat /\ r \in Record
      /\ r.enquiry = quotes[q].enquiry
  BY <1>0, <1>1, KnowsNow, StoredFacts, CheckedIs
<1>4. CASE r # quotes[q]
  <2>1. CopyIsOf("update", Given(job[p], q, r))
    BY <1>3, <1>4, ExpiredCopy
  <2>2. Goto(p, "update") /\ job' = [job EXCEPT ![p].quote = q, ![p].new = r]
    BY <1>2, <1>4 DEF Write
  <2> QED BY <1>0, <1>3, <2>1, <2>2, CopyGoes
<1>5. CASE r = quotes[q] /\ job[p].kind = "offer" /\ r.status = "pending"
  <2>1. Given(job[p], q, r).kind = "offer"
    BY <1>3, <1>5, StoredFacts, GivenFacts
  <2>2. CopyIsOf("keyset", Given(job[p], q, r))
    BY <2>1 DEF CopyIsOf
  <2>3. Goto(p, "keyset") /\ job' = [job EXCEPT ![p].quote = q, ![p].new = r]
    BY <1>2, <1>5
  <2> QED BY <1>0, <1>3, <2>2, <2>3, CopyGoes
<1>6. CASE r = quotes[q] /\ job[p].kind = "offer" /\ r.status # "pending"
  BY <1>0, <1>2, <1>6, EndGoes
<1>7. CASE r = quotes[q] /\ job[p].kind # "offer"
  <2>1. pc' = [pc EXCEPT ![p] = "load"] /\ job' = [job EXCEPT ![p].todo = @ \ {q}]
    BY <1>0, <1>2, <1>7, KnowsNow
  <2> QED BY <1>0, <1>2, <2>1, LoadMore
<1> QED BY <1>4, <1>5, <1>6, <1>7

LEMMA LoadDecisionGoes ==
    ASSUME QuotesInv, NEW p \in Proc, LoadDecision(p)
    PROVE  Goes(p)
<1>0. p \in Agent
  BY DEF Agent
<1>1. PICK q \in job[p].todo : LoadDecision(p)!(q)
  BY DEF LoadDecision
<1> DEFINE r == IF job[p].kind = "accept" THEN Checked(quotes[q], job[p].at) ELSE quotes[q]
<1>2. /\ job[p].kind \in {"cancel", "deny", "accept", "reject"}
      /\ IF r.status = From(job[p].kind)
         THEN Write(p, q, Decided(job[p].kind, r, job[p].at)) ELSE End(p)
  BY <1>1
<1>3. q \in Stored /\ job[p] \in Job /\ job[p].at \in Nat /\ quotes[q] \in Record
  BY <1>0, <1>1, KnowsNow, StoredFacts
<1>4. CASE r.status = From(job[p].kind)
  <2>1. r = quotes[q]
    <3>1. job[p].kind = "accept" => From(job[p].kind) = "offered"
      BY DEF From
    <3> QED BY <1>3, <1>4, <3>1, CheckedIs
  <2> DEFINE n == Decided(job[p].kind, quotes[q], job[p].at)
  <2>2. /\ n \in Record /\ n.enquiry = quotes[q].enquiry
        /\ CopyIsOf("update", Given(job[p], q, n))
    BY <1>2, <1>3, <1>4, <2>1, DecidedCopy
  <2>3. Goto(p, "update") /\ job' = [job EXCEPT ![p].quote = q, ![p].new = n]
    BY <1>2, <1>4, <2>1 DEF Write
  <2> HIDE DEF n
  <2> QED BY <1>0, <1>3, <2>2, <2>3, CopyGoes
<1>5. CASE r.status # From(job[p].kind)
  BY <1>0, <1>2, <1>5, EndGoes
<1> QED BY <1>4, <1>5

LEMMA KeysetGoes ==
    ASSUME QuotesInv, NEW p \in Proc, Keyset(p)
    PROVE  Goes(p)
<1>0. p \in Agent
  BY DEF Agent
<1>1. PICK t \in Terms, ttl \in Ttls :
         /\ pc[p] = "keyset"
         /\ Write(p, job[p].quote,
                  [job[p].new EXCEPT !.status = "offered", !.terms = t, !.at = ttl])
  BY DEF Keyset
<1> DEFINE q == job[p].quote
           r == [job[p].new EXCEPT !.status = "offered", !.terms = t, !.at = ttl]
<1>2. /\ job[p].kind = "offer" /\ q \in Stored /\ job[p].new \in Record
      /\ job[p].new.enquiry = quotes[q].enquiry /\ job[p] \in Job
  BY <1>0, <1>1, KnowsNow, JobFacts DEF Knows, JobInOrder, CopyIsOf
<1>3. /\ r \in Record /\ r.status = "offered" /\ r.terms = t /\ r.enquiry = quotes[q].enquiry
  BY <1>2, ParameterAssumption DEF Record, StatusNames
<1>4. Goto(p, "update") /\ job' = [job EXCEPT ![p].quote = q, ![p].new = r]
  BY <1>1 DEF Write
<1> HIDE DEF r
<1>5. /\ Given(job[p], q, r).kind = "offer" /\ Given(job[p], q, r).new = r
  BY <1>2, <1>3, StoredFacts, GivenFacts
<1>6. Found(Given(job[p], q, r)) = "pending"
  BY <1>3, <1>5 DEF Found, From
<1>7. CopyIsOf("update", Given(job[p], q, r))
  BY <1>3, <1>5, <1>6 DEF CopyIsOf, Decisions, Following, Sound
<1> HIDE DEF q
<1> QED BY <1>0, <1>2, <1>3, <1>4, <1>7, CopyGoes

\* An enquiry looks for the quote of its bill and holder, and stores one if it may.
LEMMA EnquiryGoes ==
    ASSUME QuotesInv, NEW p \in Proc, Enquire(p) \/ Search(p) \/ Decide(p) \/ Store(p)
    PROVE  Goes(p)
<1>0. p \in Agent
  BY DEF Agent
<1>1. CASE Enquire(p)
  <2>1. PICK e \in Enquiry : "enquire" \in Requests /\ Begin(p, "search", "enquire", {}, e)
    BY <1>1 DEF Enquire
  <2> DEFINE j == NewJob("enquire", now, {}, e)
  <2>2. j \in Job /\ j.kind = "enquire" /\ j.todo = {} /\ j.enquiry = e
    BY <2>1, ParameterAssumption DEF NewJob, Job, QuotesInv, TypeOK
  <2>3. Knows("search", j)
    BY <2>2 DEF Knows, JobInOrder, CopyIsOf
  <2>4. pc' = [pc EXCEPT ![p] = "search"] /\ job' = [job EXCEPT ![p] = j] /\ "search" \in PCs
    BY <2>1 DEF Begin, Goto, PCs
  <2> HIDE DEF j
  <2> QED BY <2>2, <2>3, <2>4 DEF Goes, Becomes
<1>2. ASSUME Goto(p, "store"), job' = job, pc[p] \in {"search", "decide"}
      PROVE  Goes(p)
  <2>1. Knows("store", job[p]) /\ "store" \in PCs
    BY <1>0, <1>2, KnowsNow DEF Knows, JobInOrder, CopyIsOf, PCs
  <2> QED BY <1>0, <1>2, <2>1, GotoGoes
<1>3. CASE Search(p)
  <2>1. CASE Goto(p, "store") /\ UNCHANGED job
    BY <1>2, <1>3, <2>1 DEF Search
  <2>2. ASSUME NEW q \in Stored, pc[p] = "search",
               LET r == Checked(quotes[q], job[p].at)
               IN  IF r # quotes[q] THEN Write(p, q, r)
                   ELSE Goto(p, "decide") /\ job' = [job EXCEPT ![p].quote = q, ![p].new = r]
        PROVE  Goes(p)
    <3> DEFINE r == Checked(quotes[q], job[p].at)
    <3>1. /\ job[p] \in Job /\ job[p].at \in Nat /\ r \in Record /\ job[p].kind = "enquire"
          /\ r.enquiry = quotes[q].enquiry
      BY <1>0, <2>2, KnowsNow, StoredFacts, CheckedIs DEF Knows, JobInOrder
    <3>2. CASE r # quotes[q]
      <4>1. CopyIsOf("update", Given(job[p], q, r))
        BY <3>1, <3>2, ExpiredCopy
      <4>2. Goto(p, "update") /\ job' = [job EXCEPT ![p].quote = q, ![p].new = r]
        BY <2>2, <3>2 DEF Write
      <4> QED BY <1>0, <3>1, <4>1, <4>2, CopyGoes
    <3>3. CASE r = quotes[q]
      <4>1. CopyIsOf("decide", Given(job[p], q, r))
        BY DEF CopyIsOf
      <4>2. Goto(p, "decide") /\ job' = [job EXCEPT ![p].quote = q, ![p].new = r]
        BY <2>2, <3>3
      <4> QED BY <1>0, <3>1, <4>1, <4>2, CopyGoes
    <3> QED BY <3>2, <3>3
  <2> QED BY <1>3, <2>1, <2>2 DEF Search, ByBill
<1>4. CASE Decide(p)
  BY <1>0, <1>2, <1>4, EndGoes DEF Decide
<1>5. CASE Store(p)
  BY <1>0, <1>5, EndGoes DEF Store
<1> QED BY <1>1, <1>3, <1>4, <1>5

\* An update goes on with what is left, or ends.
LEMMA UpdateGoes ==
    ASSUME QuotesInv, NEW a \in Agent, Update(a)
    PROVE  Goes(a)
<1>1. CASE End(a)
  BY <1>1, EndGoes
<1>2. CASE /\ job[a].kind \in {"lookup", "list"} /\ Goto(a, "load")
           /\ job' = [job EXCEPT ![a].todo = @ \ {job[a].quote}]
  BY <1>2, LoadMore DEF Goto
<1>3. CASE job[a].kind = "enquire" /\ Goto(a, "decide") /\ UNCHANGED job
  <2>1. Knows("decide", job[a]) /\ "decide" \in PCs
    BY <1>3, KnowsNow DEF Knows, JobInOrder, CopyIsOf, PCs
  <2> QED BY <1>3, <2>1, GotoGoes
<1> QED BY <1>1, <1>2, <1>3 DEF Update

-----------------------------------------------------------------------------
(* Minting is enabled, by an admin or by the monitor. *)

\* Minting is decided on, from the copy of a quote that was accepted.
LEMMA EnableCopy ==
    ASSUME QuotesInv, NEW q \in Stored, NEW j \in Job, NEW at \in Nat,
           NEW kind \in {"enable", "override"}, j.kind = kind,
           quotes[q].status = From(kind)
    PROVE  LET r == Decided(kind, quotes[q], at)
           IN  /\ r \in Record /\ r.enquiry = quotes[q].enquiry
               /\ CopyIsOf("fees", Given(j, q, r))
<1> DEFINE r == Decided(kind, quotes[q], at)
           k == Given(j, q, r)
<1>1. q \in Quote /\ quotes[q] \in Record
  BY StoredFacts
<1>2. /\ r \in Record /\ r.enquiry = quotes[q].enquiry /\ r.terms = quotes[q].terms
      /\ r.status = "mintingenabled"
  <2>1. r = [quotes[q] EXCEPT !.status = "mintingenabled"]
    BY DEF Decided
  <2> QED BY <1>1, <2>1 DEF Record, StatusNames
<1>3. quotes[q].status \in AcceptedOrLater
  BY DEF From, AcceptedOrLater
<1> HIDE DEF r
<1>4. k.quote = q /\ k.new = r /\ k.kind = kind
  BY <1>1, <1>2, GivenFacts
<1> HIDE DEF k
<1>5. CopyIsOf("fees", k)
  BY <1>2, <1>3, <1>4 DEF CopyIsOf
<1> QED BY <1>2, <1>5 DEF r, k

LEMMA OverrideGoes ==
    ASSUME QuotesInv, NEW p \in Proc, LoadOverride(p)
    PROVE  Goes(p)
<1>0. p \in Agent
  BY DEF Agent
<1>1. PICK q \in job[p].todo : LoadOverride(p)!(q)
  BY DEF LoadOverride
<1>2. q \in Stored /\ job[p] \in Job /\ job[p].at \in Nat /\ job[p].kind = "override"
  BY <1>0, <1>1, KnowsNow
<1> DEFINE r == Decided("override", quotes[q], job[p].at)
<1>3. CASE quotes[q].status = From("override")
  <2>1. /\ r \in Record /\ r.enquiry = quotes[q].enquiry
        /\ CopyIsOf("fees", Given(job[p], q, r))
    BY <1>2, <1>3, EnableCopy
  <2>2. Goto(p, "fees") /\ job' = [job EXCEPT ![p].quote = q, ![p].new = r]
    BY <1>1, <1>3
  <2> HIDE DEF r
  <2> QED BY <1>0, <1>2, <2>1, <2>2, CopyGoes
<1>4. CASE quotes[q].status # From("override")
  BY <1>0, <1>1, <1>4, EndGoes
<1> QED BY <1>3, <1>4

LEMMA SignFeesGoes ==
    ASSUME QuotesInv, NEW a \in Agent, SignFees(a)
    PROVE  Goes(a)
<1>1. pc[a] = "fees" /\ Goto(a, "bind") /\ job' = job
  BY DEF SignFees
<1>2. Knows("bind", job[a]) /\ "bind" \in PCs
  BY <1>1, KnowsNow DEF Knows, JobInOrder, CopyIsOf, PCs
<1> QED BY <1>1, <1>2, GotoGoes

LEMMA ListAcceptedGoes ==
    ASSUME QuotesInv, ListAccepted
    PROVE  Goes(Monitor)
<1>1. Monitor \in Agent /\ Due \in SUBSET Stored
  BY DEF Agent, Due, WithStatus
<1> QED BY <1>1, BeginGoes DEF ListAccepted

LEMMA CheckQuoteGoes ==
    ASSUME QuotesInv, CheckQuote
    PROVE  Goes(Monitor)
<1>0. Monitor \in Agent
  BY DEF Agent
<1>1. PICK q \in job[Monitor].todo : CheckQuote!(q)
  BY DEF CheckQuote
<1> DEFINE rest == job[Monitor].todo \ {q}
           j == [job[Monitor] EXCEPT !.todo = rest, !.quote = q]
<1>2. /\ job[Monitor] \in Job /\ rest \in SUBSET Stored /\ q \in Stored
      /\ Knows(pc[Monitor], job[Monitor])
  BY <1>0, KnowsNow
<1>3. CASE /\ Goto(Monitor, "validate")
           /\ job' = [job EXCEPT ![Monitor].todo = rest, ![Monitor].quote = q]
  <2>1. /\ j \in Job /\ j.todo = rest /\ j.quote = q /\ j.kind = job[Monitor].kind
        /\ j.enquiry = job[Monitor].enquiry
    BY <1>2 DEF Job, Stored
  <2>2. job' = [job EXCEPT ![Monitor] = j]
    BY <1>0, <1>3, KnowsNow
  <2> HIDE DEF j
  <2>3. Knows("validate", j) /\ "validate" \in PCs
    BY <1>2, <2>1 DEF Knows, JobInOrder, CopyIsOf, PCs
  <2> QED BY <1>3, <2>1, <2>2, <2>3 DEF Goes, Becomes, Goto
<1>4. CASE Proceed(Monitor, rest)
  BY <1>0, <1>2, <1>4, ProceedGoes
<1> QED BY <1>1, <1>3, <1>4

LEMMA ValidateGoes ==
    ASSUME QuotesInv, Validate
    PROVE  Goes(Monitor)
<1>0. Monitor \in Agent
  BY DEF Agent
<1> DEFINE q == job[Monitor].quote
           at == job[Monitor].at
           GoesOn(kind, l) ==
               /\ Goto(Monitor, l)
               /\ job' = [job EXCEPT ![Monitor].kind = kind,
                                     ![Monitor].new = Decided(kind, quotes[q], at)]
<1>1. /\ pc[Monitor] = "validate"
      /\ \/ quotes[q].status = "accepted" /\ (GoesOn("enable", "fees") \/ GoesOn("fail", "update"))
         \/ quotes[q].status # "accepted" /\ End(Monitor)
  BY DEF Validate
<1>2. job[Monitor] \in Job /\ at \in Nat /\ q \in Stored /\ Knows("validate", job[Monitor])
  BY <1>0, <1>1, KnowsNow DEF Knows, JobInOrder
<1>3. ASSUME NEW kind \in {"enable", "fail"}, quotes[q].status = "accepted",
             NEW l \in {"fees", "update"}, l = "fees" <=> kind = "enable", Goto(Monitor, l),
             job' = [job EXCEPT ![Monitor].kind = kind,
                                ![Monitor].new = Decided(kind, quotes[q], at)]
      PROVE  Goes(Monitor)
  <2> DEFINE k == [job[Monitor] EXCEPT !.kind = kind]
             r == Decided(kind, quotes[q], at)
             j == Given(k, q, r)
  <2>1. k \in Job /\ k.kind = kind /\ k.todo = job[Monitor].todo
    BY <1>2 DEF Job
  <2>2. quotes[q] \in Record /\ Sound(quotes[q]) /\ q \in Quote /\ From(kind) = "accepted"
    BY <1>2, <1>3, StoredFacts DEF From
  <2>3. /\ r \in Record /\ r.enquiry = quotes[q].enquiry /\ r.terms = quotes[q].terms /\ r # None
        /\ r.status \in Following("accepted") /\ r.status # "offerexpired"
        /\ kind = "fail" => r.status # "mintingenabled"
    <3> DEFINE s == IF kind = "fail" THEN "failedebillvalidation" ELSE "mintingenabled"
    <3>1. r = [quotes[q] EXCEPT !.status = s]
      BY DEF Decided
    <3>2. r \in Record /\ r.enquiry = quotes[q].enquiry /\ r.terms = quotes[q].terms /\ r.status = s
      BY <2>2, <3>1 DEF Record, StatusNames
    <3> QED BY <3>2, RecordFacts DEF Following
  <2> HIDE DEF k, r
  <2>4. /\ j \in Job /\ j.kind = kind /\ j.todo = job[Monitor].todo /\ j.quote = q /\ j.new = r
    BY <2>1, <2>2, <2>3, GivenFacts
  <2>5. CopyIsOf("fees", j) \/ kind = "fail"
    BY <1>2, <1>3, <2>1, <2>2, EnableCopy DEF r
  <2>6. kind = "fail" => CopyIsOf("update", j)
    <3> HIDE DEF j
    <3>1. kind = "fail" => Found(j) = "accepted"
      BY <2>2, <2>3, <2>4 DEF Found
    <3>2. Sound(r)
      BY <1>3, <2>2, <2>3 DEF Sound, Following
    <3> QED BY <2>3, <2>4, <3>1, <3>2 DEF CopyIsOf
  <2>7. CopyIsOf(l, j)
    BY <1>3, <2>5, <2>6
  <2>8. job' = [job EXCEPT ![Monitor] = j]
    <3>1. j = [job[Monitor] EXCEPT !.kind = kind, !.new = r]
      BY <1>2 DEF Given, k, Job
    <3> QED BY <1>0, <1>3, <3>1, KnowsNow DEF r
  <2> HIDE DEF j
  <2>9. JobInOrder(l, j) /\ l \in PCs
    BY <1>2, <1>3, <2>3, <2>4 DEF JobInOrder, Knows, PCs
  <2> QED BY <1>3, <2>4, <2>7, <2>8, <2>9 DEF Goes, Becomes, Goto, Knows
<1>4. CASE quotes[q].status = "accepted"
  <2>1. CASE GoesOn("enable", "fees")
    BY <1>3, <1>4, <2>1
  <2>2. CASE GoesOn("fail", "update")
    BY <1>3, <1>4, <2>2
  <2> QED BY <1>1, <1>4, <2>1, <2>2
<1>5. CASE quotes[q].status # "accepted"
  BY <1>0, <1>1, <1>5, EndGoes
<1> QED BY <1>4, <1>5

\* Agent a goes where it knows enough once the step is done.
Arrives(a) == \E l \in PCs, j \in Job : Becomes(a, l, j) /\ Knows(l, j)'

LEMMA GoesArrives ==
    ASSUME QuotesInv, [Next]_vars, NEW a \in Agent, Goes(a)
    PROVE  Arrives(a)
BY KnowsStays DEF Goes, Arrives

\* The operation is there when the fees are collected, ...
LEMMA AddOperationArrives ==
    ASSUME QuotesInv, [Next]_vars, NEW a \in Agent, AddOperation(a)
    PROVE  Arrives(a)
<1>1. CASE End(a)
  BY <1>1, EndGoes, GoesArrives
<1>2. CASE ~End(a)
  <2>1. PICK j \in Job : j = job[a]
    BY KnowsNow
  <2>2. pc[a] = "bind" /\ Goto(a, "collect") /\ job' = job
    BY <1>2 DEF AddOperation
  <2>3. Knows("bind", j) /\ "bind" \in PCs /\ "collect" \in PCs
    BY <2>1, <2>2, KnowsNow DEF PCs
  <2>4. Knows("bind", j)'
    BY <2>3, KnowsStays
  <2>5. j.quote \in Quote
    BY <2>3 DEF Knows, JobInOrder, Stored
  <2>6. op'[j.quote] # Treasury!Unbound
    <3>1. CASE Treasury!Bind(j.quote, j.new.enquiry.bill, j.new.terms)
      <4>1. op'[j.quote] = Treasury!Bound(j.new.enquiry.bill, j.new.terms, 0)
        BY <2>5, <3>1 DEF Treasury!Bind, QuotesInv
      <4> QED BY <4>1 DEF Treasury!Bound, Treasury!Unbound
    <3>2. CASE SameOp(j) /\ op' = op
      BY <3>2 DEF SameOp
    <3> QED BY <1>2, <2>1, <3>1, <3>2 DEF AddOperation
  <2>7. Knows("collect", j)'
    BY <2>4, <2>6 DEF Knows, JobInOrder, CopyIsOf, Treasury!Unbound
  <2>8. job' = [job EXCEPT ![a] = j]
    BY <2>1, <2>2, KnowsNow
  <2> QED BY <2>2, <2>3, <2>7, <2>8 DEF Arrives, Becomes, Goto
<1> QED BY <1>1, <1>2

\* ... and the fees are in the vault when the quote is written.
LEMMA CollectFeesArrives ==
    ASSUME QuotesInv, NEW a \in Agent, CollectFees(a)
    PROVE  Arrives(a)
<1>1. PICK j \in Job : j = job[a]
  BY KnowsNow
<1>2. /\ pc[a] = "collect" /\ Goto(a, "update") /\ job' = job /\ fees' = fees \cup {j.quote}
      /\ quotes' = quotes /\ op' = op
  BY <1>1 DEF CollectFees
<1>3. Knows("collect", j) /\ "update" \in PCs
  BY <1>1, <1>2, KnowsNow DEF PCs
<1>4. /\ j.quote \in Stored /\ j.kind \in {"enable", "override"}
      /\ j.new.status = "mintingenabled" /\ j.new.terms = quotes[j.quote].terms
      /\ quotes[j.quote].status \in AcceptedOrLater /\ op[j.quote] # Treasury!Unbound
  BY <1>3 DEF Knows, JobInOrder, CopyIsOf
<1>5. Found(j) \in {"accepted", "failedebillvalidation"}
  BY <1>4 DEF Found, From
<1>6. j.new.status \in Following(Found(j))
  BY <1>4, <1>5 DEF Following
<1>7. Sound(j.new)
  BY <1>4, StoredFacts DEF Sound, AcceptedOrLater
<1>8. CopyIsOf("update", j)'
  <2>1. Found(j)' = Found(j) /\ Sound(j.new)' = Sound(j.new)
    BY DEF Found, Sound
  <2> QED BY <1>2, <1>4, <1>6, <1>7, <2>1 DEF CopyIsOf, Following, Treasury!Unbound, Decisions
<1>9. JobInOrder("update", j)'
  BY <1>2, <1>3 DEF Knows, JobInOrder, Stored
<1>10. job' = [job EXCEPT ![a] = j]
  BY <1>1, <1>2, KnowsNow
<1> QED BY <1>2, <1>3, <1>8, <1>9, <1>10 DEF Arrives, Becomes, Goto, Knows

-----------------------------------------------------------------------------
(* The inductive invariant. *)

LEMMA AgentArrives ==
    ASSUME QuotesInv, [Next]_vars, NEW b \in Agent, Arrives(b)
    PROVE  /\ pc' \in [Agent -> PCs] /\ job' \in [Agent -> Job]
           /\ \A a \in Agent : Knows(pc[a], job[a])'
<1>1. PICK l \in PCs, j \in Job : Becomes(b, l, j) /\ Knows(l, j)'
  BY DEF Arrives
<1>2. /\ pc' \in [Agent -> PCs] /\ job' \in [Agent -> Job]
      /\ pc'[b] = l /\ job'[b] = j
      /\ \A a \in Agent : a # b => pc'[a] = pc[a] /\ job'[a] = job[a]
  BY <1>1, KnowsNow DEF Becomes
<1>3. ASSUME NEW a \in Agent PROVE Knows(pc[a], job[a])'
  <2>1. PICK m \in PCs, k \in Job : m = pc'[a] /\ k = job'[a]
    BY <1>2
  <2>2. Knows(m, k)'
    <3>1. CASE a = b
      BY <1>1, <1>2, <2>1, <3>1
    <3>2. CASE a # b
      <4>1. Knows(m, k)
        BY <1>2, <2>1, <3>2, KnowsNow
      <4> QED BY <4>1, KnowsStays
    <3> QED BY <3>1, <3>2
  <2> QED BY <2>1, <2>2 DEF Knows, JobInOrder, CopyIsOf, Found, Sound, Treasury!Unbound
<1> QED BY <1>2, <1>3

LEMMA AgentsStay ==
    ASSUME QuotesInv, [Next]_vars, UNCHANGED <<pc, job>>
    PROVE  /\ pc' \in [Agent -> PCs] /\ job' \in [Agent -> Job]
           /\ \A a \in Agent : Knows(pc[a], job[a])'
<1>1. ASSUME NEW a \in Agent PROVE Knows(pc[a], job[a])'
  <2>1. PICK m \in PCs, k \in Job : m = pc[a] /\ k = job[a]
    BY KnowsNow
  <2>2. Knows(m, k)'
    BY <2>1, KnowsNow, KnowsStays
  <2> QED BY <2>1, <2>2 DEF Knows, JobInOrder, CopyIsOf, Found, Sound, Treasury!Unbound
<1> QED BY <1>1 DEF QuotesInv, TypeOK

LEMMA CrashArrives ==
    ASSUME QuotesInv, Crash
    PROVE  /\ pc' \in [Agent -> PCs] /\ job' \in [Agent -> Job]
           /\ \A a \in Agent : Knows(pc[a], job[a])'
<1>1. NoJob \in Job /\ NoJob.kind = "none" /\ NoJob.todo = {} /\ "idle" \in PCs
  BY DEF NoJob, NewJob, Job, PCs
<1>2. \A a \in Agent : pc'[a] = "idle" /\ job'[a] = NoJob
  BY DEF Crash
<1>3. \A a \in Agent : Knows(pc[a], job[a])'
  BY <1>1, <1>2 DEF Knows, JobInOrder, CopyIsOf
<1> QED BY <1>1, <1>3 DEF Crash

LEMMA StepAgents ==
    ASSUME QuotesInv, [Next]_vars
    PROVE  /\ pc' \in [Agent -> PCs] /\ job' \in [Agent -> Job]
           /\ \A a \in Agent : Knows(pc[a], job[a])'
<1>1. ASSUME NEW a \in Agent, EnableStep(a) PROVE Arrives(a)
  <2>1. CASE SignFees(a) \/ Update(a)
    BY <2>1, SignFeesGoes, UpdateGoes, GoesArrives
  <2> QED BY <1>1, <2>1, AddOperationArrives, CollectFeesArrives DEF EnableStep
<1>2. ASSUME NEW p \in Proc, RequestStep(p) PROVE Arrives(p)
  <2>0. p \in Agent
    BY DEF Agent
  <2>1. CASE Request(p) \/ LoadQuote(p) \/ LoadDecision(p) \/ Keyset(p) \/ LoadOverride(p)
    BY <2>0, <2>1, RequestGoes, LoadQuoteGoes, LoadDecisionGoes, KeysetGoes, OverrideGoes,
       GoesArrives
  <2>2. CASE Enquire(p) \/ Search(p) \/ Decide(p) \/ Store(p)
    BY <2>0, <2>2, EnquiryGoes, GoesArrives
  <2>3. CASE Listed(p)
    BY <2>0, <2>3, EndGoes, GoesArrives DEF Listed
  <2> QED BY <1>1, <1>2, <2>0, <2>1, <2>2, <2>3 DEF RequestStep
<1>3. Monitor \in Agent
  BY DEF Agent
<1>4. MonitorStep => Arrives(Monitor)
  <2>1. CASE ValidateFails
    BY <1>3, <2>1, EndGoes, GoesArrives DEF ValidateFails
  <2> QED BY <1>1, <1>3, <2>1, ListAcceptedGoes, CheckQuoteGoes, ValidateGoes, GoesArrives
        DEF MonitorStep
<1>5. ASSUME NEW a \in Agent, Fail(a) PROVE Arrives(a)
  BY <1>5, EndGoes, GoesArrives DEF Fail
<1>6. \/ \E a \in Agent : Arrives(a)
      \/ UNCHANGED <<pc, job>> \/ Crash
  BY <1>2, <1>3, <1>4, <1>5 DEF Next, Endorse, Tick, vars, Agent
<1> QED BY <1>6, AgentArrives, AgentsStay, CrashArrives

LEMMA StepQuotes ==
    ASSUME QuotesInv, [Next]_vars
    PROVE  /\ quotes' \in [Quote -> Record \cup {None}]
           /\ \A q \in Stored' : Sound(quotes'[q])
           /\ \A q \in Stored' \ Stored : quotes'[q].status = "pending"
<1>0. quotes \in [Quote -> Record \cup {None}]
  BY DEF QuotesInv, TypeOK
<1>1. CASE quotes' = quotes
  BY <1>0, <1>1 DEF QuotesInv, Stored
<1>2. ASSUME NEW p \in Proc, Store(p)
      PROVE  /\ quotes' \in [Quote -> Record \cup {None}]
             /\ \A q \in Stored' : Sound(quotes'[q])
             /\ \A q \in Stored' \ Stored : quotes'[q].status = "pending"
  <2>1. PICK o \in Quote \ Stored, r \in Record :
           quotes' = [quotes EXCEPT ![o] = r] /\ r.status = "pending" /\ r.terms = None
    BY <1>2, StoreIs
  <2>2. quotes'[o] = r /\ \A q \in Quote : q # o => quotes'[q] = quotes[q]
    BY <1>0, <2>1
  <2>3. quotes' \in [Quote -> Record \cup {None}]
    BY <1>0, <2>1
  <2>4. Sound(r)
    BY <2>1 DEF Sound
  <2> QED BY <2>1, <2>2, <2>3, <2>4 DEF QuotesInv, Stored
<1>3. ASSUME NEW a \in Agent, pc[a] = "update", Unmoved(job[a]),
             quotes' = [quotes EXCEPT ![job[a].quote] = job[a].new]
      PROVE  /\ quotes' \in [Quote -> Record \cup {None}]
             /\ \A q \in Stored' : Sound(quotes'[q])
             /\ \A q \in Stored' \ Stored : quotes'[q].status = "pending"
  <2>1. job[a].quote \in Stored /\ job[a].new \in Record
    BY <1>3, KnowsNow, JobFacts DEF Knows, JobInOrder
  <2>2. quotes' \in [Quote -> Record \cup {None}]
    BY <1>0, <1>3, <2>1
  <2>3. Stored' = Stored
    BY <1>0, <1>3, <2>1, RecordFacts DEF Stored
  <2> QED BY <2>2, <2>3, QuotesMove DEF Moved
<1> QED BY <1>1, <1>2, <1>3, QuotesWritten

\* An operation of the treasury is the one of the quote, and of a quote that was accepted.
LEMMA StepBound ==
    ASSUME QuotesInv, [Next]_vars
    PROVE  BoundIsAccepted'
<1> SUFFICES ASSUME NEW q \in Quote, op'[q] # Treasury!Unbound
             PROVE  /\ quotes'[q] # None
                    /\ quotes'[q].status \in AcceptedOrLater
                    /\ op'[q].ceiling = quotes'[q].terms
                    /\ op'[q].bill = quotes'[q].enquiry.bill
  BY DEF BoundIsAccepted, AcceptedOrLater, Treasury!Unbound
<1>1. /\ q \in Stored /\ quotes[q].status \in AcceptedOrLater
      /\ op'[q].ceiling = quotes[q].terms /\ op'[q].bill = quotes[q].enquiry.bill
  <2>1. CASE op[q] # Treasury!Unbound
    <3>1. op'[q] = op[q]
      BY <2>1, OpsStay
    <3> QED BY <2>1, <3>1 DEF QuotesInv, BoundIsAccepted, Stored, AcceptedOrLater
  <2>2. CASE op[q] = Treasury!Unbound
    <3>1. PICK a \in Agent :
             /\ pc[a] = "bind"
             /\ Treasury!Bind(job[a].quote, job[a].new.enquiry.bill, job[a].new.terms)
      BY <2>2, OpsBound
    <3>2. /\ q = job[a].quote
          /\ op'[q] = Treasury!Bound(job[a].new.enquiry.bill, job[a].new.terms, 0)
      BY <2>2, <3>1 DEF Treasury!Bind, QuotesInv
    <3>3. /\ job[a].quote \in Stored /\ job[a].new.enquiry = quotes[q].enquiry
          /\ job[a].new.terms = quotes[q].terms /\ quotes[q].status \in AcceptedOrLater
      BY <3>1, <3>2, KnowsNow DEF Knows, JobInOrder, CopyIsOf
    <3> QED BY <3>2, <3>3 DEF Treasury!Bound
  <2> QED BY <2>1, <2>2
<1>2. Moved(q) /\ quotes'[q] # None
  BY <1>1, QuotesMove, RecordFacts DEF Moved
<1>3. quotes[q].terms # None
  BY <1>1, StoredFacts, ParameterAssumption DEF Sound, AcceptedOrLater
<1>4. quotes'[q].status \in AcceptedOrLater
  BY <1>1, <1>2, LaterStays DEF Moved
<1> QED BY <1>1, <1>2, <1>3, <1>4 DEF Moved

LEMMA StepBacked ==
    ASSUME QuotesInv, [Next]_vars
    PROVE  EnabledIsBacked'
<1> SUFFICES ASSUME NEW q \in Stored', quotes'[q].status = "mintingenabled"
             PROVE  op'[q] # Treasury!Unbound /\ q \in fees'
  BY DEF EnabledIsBacked, Treasury!Unbound
<1>1. q \in Stored
  BY StepQuotes
<1>2. op[q] # Treasury!Unbound /\ q \in fees
  BY <1>1, QuotesMove DEF Moved, QuotesInv, EnabledIsBacked
<1> QED BY <1>1, <1>2, OpsStay, FeesGrow DEF Stored

LEMMA StepRest ==
    ASSUME QuotesInv, [Next]_vars
    PROVE  now' \in 0..MaxTime /\ fees' \in SUBSET Quote /\ received' \in SUBSET Bill
<1>1. now' = now \/ (now' = now + 1 /\ now < MaxTime)
  BY DEF Next, RequestStep, MonitorStep, EnableStep, Request, LoadQuote, Listed, LoadDecision,
     Keyset, Enquire, Search, Decide, Store, LoadOverride, SignFees, AddOperation, CollectFees,
     Update, ListAccepted, CheckQuote, Validate, ValidateFails, Endorse, Tick, Fail, Crash, Begin, vars
<1>2. received' = received \/ \E b \in Bill : received' = received \cup {b}
  BY DEF Next, RequestStep, MonitorStep, EnableStep, Request, LoadQuote, Listed, LoadDecision,
     Keyset, Enquire, Search, Decide, Store, LoadOverride, SignFees, AddOperation, CollectFees,
     Update, ListAccepted, CheckQuote, Validate, ValidateFails, Endorse, Tick, Fail, Crash, Begin, vars
<1>3. fees' = fees \/ \E a \in Agent : CollectFees(a)
  BY DEF Next, RequestStep, MonitorStep, EnableStep, Request, LoadQuote, Listed, LoadDecision,
     Keyset, Enquire, Search, Decide, Store, LoadOverride, SignFees, AddOperation, Update,
     ListAccepted, CheckQuote, Validate, ValidateFails, Endorse, Tick, Fail, Crash, Begin, vars, Agent
<1>4. ASSUME NEW a \in Agent, CollectFees(a) PROVE fees' \in SUBSET Quote
  <2>1. job[a].quote \in Quote
    BY <1>4, KnowsNow DEF CollectFees, Knows, JobInOrder, Stored
  <2> QED BY <1>4, <2>1 DEF CollectFees, QuotesInv, TypeOK
<1> QED BY <1>1, <1>2, <1>3, <1>4, ParameterAssumption DEF QuotesInv, TypeOK

LEMMA InitInv == Init => QuotesInv
<1> SUFFICES ASSUME Init PROVE QuotesInv
  OBVIOUS
<1>1. NoJob \in Job /\ NoJob.kind = "none" /\ NoJob.todo = {} /\ "idle" \in PCs
  BY DEF NoJob, NewJob, Job, PCs
<1>2. TypeOK
  BY <1>1, ParameterAssumption DEF Init, TypeOK
<1>3. \A a \in Agent : JobInOrder(pc[a], job[a]) /\ CopyIsOf(pc[a], job[a])
  BY <1>1 DEF Init, JobInOrder, CopyIsOf
<1>4. op = [q \in Quote |-> op[q]] /\ \A q \in Quote : op[q] = Treasury!Unbound
  BY DEF Init, Treasury!Init
<1>5. Stored = {}
  BY DEF Init, Stored
<1> QED BY <1>2, <1>3, <1>4, <1>5 DEF QuotesInv, BoundIsAccepted, EnabledIsBacked

LEMMA StepInv ==
    ASSUME QuotesInv, [Next]_vars
    PROVE  QuotesInv'
<1>1. TypeOK'
  BY StepAgents, StepQuotes, StepRest DEF TypeOK
<1>2. (\A a \in Agent : JobInOrder(pc[a], job[a]) /\ CopyIsOf(pc[a], job[a]))'
  BY StepAgents DEF Knows
<1>3. (\A q \in Stored : Sound(quotes[q]))'
  BY StepQuotes DEF Sound
<1>4. (op = [q \in Quote |-> op[q]])'
  BY OpsStay
<1> QED BY <1>1, <1>2, <1>3, <1>4, StepBound, StepBacked DEF QuotesInv

\* What an agent knows of a quote is true until it writes, in every reachable state.
THEOREM Inductive == Spec => []QuotesInv
BY InitInv, StepInv, PTL DEF Spec

-----------------------------------------------------------------------------
(* Theorems. *)

\* Quotes, requests and the monitor's round are of their types in every reachable state.
THEOREM Typed == Spec => []TypeOK
<1>1. QuotesInv => TypeOK
  BY DEF QuotesInv
<1> QED BY <1>1, Inductive, PTL

\* The treasury binds the operation several calls after the quote was loaded, and a request
\* and the monitor may enable the same quote: whatever they do to it meanwhile, an operation
\* is of a quote whose offer was accepted, for its bill and on the terms of the offer.
THEOREM OnAcceptedTerms == Spec => []BoundIsAccepted
<1>1. QuotesInv => BoundIsAccepted
  BY DEF QuotesInv
<1> QED BY <1>1, Inductive, PTL

\* enable_minting signs fees, binds the operation, stores the fees and updates the quote with
\* four calls of which any may fail: a quote is enabled only when all of it is in place.
THEOREM Backed == Spec => []EnabledIsBacked
<1>1. QuotesInv => EnabledIsBacked
  BY DEF QuotesInv
<1> QED BY <1>1, Inductive, PTL

\* Requests and the monitor decide on copies that they loaded some calls ago: the conditional
\* updates let a quote only move on, and never change an offer's terms.
THEOREM Replied == Spec => RepliesHold
<1>1. QuotesInv /\ [Next]_vars =>
        [\A q \in Stored : quotes'[q] # quotes[q] =>
            /\ quotes'[q].status \in Following(quotes[q].status)
            /\ quotes[q].terms # None => quotes'[q].terms = quotes[q].terms
            /\ quotes'[q].enquiry = quotes[q].enquiry]_quotes
  BY QuotesMove DEF Moved
<1> QED BY <1>1, Inductive, PTL DEF Spec, RepliesHold

\* The treasury is composed by what it promises, and no more is asked of it: what becomes of
\* its operations here is allowed by MintOps.
THEOREM ComposesMintOps == Spec => Treasury!Spec
<1>1. Init => Treasury!Init
  BY DEF Init
<1>2. ASSUME QuotesInv, [Next]_vars PROVE [Treasury!Next]_op
  <2>1. ASSUME NEW a \in Agent, pc[a] = "bind",
               Treasury!Bind(job[a].quote, job[a].new.enquiry.bill, job[a].new.terms)
        PROVE  Treasury!Next
    <3>1. /\ job[a].quote \in Stored
          /\ job[a].new.enquiry = quotes[job[a].quote].enquiry
          /\ job[a].new.terms = quotes[job[a].quote].terms
          /\ quotes[job[a].quote].status \in AcceptedOrLater
      BY <1>2, <2>1, KnowsNow DEF Knows, JobInOrder, CopyIsOf
    <3>2. quotes[job[a].quote].terms \in Terms /\ quotes[job[a].quote].enquiry \in Enquiry
      BY <1>2, <3>1, StoredFacts, RecordFacts DEF Sound, AcceptedOrLater
    <3>3. job[a].quote \in Quote /\ job[a].new.enquiry.bill \in Bill /\ job[a].new.terms \in Terms
      BY <1>2, <3>1, <3>2, StoredFacts, ParameterAssumption
    <3> QED BY <2>1, <3>3 DEF Treasury!Next
  <2> QED BY <1>2, <2>1, OpsBound
<1> QED BY <1>1, <1>2, Inductive, PTL DEF Spec, Treasury!Spec
=============================================================================
