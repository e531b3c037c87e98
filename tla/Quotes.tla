------------------------------- MODULE Quotes -------------------------------
(***************************************************************************)
(* The life of a mint quote in bcr-wdc-quote-service.  Wallets enquire,    *)
(* cancel, accept and reject; the mint's admin offers, denies and          *)
(* overrides; a monitor turns accepted quotes into mint operations of the  *)
(* treasury, which is composed here by what it promises (MintOps).         *)
(*                                                                         *)
(* Every request loads the quote, decides on the copy and writes back with *)
(* an update that is conditional on the status, so requests interleave     *)
(* between the two.  The terms of an offer (keyset, discounted amount) are *)
(* one value; the wallet's key comes with the enquiry and never changes.   *)
(***************************************************************************)
EXTENDS Naturals, FiniteSets

CONSTANTS
    Quote,       \* ids of quotes
    Enquiry,     \* what wallets enquire about: [bill, holder]
    Bill,
    Terms,       \* what an offer may offer
    Ttls,        \* when an offer may expire
    Proc,        \* slots for requests that are in flight at the same time
    Monitor,     \* the routine that looks after accepted quotes
    Requests,    \* the kinds of requests that are made
    Answers,     \* what may be answered when the bill of an enquiry is validated: a bool, by
                 \* the trait WdcClient.  The client that is shipped answers TRUE, or nothing
                 \* ever: for a bill that does not match, each of its calls is an error
    None,
    Retention,   \* Service::USER_DECISION_RETENTION
    MaxTime,     \* bound: the clock
    MaxFailures, \* bound: calls that fail
    MaxCrashes   \* bound: restarts of the service

Agent == Proc \cup {Monitor}

Decisions == {"cancel", "deny", "offer", "accept", "reject"}

ASSUME ParameterAssumption ==
    /\ Monitor \notin Proc /\ None \notin Quote \cup Terms /\ Terms \subseteq Nat
    /\ \A e \in Enquiry : e.bill \in Bill
    /\ Requests \subseteq Decisions \cup {"enquire", "lookup", "list", "override"}
    /\ Answers \in [Enquiry -> SUBSET BOOLEAN] /\ Ttls \subseteq Nat
    /\ {Retention, MaxTime, MaxFailures, MaxCrashes} \subseteq Nat

VARIABLES
    quotes,      \* the repository
    now,
    pc, job,     \* requests in flight, and the monitor
    \* external: the treasury and the eBill service
    op,          \* mint operations, as MintOps has them
    fees,        \* quotes whose fees the treasury was given
    received,    \* bills that were endorsed to the mint and have arrived
    failures, crashes

vars == <<quotes, now, pc, job, op, fees, received, failures, crashes>>

Treasury == INSTANCE MintOps WITH Uid <- Quote, Ceilings <- Terms

-----------------------------------------------------------------------------
Closed == {"canceled", "denied", "offerexpired", "rejected"}

StatusNames == Closed \cup {"pending", "offered", "accepted", "mintingenabled",
                            "failedebillvalidation"}

\* `at` is the ttl of an offer and the tstamp of a quote that is closed.
Record == [status: StatusNames, enquiry: Enquiry, submitted: Nat, at: Nat,
           terms: Terms \cup {None}]

ASSUME NoneAssumption == None \notin Record \cup Enquiry

PCs == {"idle", "load", "keyset", "search", "decide", "store",
        "list", "check", "validate", "fees", "bind", "collect", "update"}

\* quote and new: what is to be written; todo: quotes still to be looked at.
Job == [kind: Requests \cup {"none", "enable", "fail"}, at: Nat, todo: SUBSET Quote,
        quote: Quote \cup {None}, new: Record \cup {None},
        enquiry: Enquiry \cup {None}]

NewJob(kind, at, todo, enquiry) ==
    [kind |-> kind, at |-> at, todo |-> todo, quote |-> None, new |-> None,
     enquiry |-> enquiry]

NoJob == NewJob("none", 0, {}, None)

Init ==
    /\ quotes = [q \in Quote |-> None]
    /\ now = 0
    /\ pc = [a \in Agent |-> "idle"]
    /\ job = [a \in Agent |-> NoJob]
    /\ Treasury!Init
    /\ fees = {}
    /\ received = {}
    /\ failures = 0 /\ crashes = 0

Stored == {q \in Quote : quotes[q] # None}

\* list_light, by status
WithStatus(s) == {q \in Stored : quotes[q].status = s}

\* search_by_bill
ByBill(e) == {q \in Stored : quotes[q].enquiry = e}

\* check_expire
Checked(q, at) ==
    IF q.status = "offered" /\ at > q.at THEN [q EXCEPT !.status = "offerexpired"] ELSE q

\* The status a quote must have for a request to decide on it and for its update to write.
From(kind) ==
    CASE kind \in {"cancel", "deny", "offer"} -> "pending"
      [] kind \in {"accept", "reject", "expire"} -> "offered"
      [] kind \in {"enable", "fail"} -> "accepted"
      [] kind = "override" -> "failedebillvalidation"

\* cancel, deny, reject, accept, start_minting, override_failed_ebill_validation,
\* set_failed_ebill_validation
Decided(kind, q, at) ==
    CASE kind = "cancel" -> [q EXCEPT !.status = "canceled", !.at = at]
      [] kind = "deny" -> [q EXCEPT !.status = "denied", !.at = at]
      [] kind = "reject" -> [q EXCEPT !.status = "rejected", !.at = at]
      [] kind = "accept" -> [q EXCEPT !.status = "accepted", !.at = 0]
      [] kind \in {"enable", "override"} -> [q EXCEPT !.status = "mintingenabled"]
      [] kind = "fail" -> [q EXCEPT !.status = "failedebillvalidation"]

Goto(a, l) == pc' = [pc EXCEPT ![a] = l]

\* The agent goes on with the quotes that are left, or is done.
Proceed(a, rest) ==
    IF rest # {}
    THEN Goto(a, "check") /\ job' = [job EXCEPT ![a] = NewJob("enable", @.at, rest, None)]
    ELSE Goto(a, "idle") /\ job' = [job EXCEPT ![a] = NoJob]

\* The reply to a request, with or without an error; the monitor takes its next quote.
End(a) == Proceed(a, IF a = Monitor THEN job[a].todo ELSE {})

Begin(a, l, kind, todo, enquiry) ==
    /\ pc[a] = "idle"
    /\ Goto(a, l)
    /\ job' = [job EXCEPT ![a] = NewJob(kind, now, todo, enquiry)]
    /\ UNCHANGED <<quotes, now, op, fees, received, failures, crashes>>

\* Agent a is about to write r for quote q.
Write(a, q, r) ==
    /\ Goto(a, "update")
    /\ job' = [job EXCEPT ![a].quote = q, ![a].new = r]

-----------------------------------------------------------------------------
(* Decisions, look-ups and lists. *)

Request(p) ==
    \/ \E kind \in Requests \cap (Decisions \cup {"lookup", "override"}), q \in Stored :
          Begin(p, "load", kind, {q}, None)
    \/ /\ "list" \in Requests
       /\ Begin(p, "load", "list", WithStatus("offered"), None)

\* Quotes that are looked up, listed or offered are written back when they have expired.
LoadQuote(p) ==
    \E q \in job[p].todo :
        LET j == job[p]
            r == Checked(quotes[q], j.at)
        IN  /\ pc[p] = "load" /\ j.kind \in {"lookup", "list", "offer"}
            /\ IF r # quotes[q]
               THEN Write(p, q, r)
               ELSE IF j.kind = "offer"
               THEN IF r.status = "pending"
                    THEN Goto(p, "keyset") /\ job' = [job EXCEPT ![p].quote = q, ![p].new = r]
                    ELSE End(p)
               ELSE job' = [job EXCEPT ![p].todo = @ \ {q}] /\ UNCHANGED pc
            /\ UNCHANGED <<quotes, now, op, fees, received, failures, crashes>>

\* All quotes of a list are looked at.
Listed(p) ==
    /\ pc[p] = "load" /\ job[p].todo = {}
    /\ End(p)
    /\ UNCHANGED <<quotes, now, op, fees, received, failures, crashes>>

\* An offer that has expired is not accepted; its quote is left as it is.
LoadDecision(p) ==
    \E q \in job[p].todo :
        LET j == job[p]
            r == IF j.kind = "accept" THEN Checked(quotes[q], j.at) ELSE quotes[q]
        IN  /\ pc[p] = "load" /\ j.kind \in {"cancel", "deny", "accept", "reject"}
            /\ IF r.status = From(j.kind) THEN Write(p, q, Decided(j.kind, r, j.at)) ELSE End(p)
            /\ UNCHANGED <<quotes, now, op, fees, received, failures, crashes>>

\* Mutant: an offer without a ttl gets no default.
Keyset_NoTtl(p) ==
    \E t \in Terms :
        /\ pc[p] = "keyset"
        /\ Write(p, job[p].quote,
                 [job[p].new EXCEPT !.status = "offered", !.terms = t, !.at = None])
        /\ UNCHANGED <<quotes, now, op, fees, received, failures, crashes>>

\* The core service returns the keyset of the offer, which is created if need be.
Keyset(p) ==
    \E t \in Terms, ttl \in Ttls :
        /\ pc[p] = "keyset"
        /\ Write(p, job[p].quote,
                 [job[p].new EXCEPT !.status = "offered", !.terms = t, !.at = ttl])
        /\ UNCHANGED <<quotes, now, op, fees, received, failures, crashes>>

\* Mutant: the update does not look at the status.
Unmoved_Blind(j) == TRUE

\* The status that the request found, which the quote of an offer that expired had too.
Found(j) == From(IF j.new.status = "offerexpired" THEN "expire" ELSE j.kind)

\* update_status_if_pending, ..._offered, ..._accepted, ..._failedebillvalidation: the
\* quote still has it.
Unmoved(j) == quotes[j.quote].status = Found(j)

\* The update writes, or fails and ends the request.  What follows it: a look-up or a list
\* goes on, an enquiry is decided, an offer that expired is refused, others reply.
Update(a) ==
    /\ pc[a] = "update"
    /\ LET j == job[a]
       IN  IF Unmoved(j)
           THEN /\ quotes' = [quotes EXCEPT ![j.quote] = j.new]
                /\ CASE j.kind \in {"lookup", "list"} ->
                           Goto(a, "load") /\ job' = [job EXCEPT ![a].todo = @ \ {j.quote}]
                     [] j.kind = "enquire" -> Goto(a, "decide") /\ UNCHANGED job
                     [] OTHER -> End(a)
           ELSE UNCHANGED quotes /\ End(a)
    /\ UNCHANGED <<now, op, fees, received, failures, crashes>>

-----------------------------------------------------------------------------
(* enquire. *)

Enquire(p) ==
    \E e \in Enquiry : "enquire" \in Requests /\ Begin(p, "search", "enquire", {}, e)

\* The most recent quote for this bill and holder decides.
Search(p) ==
    LET j == job[p]
        S == ByBill(j.enquiry)
        Latest == {q \in S : \A o \in S : quotes[o].submitted <= quotes[q].submitted}
    IN  /\ pc[p] = "search"
        /\ \/ S = {} /\ Goto(p, "store") /\ UNCHANGED job
           \/ \E q \in Latest :
                 LET r == Checked(quotes[q], j.at)
                 IN  IF r # quotes[q] THEN Write(p, q, r)
                     ELSE Goto(p, "decide") /\ job' = [job EXCEPT ![p].quote = q, ![p].new = r]
        /\ UNCHANGED <<quotes, now, op, fees, received, failures, crashes>>

\* A quote that was closed long enough ago makes room for a new one.
Decide(p) ==
    /\ pc[p] = "decide"
    /\ IF job[p].new.status \in Closed /\ job[p].at > job[p].new.at + Retention
       THEN Goto(p, "store") /\ UNCHANGED job
       ELSE End(p)
    /\ UNCHANGED <<quotes, now, op, fees, received, failures, crashes>>

Store(p) ==
    \E q \in Quote \ Stored :
        /\ pc[p] = "store"
        /\ quotes' = [quotes EXCEPT ![q] =
                         [status |-> "pending", enquiry |-> job[p].enquiry,
                          submitted |-> job[p].at, at |-> 0, terms |-> None]]
        /\ End(p)
        /\ UNCHANGED <<now, op, fees, received, failures, crashes>>

-----------------------------------------------------------------------------
(* enable_minting, enable_minting_manual_override. *)

\* Mutant: the status is left to the update to check.
LoadOverride_Unchecked(p) ==
    \E q \in job[p].todo :
        /\ pc[p] = "load" /\ job[p].kind = "override"
        /\ Goto(p, "fees")
        /\ job' = [job EXCEPT ![p].quote = q,
                              ![p].new = Decided("override", quotes[q], job[p].at)]
        /\ UNCHANGED <<quotes, now, op, fees, received, failures, crashes>>

\* An admin has the minting enabled that the validation of the eBill did not.
LoadOverride(p) ==
    \E q \in job[p].todo :
        /\ pc[p] = "load" /\ job[p].kind = "override"
        /\ IF quotes[q].status = From("override")
           THEN /\ Goto(p, "fees")
                /\ job' = [job EXCEPT ![p].quote = q,
                                      ![p].new = Decided("override", quotes[q], job[p].at)]
           ELSE End(p)
        /\ UNCHANGED <<quotes, now, op, fees, received, failures, crashes>>

\* mint_fees: the core service signs the fees of the quote, anew for each attempt.
SignFees(a) ==
    /\ pc[a] = "fees"
    /\ Goto(a, "bind")
    /\ UNCHANGED <<quotes, now, job, op, fees, received, failures, crashes>>

\* The operation the treasury has is the one that is asked for.
SameOp(j) ==
    LET o == op[j.quote]
    IN  o # Treasury!Unbound /\ o.bill = j.new.enquiry.bill /\ o.ceiling = j.new.terms

\* Mutant: a refusal of the treasury is ignored.
AddOperation_Ignored(a) ==
    LET j == job[a]
    IN  /\ pc[a] = "bind"
        /\ \/ Treasury!Bind(j.quote, j.new.enquiry.bill, j.new.terms)
           \/ UNCHANGED op
        /\ Goto(a, "collect")
        /\ UNCHANGED <<quotes, now, job, fees, received, failures, crashes>>

\* The treasury binds the bill to an operation, or has done so before, or refuses because
\* another quote has it.
AddOperation(a) ==
    LET j == job[a]
        b == j.new.enquiry.bill
        Taken == \E q \in Quote : op[q] # Treasury!Unbound /\ (q = j.quote \/ op[q].bill = b)
    IN  /\ pc[a] = "bind"
        /\ \/ Treasury!Bind(j.quote, b, j.new.terms) /\ Goto(a, "collect") /\ UNCHANGED job
           \/ SameOp(j) /\ UNCHANGED <<op, job>> /\ Goto(a, "collect")
           \/ Taken /\ ~SameOp(j) /\ UNCHANGED op /\ End(a)
        /\ UNCHANGED <<quotes, now, fees, received, failures, crashes>>

\* The treasury's vault stores the fees.
CollectFees(a) ==
    /\ pc[a] = "collect"
    /\ fees' = fees \cup {job[a].quote}
    /\ Goto(a, "update")
    /\ UNCHANGED <<quotes, now, job, op, received, failures, crashes>>

-----------------------------------------------------------------------------
(* The monitor. *)

Due == WithStatus("accepted")

\* list_accepted_quotes
ListAccepted ==
    /\ Due # {}
    /\ Begin(Monitor, "check", "enable", Due, None)

\* One quote after the other; bills that have not arrived yet are skipped.
CheckQuote ==
    \E q \in job[Monitor].todo :
        LET rest == job[Monitor].todo \ {q}
        IN  /\ pc[Monitor] = "check"
            /\ IF quotes[q].status = "accepted" /\ quotes[q].enquiry.bill \in received
               THEN /\ Goto(Monitor, "validate")
                    /\ job' = [job EXCEPT ![Monitor].todo = rest, ![Monitor].quote = q]
               ELSE Proceed(Monitor, rest)
            /\ UNCHANGED <<quotes, now, op, fees, received, failures, crashes>>

\* validate_endorsed_bill_matches_shared_bill
AnswersOn(q) == Answers[quotes[q].enquiry]


\* There is no answer on this bill, in this round or in any other: an error that is logged,
\* and the next quote's turn.
ValidateFails ==
    /\ pc[Monitor] = "validate" /\ AnswersOn(job[Monitor].quote) = {}
    /\ End(Monitor)
    /\ UNCHANGED <<quotes, now, op, fees, received, failures, crashes>>

\* The bill is compared with the one the wallet shared, the quote is loaded once more.
Validate ==
    LET j == job[Monitor]
        GoesOn(kind, l) ==
            /\ Goto(Monitor, l)
            /\ job' = [job EXCEPT ![Monitor].kind = kind,
                                  ![Monitor].new = Decided(kind, quotes[j.quote], j.at)]
    IN  /\ pc[Monitor] = "validate" /\ AnswersOn(j.quote) # {}
        /\ IF quotes[j.quote].status = "accepted"
           THEN \/ TRUE \in AnswersOn(j.quote) /\ GoesOn("enable", "fees")
                \/ FALSE \in AnswersOn(j.quote) /\ GoesOn("fail", "update")
           ELSE End(Monitor)
        /\ UNCHANGED <<quotes, now, op, fees, received, failures, crashes>>

-----------------------------------------------------------------------------
\* The holder endorses the bill to the mint.
Endorse ==
    \E b \in Bill \ received :
        /\ received' = received \cup {b}
        /\ UNCHANGED <<quotes, now, pc, job, op, fees, failures, crashes>>

Tick ==
    /\ now < MaxTime
    /\ now' = now + 1
    /\ UNCHANGED <<quotes, pc, job, op, fees, received, failures, crashes>>

\* A call fails, before or after it did its work, or the connection closes.
Fail(a) ==
    /\ failures < MaxFailures
    /\ failures' = failures + 1
    /\ pc[a] # "idle"
    /\ End(a)
    /\ UNCHANGED <<quotes, now, op, fees, received, crashes>>

Crash ==
    /\ crashes < MaxCrashes
    /\ crashes' = crashes + 1
    /\ pc' = [a \in Agent |-> "idle"]
    /\ job' = [a \in Agent |-> NoJob]
    /\ UNCHANGED <<quotes, now, op, fees, received, failures>>

EnableStep(a) == SignFees(a) \/ AddOperation(a) \/ CollectFees(a) \/ Update(a)

MonitorStep ==
    ListAccepted \/ CheckQuote \/ Validate \/ ValidateFails \/ EnableStep(Monitor)

RequestStep(p) ==
    \/ Request(p) \/ LoadQuote(p) \/ Listed(p) \/ LoadDecision(p) \/ Keyset(p)
    \/ Enquire(p) \/ Search(p) \/ Decide(p) \/ Store(p)
    \/ LoadOverride(p) \/ EnableStep(p)

Next ==
    \/ \E p \in Proc : RequestStep(p)
    \/ MonitorStep
    \/ \E a \in Agent : Fail(a)
    \/ Endorse \/ Tick \/ Crash

\* The routine runs again and again, and its calls return.
Spec == Init /\ [][Next]_vars /\ WF_vars(MonitorStep)

-----------------------------------------------------------------------------
(* Properties. *)

TypeOK ==
    /\ quotes \in [Quote -> Record \cup {None}]
    /\ now \in 0..MaxTime
    /\ pc \in [Agent -> PCs]
    /\ job \in [Agent -> Job]
    /\ fees \in SUBSET Quote
    /\ received \in SUBSET Bill

\* What may become of a quote that has status s.
Following(s) ==
    CASE s = "pending" -> {"canceled", "denied", "offered"}
      [] s = "offered" -> {"offerexpired", "rejected", "accepted"}
      [] s = "accepted" -> {"mintingenabled", "failedebillvalidation"}
      [] s = "failedebillvalidation" -> {"mintingenabled"}
      [] OTHER -> {}

\* What was written, and told to a wallet or the admin, holds: a quote moves on from where
\* it is and is never set back, offered twice, or overruled by a request or a monitor round
\* that loaded it earlier; its terms are those that were offered.
RepliesHold ==
    [][\A q \in Stored : quotes'[q] # quotes[q] =>
          /\ quotes'[q].status \in Following(quotes[q].status)
          /\ quotes[q].terms # None => quotes'[q].terms = quotes[q].terms
          /\ quotes'[q].enquiry = quotes[q].enquiry]_quotes

\* Wallets can draw on an operation of the treasury only after the wallet accepted the offer,
\* and on its terms.
BoundIsAccepted ==
    \A q \in Quote : op[q] # Treasury!Unbound =>
        /\ quotes[q] # None
        /\ quotes[q].status \in {"accepted", "failedebillvalidation", "mintingenabled"}
        /\ op[q].ceiling = quotes[q].terms /\ op[q].bill = quotes[q].enquiry.bill

\* A quote for which minting is enabled has its operation at the treasury, and its fees are
\* in the vault, whatever failed on the way.
EnabledIsBacked ==
    \A q \in Stored : quotes[q].status = "mintingenabled" =>
        op[q] # Treasury!Unbound /\ q \in fees

\* A quote has terms from the offer on.
Sound(r) ==
    IF r.status \in {"pending", "canceled", "denied"} THEN r.terms = None ELSE r.terms \in Terms

AcceptedOrLater == {"accepted", "failedebillvalidation", "mintingenabled"}

\* What an agent that is at l with job j was made for, it finds.
JobInOrder(l, j) ==
    /\ j.todo \subseteq Stored
    /\ l \in {"search", "decide", "store"} => j.kind = "enquire"
    /\ j.kind = "enquire" => j.enquiry \in Enquiry
    /\ l \in {"validate", "keyset", "fees", "bind", "collect", "update"} => j.quote \in Stored
    /\ l \in {"keyset", "fees", "bind", "collect", "update"} =>
          j.new # None /\ j.new.enquiry = quotes[j.quote].enquiry

\* The terms of what it is about to write are the quote's, unless the quote gets them by
\* it; and minting is enabled with the operation and the fees in place.
CopyIsOf(l, j) ==
    /\ l = "keyset" => j.kind = "offer"
    /\ l \in {"fees", "bind", "collect"} =>
          /\ j.kind \in {"enable", "override"} /\ j.new.status = "mintingenabled"
          /\ quotes[j.quote].status \in AcceptedOrLater
          /\ j.new.terms = quotes[j.quote].terms
    /\ l = "update" =>
          /\ \/ j.new.status = "offerexpired"
             \/ j.kind \in Decisions \cup {"enable", "fail", "override"}
          /\ j.new.status \in Following(Found(j))
          /\ Sound(j.new)
          /\ Found(j) # "pending" => j.new.terms = quotes[j.quote].terms
    /\ l = "collect" \/ (l = "update" /\ j.new.status = "mintingenabled") =>
          op[j.quote] # Treasury!Unbound
    /\ l = "update" /\ j.new.status = "mintingenabled" => j.quote \in fees

\* The copy of a quote that an agent made some calls ago and is about to write still fits the
\* stored quote, or the condition of its update will find that it does not; from the binding
\* on, the quote is accepted on the terms of the copy and stays so.
QuotesInv ==
    /\ TypeOK
    /\ op = [q \in Quote |-> op[q]]
    /\ \A q \in Stored : Sound(quotes[q])
    /\ \A a \in Agent : JobInOrder(pc[a], job[a]) /\ CopyIsOf(pc[a], job[a])
    /\ BoundIsAccepted /\ EnabledIsBacked

\* Another quote has the bill.
Outrun(q) ==
    \E o \in Quote \ {q} : op[o] # Treasury!Unbound /\ op[o].bill = quotes[q].enquiry.bill

=============================================================================
