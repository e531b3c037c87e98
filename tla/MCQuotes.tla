------------------------------ MODULE MCQuotes ------------------------------
(* Small instances of Quotes for TLC. *)
EXTENDS Quotes, TLC

CONSTANTS e1, e2, h1, h2

\* One holder, who enquires again when the first quote is closed.
OneHolder == {[bill |-> e1, holder |-> h1]}

\* The bill is endorsed on: its next holder enquires for it too.
\* Another bill is not the one its holder shared.
TwoBills == {[bill |-> e1, holder |-> h1], [bill |-> e1, holder |-> h2],
             [bill |-> e2, holder |-> h1]}

\* Either answer on the first bill; no answer, ever, on the other.
FirstAnswered == [e \in Enquiry |-> IF e.bill = e1 THEN BOOLEAN ELSE {}]

AllRequests == Decisions \cup {"enquire", "lookup", "list", "override"}

\* What it takes to have quotes accepted and overridden.
ToMinting == {"enquire", "offer", "accept", "override"}

Symm == Permutations(Proc) \cup Permutations(Quote)
=============================================================================
