----------------------------- MODULE ProofLocks -----------------------------
(***************************************************************************)
(* What the mint promises about each proof, without handlers, tables or    *)
(* requests: a proof is free, held by one holder until an instant, or      *)
(* spent.  A hold is exclusive and is given up early only by spending the  *)
(* proof; a spent proof is spent for good.  A spent proof that the         *)
(* operator recovers is outside of the promise from then on.               *)
(***************************************************************************)
EXTENDS Naturals

CONSTANTS Y, Holders, MaxClock

VARIABLES clock, lock

Free == [state |-> "free"]
Spent == [state |-> "spent"]
Recovered == [state |-> "recovered"]
Held(h, t) == [state |-> "held", by |-> h, until |-> t]

Init == clock = 0 /\ lock = [y \in Y |-> Free]

Change(ys, l) == lock' = [y \in Y |-> IF y \in ys THEN l ELSE lock[y]]

\* A holder takes free proofs, all at once.
Hold(ys, h, t) ==
    /\ \A y \in ys : lock[y] = Free
    /\ Change(ys, Held(h, t))
    /\ UNCHANGED clock

\* Holds whose time is over may be given up.
Lapse(ys) ==
    /\ \A y \in ys : lock[y].state = "held" /\ lock[y].until < clock
    /\ Change(ys, Free)
    /\ UNCHANGED clock

\* Proofs are spent, held or not, all at once.
Spend(ys) ==
    /\ \A y \in ys : lock[y].state \in {"free", "held"}
    /\ Change(ys, Spent)
    /\ UNCHANGED clock

Forget(ys) ==
    /\ \A y \in ys : lock[y] \in {Spent, Recovered}
    /\ Change(ys, Recovered)
    /\ UNCHANGED clock

Tick == clock' \in clock..MaxClock /\ UNCHANGED lock

Next ==
    \/ \E ys \in SUBSET Y :
          \/ Lapse(ys) \/ Spend(ys) \/ Forget(ys)
          \/ \E h \in Holders, t \in 0..MaxClock : Hold(ys, h, t)
    \/ Tick

Spec == Init /\ [][Next]_<<clock, lock>>
=============================================================================
