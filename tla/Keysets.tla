------------------------------ MODULE Keysets ------------------------------
(***************************************************************************)
(* The keysets of bcr-wdc-core-service.  Creating one tells clowder of it  *)
(* and then stores it; between the two calls, and between a look for a     *)
(* keyset of some date and its creation, other requests go on.             *)
(*                                                                         *)
(* Abstractions.  A key pair stands for itself: the id of a keyset, which  *)
(* is the hash of its keys, is a model value.  Units are left out.         *)
(***************************************************************************)
CONSTANTS
    Kid,     \* ids of keysets
    Date,    \* dates at which keysets expire
    Expires  \* of each id, the date its keys are derived from

VARIABLES
    rows,    \* core_keys
    known    \* external: the keysets clowder was told of

vars == <<rows, known>>

Init == rows = {} /\ known = {}

\* Keys are derived from the second of their creation and the date they expire: two
\* keysets that are created for one date in the same second have the same id.
Generated(date) == {k \in Kid : Expires[k] = date}

Announce(k) == known' = known \cup {k} /\ UNCHANGED rows

\* The keysets that are listed for a date.
Listed(date) == rows \cap Generated(date)

\* Refused if there is a row with this id.
Store(k) == k \notin rows /\ rows' = rows \cup {k} /\ UNCHANGED known

Exists(k) == k \in rows

\* What the keyset's keys sign can be verified by clowder: it knows every keyset in use.
StoredIsKnown == rows \subseteq known
=============================================================================
