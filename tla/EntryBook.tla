------------------------------ MODULE EntryBook ------------------------------
(***************************************************************************)
(* What the entry pipeline promises, without evaluations, leases, awaits   *)
(* or a ledger: a token is flat, being entered or open; at most            *)
(* MaxPositions tokens are anything but flat, and a token is entered only  *)
(* from flat, so it never carries two positions.                           *)
(***************************************************************************)
EXTENDS Integers, FiniteSets

CONSTANTS Mints, MaxPositions

VARIABLE book

Engaged == {m \in Mints : book[m] # "flat"}

Init == book \in [Mints -> {"flat"}]

\* An entry is allowed: the token counts toward the limit from here on.
Claim(m) ==
  /\ book[m] = "flat"
  /\ Cardinality(Engaged) < MaxPositions
  /\ book' = [book EXCEPT ![m] = "entering"]

\* The entry is recorded.
Open(m) ==
  /\ book[m] = "entering"
  /\ book' = [book EXCEPT ![m] = "open"]

\* The buy came to nothing.
Abandon(m) ==
  /\ book[m] = "entering"
  /\ book' = [book EXCEPT ![m] = "flat"]

Close(m) ==
  /\ book[m] = "open"
  /\ book' = [book EXCEPT ![m] = "flat"]

\* A process restart forgets every entry that was under way.
Restart ==
  book' = [m \in Mints |-> IF book[m] = "entering" THEN "flat" ELSE book[m]]

Next ==
  \/ \E m \in Mints : Claim(m) \/ Open(m) \/ Abandon(m) \/ Close(m)
  \/ Restart

Spec == Init /\ [][Next]_book

==============================================================================
