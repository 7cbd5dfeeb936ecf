---------------------------- MODULE CarcassBook ----------------------------
(***************************************************************************)
(* What the food ledger promises about carcasses and the claims on them,   *)
(* without portions, times and reservations: a source has at most one open *)
(* carcass, that of its last registered life; a claim is on an open        *)
(* carcass, and is honoured at most once.                                  *)
(*                                                                         *)
(* A call of the ledger may first sweep what has expired.  Which carcasses *)
(* and claims that are is left open here.                                  *)
(***************************************************************************)
EXTENDS Naturals

CONSTANTS
  Sources,    \* spawn ids of the prey whose corpses are food
  Actors      \* hunters and predators

VARIABLES
  last,       \* the last registered life of a source, 0: none
  open,       \* whether the carcass of that life is active
  claims,     \* the pending claim of an actor
  issued,     \* _nextClaimSerial
  receipts    \* LastCommitted: the serial of the claim last honoured, or 0

vars == <<last, open, claims, issued, receipts>>

NoClaim == [serial |-> 0, source |-> 0, life |-> 0]

\* The whole book, as its operations pass it on to each other.
Book == [last |-> last, open |-> open, claims |-> claims, issued |-> issued, receipts |-> receipts]

Becomes(b) ==
  /\ last' = b.last /\ open' = b.open /\ claims' = b.claims
  /\ issued' = b.issued /\ receipts' = b.receipts

---------------------------------------------------------------------------
\* The carcasses C are closed; their claims go with them, and the claims of A.
Swept(b, C, A) ==
  [b EXCEPT !.open = [s \in Sources |-> b.open[s] /\ s \notin C],
            !.claims = [a \in Actors |-> IF a \in A \/ b.claims[a].source \in C
                                         THEN NoClaim ELSE b.claims[a]]]

\* A death of source s in a life that was not registered yet.
Registered(b, s, life) ==
  [Swept(b, {s}, {}) EXCEPT !.last[s] = life, !.open[s] = TRUE]

\* A is offered a part of the carcass of s.
Grantable(b, a, s) == b.open[s] /\ b.claims[a] = NoClaim

Granted(b, a, s) ==
  [b EXCEPT !.issued = @ + 1,
            !.claims[a] = [serial |-> b.issued + 1, source |-> s, life |-> b.last[s]]]

\* The meat of the claim is handed over.
Honoured(b, a) ==
  [b EXCEPT !.receipts[a] = b.claims[a].serial, !.claims[a] = NoClaim]

\* The actor died, was unloaded, or is another incarnation.
Forgotten(b, a) == [b EXCEPT !.receipts[a] = 0, !.claims[a] = NoClaim]

---------------------------------------------------------------------------
Init ==
  /\ last = [s \in Sources |-> 0]
  /\ open = [s \in Sources |-> FALSE]
  /\ claims = [a \in Actors |-> NoClaim]
  /\ issued = 0
  /\ receipts = [a \in Actors |-> 0]

Register(s) ==
  /\ last'[s] \in Nat /\ last'[s] > last[s]
  /\ Becomes(Registered(Book, s, last'[s]))

\* Expire, CloseCarcass, Cancel, a Commit that comes too late: nothing but a sweep.
Sweep(C, A) == Becomes(Swept(Book, C, A))

Reserve(a, s, C, A) ==
  LET b == Swept(Book, C, A) IN Grantable(b, a, s) /\ Becomes(Granted(b, a, s))

Commit(a, C, A) ==
  LET b == Swept(Book, C, A) IN b.claims[a] # NoClaim /\ Becomes(Honoured(b, a))

Forget(a) == Becomes(Forgotten(Book, a))

Next ==
  \/ \E s \in Sources : Register(s)
  \/ \E a \in Actors : Forget(a)
  \/ \E C \in SUBSET Sources, A \in SUBSET Actors :
        \/ Sweep(C, A)
        \/ \E a \in Actors, s \in Sources : Reserve(a, s, C, A)
        \/ \E a \in Actors : Commit(a, C, A)

Spec == Init /\ [][Next]_vars

---------------------------------------------------------------------------
\* A claim is on an open carcass, in the life it was made for, and its serial
\* is no other claim's and no receipt's: what was honoured once, or closed, or
\* replaced by a later life, can never be honoured again.
ClaimsOpen ==
  \A a \in Actors : claims[a] # NoClaim =>
    /\ claims[a].source \in Sources
    /\ open[claims[a].source] /\ last[claims[a].source] = claims[a].life
    /\ claims[a].serial \in 1..issued
    /\ \A b \in Actors : /\ receipts[b] # claims[a].serial
                         /\ b # a => claims[b].serial # claims[a].serial
=============================================================================
