------------------------- MODULE CarcassBookProofs -------------------------
(***************************************************************************)
(* ClaimsOpen for every set of sources and actors.  A claim is stamped     *)
(* with a fresh serial, and receipts never get ahead of the serials, so    *)
(* the invariant carries the bound of the receipts along.                  *)
(***************************************************************************)
EXTENDS CarcassBook, TLAPS

Claim == [serial : Nat, source : Sources \cup {0}, life : Nat]

BookTypeOK ==
  /\ last \in [Sources -> Nat]
  /\ open \in [Sources -> BOOLEAN]
  /\ claims \in [Actors -> Claim]
  /\ issued \in Nat
  /\ receipts \in [Actors -> Nat]

\* No receipt is ahead of the serials.
ReceiptsIssued == \A a \in Actors : receipts[a] <= issued

Sound == BookTypeOK /\ ReceiptsIssued /\ ClaimsOpen

\* The same of a book that is passed on.
ClaimsOpenIn(b) ==
  \A a \in Actors : b.claims[a] # NoClaim =>
    /\ b.claims[a].source \in Sources
    /\ b.open[b.claims[a].source] /\ b.last[b.claims[a].source] = b.claims[a].life
    /\ b.claims[a].serial \in 1..b.issued
    /\ \A c \in Actors : /\ b.receipts[c] # b.claims[a].serial
                         /\ c # a => b.claims[c].serial # b.claims[a].serial

Books == [last : [Sources -> Nat], open : [Sources -> BOOLEAN], claims : [Actors -> Claim],
          issued : Nat, receipts : [Actors -> Nat]]

SoundIn(b) ==
  /\ b \in Books
  /\ \A a \in Actors : b.receipts[a] <= b.issued
  /\ ClaimsOpenIn(b)

\* A sound state is a sound book, and a step to a sound book ends in a sound state.
LEMMA OfState == Sound => SoundIn(Book)
BY DEF Sound, SoundIn, Book, Books, BookTypeOK, ReceiptsIssued, ClaimsOpen, ClaimsOpenIn

LEMMA ToState == ASSUME NEW b, SoundIn(b), Becomes(b) PROVE Sound'
BY DEF Sound, SoundIn, Books, Becomes, BookTypeOK, ReceiptsIssued, ClaimsOpen, ClaimsOpenIn

\* Sweeping never hurts: claims disappear with the carcasses they are on.
LEMMA SweptSound ==
  ASSUME NEW b, SoundIn(b), NEW C \in SUBSET Sources, NEW A \in SUBSET Actors
  PROVE  SoundIn(Swept(b, C, A))
<1> DEFINE q == Swept(b, C, A)
<1>1. NoClaim \in Claim
  BY DEF NoClaim, Claim
<1>2. q.last = b.last /\ q.issued = b.issued /\ q.receipts = b.receipts
  BY DEF Swept, SoundIn, Books
<1>3. q.open = [s \in Sources |-> b.open[s] /\ s \notin C]
  BY DEF Swept, SoundIn, Books
<1>4. q.claims = [a \in Actors |-> IF a \in A \/ b.claims[a].source \in C
                                   THEN NoClaim ELSE b.claims[a]]
  BY DEF Swept, SoundIn, Books
<1>5. q \in Books
  BY <1>1 DEF Swept, SoundIn, Books
<1>6. ClaimsOpenIn(q)
  <2>1. SUFFICES ASSUME NEW a \in Actors, q.claims[a] # NoClaim
                 PROVE  /\ q.claims[a].source \in Sources
                        /\ q.open[q.claims[a].source]
                        /\ q.last[q.claims[a].source] = q.claims[a].life
                        /\ q.claims[a].serial \in 1..q.issued
                        /\ \A c \in Actors : /\ q.receipts[c] # q.claims[a].serial
                                             /\ c # a => q.claims[c].serial # q.claims[a].serial
    BY DEF ClaimsOpenIn
  <2>2. q.claims[a] = b.claims[a] /\ b.claims[a].source \notin C /\ b.claims[a] # NoClaim
    BY <1>4, <2>1
  <2>3. /\ b.claims[a].source \in Sources
        /\ b.open[b.claims[a].source] /\ b.last[b.claims[a].source] = b.claims[a].life
        /\ b.claims[a].serial \in 1..b.issued
        /\ \A c \in Actors : /\ b.receipts[c] # b.claims[a].serial
                             /\ c # a => b.claims[c].serial # b.claims[a].serial
    BY <2>2 DEF SoundIn, ClaimsOpenIn
  <2>4. \A c \in Actors : q.claims[c].serial = b.claims[c].serial \/ q.claims[c].serial = 0
    BY <1>4 DEF NoClaim
  <2>5. b.claims[a].serial # 0
    BY <2>3 DEF SoundIn, Books
  <2> QED
    BY ZenonT(60), <1>2, <1>3, <2>2, <2>3, <2>4, <2>5
<1> QED
  BY <1>2, <1>5, <1>6 DEF SoundIn

\* A new life of s: its claims went with the carcass it had.
LEMMA RegisteredSound ==
  ASSUME NEW b, SoundIn(b), NEW s \in Sources, NEW life \in Nat
  PROVE  SoundIn(Registered(b, s, life))
<1> DEFINE w == Swept(b, {s}, {})
           q == Registered(b, s, life)
<1>1. SoundIn(w)
  BY SweptSound
<1>2. \A a \in Actors : w.claims[a] # NoClaim => w.claims[a].source # s
  BY DEF Swept, SoundIn, Books
<1>3. q = [w EXCEPT !.last[s] = life, !.open[s] = TRUE]
  BY DEF Registered
<1> HIDE DEF w, q
<1>4. q.claims = w.claims /\ q.issued = w.issued /\ q.receipts = w.receipts
  BY <1>1, <1>3 DEF SoundIn, Books
<1>5. q.last = [w.last EXCEPT ![s] = life] /\ q.open = [w.open EXCEPT ![s] = TRUE]
  BY <1>1, <1>3 DEF SoundIn, Books
<1>6. q \in Books
  BY <1>1, <1>3 DEF SoundIn, Books
<1>7. ClaimsOpenIn(q)
  <2>1. SUFFICES ASSUME NEW a \in Actors, w.claims[a] # NoClaim
                 PROVE  /\ w.claims[a].source \in Sources
                        /\ q.open[w.claims[a].source]
                        /\ q.last[w.claims[a].source] = w.claims[a].life
                        /\ w.claims[a].serial \in 1..w.issued
                        /\ \A c \in Actors : /\ w.receipts[c] # w.claims[a].serial
                                             /\ c # a => w.claims[c].serial # w.claims[a].serial
    BY <1>4 DEF ClaimsOpenIn
  <2>2. /\ w.claims[a].source \in Sources
        /\ w.open[w.claims[a].source] /\ w.last[w.claims[a].source] = w.claims[a].life
        /\ w.claims[a].serial \in 1..w.issued
        /\ \A c \in Actors : /\ w.receipts[c] # w.claims[a].serial
                             /\ c # a => w.claims[c].serial # w.claims[a].serial
    BY <1>1, <2>1 DEF SoundIn, ClaimsOpenIn
  <2>3. w.last \in [Sources -> Nat] /\ w.open \in [Sources -> BOOLEAN]
    BY <1>1 DEF SoundIn, Books
  <2> QED
    BY <1>2, <1>5, <2>1, <2>2, <2>3
<1> QED
  BY <1>1, <1>4, <1>6, <1>7 DEF SoundIn, q

\* A fresh serial is above every pending one and every receipt.
LEMMA GrantedSound ==
  ASSUME NEW b, SoundIn(b), NEW a \in Actors, NEW s \in Sources, Grantable(b, a, s)
  PROVE  SoundIn(Granted(b, a, s))
<1> DEFINE q == Granted(b, a, s)
           new == [serial |-> b.issued + 1, source |-> s, life |-> b.last[s]]
<1>1. /\ b \in Books
      /\ \A c \in Actors : b.receipts[c] <= b.issued
      /\ b.issued \in Nat /\ b.receipts \in [Actors -> Nat] /\ b.claims \in [Actors -> Claim]
  BY DEF SoundIn, Books
<1>2. q = [b EXCEPT !.issued = b.issued + 1, !.claims[a] = new]
  BY <1>1 DEF Granted, Books
<1>3. new \in Claim
  BY <1>1 DEF Claim, Books
<1> HIDE DEF q
<1>4. q \in Books
  <2>1. [b.claims EXCEPT ![a] = new] \in [Actors -> Claim]
    BY <1>1, <1>3
  <2>2. q = [b EXCEPT !.issued = b.issued + 1, !.claims = [b.claims EXCEPT ![a] = new]]
    BY <1>2
  <2>3. \A n \in Nat, f \in [Actors -> Claim] : [b EXCEPT !.issued = n, !.claims = f] \in Books
    BY <1>1 DEF Books
  <2>4. b.issued + 1 \in Nat
    BY <1>1
  <2> HIDE DEF new
  <2> QED
    BY <2>1, <2>2, <2>3, <2>4
<1>5. /\ q.issued = b.issued + 1 /\ q.claims = [b.claims EXCEPT ![a] = new]
      /\ q.last = b.last /\ q.open = b.open /\ q.receipts = b.receipts
  BY <1>1, <1>2 DEF Books
<1>6. \A c \in Actors : c # a => q.claims[c] = b.claims[c]
  BY <1>1, <1>5
<1>7. q.claims[a] = new
  BY <1>1, <1>5
<1>8. \A c \in Actors : b.claims[c].serial <= b.issued
  BY <1>1 DEF SoundIn, ClaimsOpenIn, NoClaim
<1>9. ClaimsOpenIn(q)
  <2>1. SUFFICES ASSUME NEW c \in Actors, q.claims[c] # NoClaim
                 PROVE  /\ q.claims[c].source \in Sources
                        /\ q.open[q.claims[c].source]
                        /\ q.last[q.claims[c].source] = q.claims[c].life
                        /\ q.claims[c].serial \in 1..q.issued
                        /\ \A d \in Actors : /\ q.receipts[d] # q.claims[c].serial
                                             /\ d # c => q.claims[d].serial # q.claims[c].serial
    BY DEF ClaimsOpenIn
  <2>2. CASE c = a
    <3>1. /\ q.claims[c].source = s /\ q.claims[c].serial = b.issued + 1
          /\ q.claims[c].life = b.last[s]
      BY <1>7, <2>2
    <3>2. q.open[s] /\ q.last[s] = b.last[s]
      BY <1>5 DEF Grantable
    <3>3. \A d \in Actors : q.receipts[d] # b.issued + 1
      BY <1>1, <1>5
    <3>4. \A d \in Actors : d # c => q.claims[d].serial # b.issued + 1
      <4>1. \A m, n \in Nat : m <= n => m # n + 1
        OBVIOUS
      <4>2. \A d \in Actors : b.claims[d].serial \in Nat
        BY <1>1 DEF Claim
      <4> QED
        BY <1>1, <1>6, <1>8, <2>2, <4>1, <4>2, Zenon
    <3>5. b.issued + 1 \in 1..q.issued
      BY <1>1, <1>5
    <3> QED
      BY <3>1, <3>2, <3>3, <3>4, <3>5
  <2>3. CASE c # a
    <3>1. q.claims[c] = b.claims[c] /\ b.claims[c] # NoClaim
      BY <1>6, <2>1, <2>3
    <3>2. /\ b.claims[c].source \in Sources
          /\ b.open[b.claims[c].source] /\ b.last[b.claims[c].source] = b.claims[c].life
          /\ b.claims[c].serial \in 1..b.issued
          /\ \A d \in Actors : /\ b.receipts[d] # b.claims[c].serial
                               /\ d # c => b.claims[d].serial # b.claims[c].serial
      BY <3>1 DEF SoundIn, ClaimsOpenIn
    <3>3. q.claims[a].serial # b.claims[c].serial
      BY <1>1, <1>7, <3>2
    <3>4. b.claims[c].serial \in 1..q.issued
      BY <1>1, <1>5, <3>2
    <3> QED
      BY <1>5, <1>6, <3>1, <3>2, <3>3, <3>4
  <2> QED
    BY <2>2, <2>3
<1>10. \A c \in Actors : q.receipts[c] <= q.issued
  BY <1>1, <1>5
<1> QED
  BY <1>4, <1>9, <1>10 DEF SoundIn, q

\* A claim that is gone, with its serial as the receipt or with no receipt.
LEMMA SettledSound ==
  ASSUME NEW b, SoundIn(b), NEW a \in Actors, NEW n \in {0, b.claims[a].serial}
  PROVE  SoundIn([b EXCEPT !.receipts[a] = n, !.claims[a] = NoClaim])
<1> DEFINE q == [b EXCEPT !.receipts[a] = n, !.claims[a] = NoClaim]
<1>1. /\ b \in Books
      /\ b.issued \in Nat /\ b.receipts \in [Actors -> Nat] /\ b.claims \in [Actors -> Claim]
  BY DEF SoundIn, Books
<1>2. n \in Nat /\ n <= b.issued
  BY <1>1 DEF SoundIn, ClaimsOpenIn, NoClaim, Claim
<1>3. NoClaim \in Claim
  BY DEF NoClaim, Claim
<1>4. /\ q.receipts = [b.receipts EXCEPT ![a] = n] /\ q.claims = [b.claims EXCEPT ![a] = NoClaim]
      /\ q.last = b.last /\ q.open = b.open /\ q.issued = b.issued
  BY <1>1 DEF Books
<1>5. q \in Books
  BY <1>1, <1>2, <1>3 DEF Books
<1> HIDE DEF q
<1>6. ClaimsOpenIn(q)
  <2>1. SUFFICES ASSUME NEW c \in Actors, q.claims[c] # NoClaim
                 PROVE  /\ q.claims[c].source \in Sources
                        /\ q.open[q.claims[c].source]
                        /\ q.last[q.claims[c].source] = q.claims[c].life
                        /\ q.claims[c].serial \in 1..q.issued
                        /\ \A d \in Actors : /\ q.receipts[d] # q.claims[c].serial
                                             /\ d # c => q.claims[d].serial # q.claims[c].serial
    BY DEF ClaimsOpenIn
  <2>2. c # a /\ q.claims[c] = b.claims[c] /\ b.claims[c] # NoClaim
    BY <1>1, <1>4, <2>1
  <2>3. /\ b.claims[c].source \in Sources
        /\ b.open[b.claims[c].source] /\ b.last[b.claims[c].source] = b.claims[c].life
        /\ b.claims[c].serial \in 1..b.issued
        /\ \A d \in Actors : /\ b.receipts[d] # b.claims[c].serial
                             /\ d # c => b.claims[d].serial # b.claims[c].serial
    BY <2>2 DEF SoundIn, ClaimsOpenIn
  <2>4. b.claims[c].serial # 0
    BY <1>1, <2>3
  <2>5. \A d \in Actors : q.receipts[d] # b.claims[c].serial
    BY <1>1, <1>4, <2>2, <2>3, <2>4
  <2>6. \A d \in Actors : d # c => q.claims[d].serial # b.claims[c].serial
    BY <1>1, <1>4, <2>3, <2>4 DEF NoClaim
  <2> QED
    BY <1>4, <2>2, <2>3, <2>5, <2>6
<1>7. \A c \in Actors : q.receipts[c] <= q.issued
  BY <1>1, <1>2, <1>4 DEF SoundIn
<1> QED
  BY <1>5, <1>6, <1>7 DEF SoundIn, q

LEMMA InitSound == Init => Sound
BY DEF Init, Sound, BookTypeOK, ReceiptsIssued, ClaimsOpen, NoClaim, Claim

\* Every step of the book leads from a sound book to a sound one.
LEMMA NextSound == Sound /\ [Next]_vars => Sound'
<1> SUFFICES ASSUME Sound, [Next]_vars PROVE Sound'
  OBVIOUS
<1>1. SoundIn(Book)
  BY OfState
<1>2. ASSUME NEW s \in Sources, Register(s) PROVE Sound'
  BY <1>1, <1>2, RegisteredSound, ToState DEF Register
<1>3. ASSUME NEW a \in Actors, Forget(a) PROVE Sound'
  BY <1>1, <1>3, SettledSound, ToState DEF Forget, Forgotten
<1>4. ASSUME NEW C \in SUBSET Sources, NEW A \in SUBSET Actors, Sweep(C, A) PROVE Sound'
  BY <1>1, <1>4, SweptSound, ToState DEF Sweep
<1>5. ASSUME NEW C \in SUBSET Sources, NEW A \in SUBSET Actors, NEW a \in Actors,
             NEW s \in Sources, Reserve(a, s, C, A)
      PROVE  Sound'
  BY <1>1, <1>5, SweptSound, GrantedSound, ToState DEF Reserve
<1>6. ASSUME NEW C \in SUBSET Sources, NEW A \in SUBSET Actors, NEW a \in Actors, Commit(a, C, A)
      PROVE  Sound'
  <2> DEFINE b == Swept(Book, C, A)
  <2>1. SoundIn(b)
    BY <1>1, SweptSound
  <2>2. SoundIn([b EXCEPT !.receipts[a] = b.claims[a].serial, !.claims[a] = NoClaim])
    BY <2>1, SettledSound
  <2> QED
    BY <1>6, <2>2, ToState DEF Commit, Honoured
<1>7. CASE UNCHANGED vars
  BY <1>7 DEF vars, Sound, BookTypeOK, ReceiptsIssued, ClaimsOpen
<1> QED
  BY <1>2, <1>3, <1>4, <1>5, <1>6, <1>7 DEF Next

\* In the book, whatever is closed, registered, claimed, honoured or forgotten in
\* whatever order, a claim is on the open carcass it was made for and can be
\* honoured once: the promise of Ledger::Reserve, Commit, CloseCarcass and Expire
\* that the world thread relies on.
THEOREM BookClaimsOpen == Spec => []ClaimsOpen
<1>1. Sound => ClaimsOpen
  BY DEF Sound
<1> QED
  BY InitSound, NextSound, <1>1, PTL DEF Spec
=============================================================================
