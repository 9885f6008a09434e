----------------------- MODULE SourceFirstQueue_proofs -----------------------
(***************************************************************************)
(* Theorems about SourceFirstQueue for any sources, drafts, source lists   *)
(* and any number of lost drafts.                                          *)
(*                                                                         *)
(* A round that is Well is inductive for every operation of the store by   *)
(* itself, whatever the inbox and the source list are at that moment: the  *)
(* lemmas below go through the operations one by one, and the steps of the *)
(* handlers only compose them.  Moved says what an operation may do to the *)
(* focus and to what the editor has put off.                               *)
(***************************************************************************)
EXTENDS SourceFirstQueue, FiniteSetTheorems, WellFoundedInduction, TLAPS

Box == [Draft -> {"absent", "pending", "settled"}]

(* The three tables agree with each other.                                 *)
Well(r) ==
  /\ r \in Round
  /\ r.deferred \subseteq r.rows /\ r.marked \subseteq r.rows \ r.deferred
  /\ {SourceOf[d] : d \in r.items} \subseteq r.rows
  /\ r.marked = {r.active} \ {None}
  /\ r.open \/ r.active = None

(* A closed round holds nothing that waits for a decision.                 *)
Done(r, box) == r.open \/ r.items \cap Pending(box) = {}

(* From r to q the focus left a source only when nothing of it is left or  *)
(* it is put off, and what was put off stays so while drafts of it wait.   *)
Moved(r, q, box) ==
  /\ r.active \notin {None, q.active} =>
       Waiting(q, box, r.active) = {} \/ r.active \in q.deferred
  /\ \A s \in r.deferred : s \in q.deferred \/ Waiting(r, box, s) = {}

IInv ==
  /\ config \in Configs /\ inbox \in Box /\ lost \subseteq Draft
  /\ busy \in Source \cup {None}
  /\ Well(round) /\ Done(round, inbox)
  /\ \A d \in round.items : inbox[d] # "absent"
-----------------------------------------------------------------------------
(***************************************************************************)
(* The order of the sources.                                               *)
(***************************************************************************)

(* The least-number principle for a set of naturals.                       *)
LEMMA Minimum ==
  ASSUME NEW T, T \subseteq Nat, T # {}
  PROVE  \E x \in T : \A y \in T : x <= y
<1> DEFINE R == OpToRel(<, Nat)
<1>1. IsWellFoundedOn(R, Nat)
  BY NatLessThanWellFounded
<1>2. PICK x \in T : \A y \in T : ~(<<y, x>> \in R)
  BY <1>1, WFMin
<1>3. \A y \in T : ~(y < x)
  BY <1>2 DEF OpToRel
<1>4. QED
  BY <1>3

(* The source that gets the focus is the first of those that are ready.    *)
LEMMA FirstReady ==
  ASSUME NEW r, r \in Round, NEW S, S \subseteq Source, S # {}
  PROVE  /\ FirstOf(r, S) \in S
         /\ \A t \in S \ {FirstOf(r, S)} : Before(r, FirstOf(r, S), t)
<1>1. r.order \in [Source -> Nat] /\ Name \in [Source -> Nat]
  BY DraftAssumption DEF Round
<1> DEFINE orders == {r.order[s] : s \in S}
<1>2. PICK m \in orders : \A k \in orders : m <= k
  <2>1. orders \subseteq Nat /\ orders # {}
    BY <1>1
  <2>2. QED
    BY <2>1, Minimum
<1> DEFINE names == {Name[s] : s \in {t \in S : r.order[t] = m}}
<1>3. PICK a \in names : \A k \in names : a <= k
  <2>1. names \subseteq Nat /\ names # {}
    BY <1>1, <1>2
  <2>2. QED
    BY <2>1, Minimum
<1>4. PICK s \in S : r.order[s] = m /\ Name[s] = a
  BY <1>3
<1>5. ASSUME NEW t \in S \ {s} PROVE Before(r, s, t)
  <2>1. s \in Source /\ t \in Source /\ s # t /\ Name[s] # Name[t]
    BY <1>5, DraftAssumption
  <2>2. r.order[s] \in Nat /\ r.order[t] \in Nat /\ Name[s] \in Nat /\ Name[t] \in Nat
    BY <1>1, <2>1
  <2>3. r.order[s] <= r.order[t]
    BY <1>2, <1>4, <1>5
  <2>4. r.order[t] = r.order[s] => Name[s] <= Name[t]
    BY <1>3, <1>4, <1>5
  <2>5. QED
    BY <2>1, <2>2, <2>3, <2>4 DEF Before
<1>6. QED
  BY <1>5 DEF FirstOf

(* The order column is a number.                                           *)
LEMMA OrderType ==
  ASSUME NEW box, NEW cfg \in Configs, NEW s
  PROVE  Configured(cfg) \subseteq Source /\ OrderOf(box, cfg, s) \in Nat
<1>1. cfg \in Seq(Source \cup {Off})
  BY ConfigAssumption
<1>2. Configured(cfg) \subseteq Source /\ DOMAIN cfg \subseteq Nat \ {0}
  BY <1>1 DEF Configured
<1>3. CASE s \in Configured(cfg)
  <2> DEFINE places == {i \in DOMAIN cfg : cfg[i] = s}
  <2>1. PICK i \in places : \A j \in places : i <= j
    <3>1. places \subseteq Nat /\ places # {}
      BY <1>2, <1>3 DEF Configured
    <3>2. QED
      BY <3>1, Minimum
  <2>2. \E k \in DOMAIN cfg : cfg[k] = s /\ \A j \in DOMAIN cfg : cfg[j] = s => k <= j
    BY <2>1
  <2> DEFINE first == CHOOSE k \in DOMAIN cfg : cfg[k] = s /\ \A j \in DOMAIN cfg : cfg[j] = s => k <= j
  <2>3. first \in DOMAIN cfg
    BY <2>2
  <2>4. first - 1 \in Nat
    BY <2>3, <1>2
  <2>5. OrderOf(box, cfg, s) = first - 1
    BY <1>3 DEF OrderOf
  <2>6. QED
    BY <1>2, <2>4, <2>5
<1>4. CASE s \notin Configured(cfg)
  <2> DEFINE earlier == {t \in Unknown(box, cfg) : Name[t] < Name[s]}
  <2>1. earlier \subseteq Source
    BY DraftAssumption DEF Unknown, Pending
  <2>2. IsFiniteSet(earlier) /\ IsFiniteSet(Configured(cfg))
    BY <1>2, <2>1, SourceAssumption, FS_Subset
  <2>3. Cardinality(earlier) \in Nat /\ Cardinality(Configured(cfg)) \in Nat
    BY <2>2, FS_CardinalityType
  <2>4. OrderOf(box, cfg, s) = Cardinality(Configured(cfg)) + Cardinality(earlier)
    BY <1>4 DEF OrderOf
  <2>5. QED
    BY <1>2, <2>3, <2>4
<1>5. QED
  BY <1>3, <1>4
-----------------------------------------------------------------------------
(***************************************************************************)
(* The operations of the store.                                            *)
(***************************************************************************)

(* The focus is given to a source that is ready, or the round is closed.   *)
LEMMA Activation ==
  ASSUME NEW r, Well(r), NEW box, Done(r, box)
  PROVE  LET q == ActivateNext(r, box)
         IN /\ Well(q) /\ Done(q, box)
            /\ q.items = r.items /\ q.deferred = r.deferred
            /\ r.active # None => q = r
<1> DEFINE left  == Unfinished(r, box)
           ready == left \ r.deferred
           q     == ActivateNext(r, box)
<1>1. left \subseteq r.rows /\ r.rows \subseteq Source
  BY DEF Well, Round, Unfinished
<1>2. CASE r.active # None
  <2>1. q = r
    BY <1>2 DEF ActivateNext
  <2>2. QED
    BY <1>2, <2>1
<1>3. CASE r.active = None /\ ready # {}
  <2> DEFINE s == FirstOf(r, ready)
  <2>1. s \in ready
    BY <1>1, <1>3, FirstReady DEF Well
  <2>2. q = [r EXCEPT !.active = s, !.marked = @ \cup {s}, !.deferred = @ \ {s}]
    BY <1>3 DEF ActivateNext, Focused
  <2> HIDE DEF s
  <2>3. s \in r.rows /\ s \notin r.deferred /\ s # None /\ s \in Source
    BY <1>1, <2>1, SourceAssumption
  <2>4. r \in Round /\ r.marked = {} /\ r.deferred \ {s} = r.deferred
    BY <1>3, <2>3 DEF Well
  <2>5. /\ q.open = r.open /\ q.items = r.items /\ q.rows = r.rows
        /\ q.active = s /\ q.marked = {s} /\ q.deferred = r.deferred /\ q \in Round
    <3>1. q = [r EXCEPT !.active = s, !.marked = {s}, !.deferred = r.deferred]
      BY <2>2, <2>4
    <3>2. /\ r.deferred \in SUBSET Source /\ {s} \in SUBSET Source
          /\ s \in Source \cup {None}
      BY <2>3, <2>4 DEF Round
    <3> HIDE DEF q
    <3> DEFINE m == {s}
               d == r.deferred
    <3>3. /\ r \in Round /\ m \in SUBSET Source /\ d \in SUBSET Source /\ s \in Source \cup {None}
          /\ q = [r EXCEPT !.active = s, !.marked = m, !.deferred = d]
      BY <2>4, <3>1, <3>2
    <3> HIDE DEF m, d
    <3>4. /\ q \in Round /\ q.active = s /\ q.marked = m /\ q.deferred = d
          /\ q.open = r.open /\ q.items = r.items /\ q.rows = r.rows /\ q.order = r.order
      BY <3>3 DEF Round
    <3>5. QED
      BY <3>4 DEF m, d
  <2>6. r.open
    <3>1. PICK d \in r.items : box[d] = "pending"
      BY <2>1 DEF Unfinished, Waiting
    <3>2. d \in Pending(box)
      BY <3>1 DEF Well, Round, Pending
    <3>3. QED
      BY <3>1, <3>2 DEF Done
  <2>7. QED
    <3>1. q.open
      BY <2>5, <2>6
    <3>2. Well(q)
      BY <1>3, <2>3, <2>5, <3>1 DEF Well
    <3>3. QED
      BY <1>3, <2>5, <3>1, <3>2 DEF Done
<1>4. CASE r.active = None /\ ready = {}
  <2>1. q = [r EXCEPT !.open = (left # {})]
    BY <1>4 DEF ActivateNext
  <2>2. /\ q.open = (left # {}) /\ q.items = r.items /\ q.rows = r.rows
        /\ q.active = r.active /\ q.marked = r.marked /\ q.deferred = r.deferred /\ q \in Round
    BY <2>1 DEF Well, Round
  <2>3. left = {} => r.items \cap Pending(box) = {}
    BY DEF Well, Unfinished, Waiting, Pending
  <2>4. QED
    BY <1>4, <2>2, <2>3 DEF Well, Done
<1>5. QED
  BY <1>2, <1>3, <1>4

(* sync's first half adds rows and items and leaves the states alone.      *)
LEMMA Enrollment ==
  ASSUME NEW r, Well(r), r.open, NEW box \in Box, NEW cfg \in Configs
  PROVE  LET e == Enrolled(r, box, cfg)
         IN /\ Well(e) /\ e.open /\ r.items \subseteq e.items /\ r.rows \subseteq e.rows
            /\ e.active = r.active /\ e.marked = r.marked /\ e.deferred = r.deferred
            /\ e.items \subseteq r.items \cup Pending(box)
<1> DEFINE more  == Configured(cfg) \cup Unknown(box, cfg)
           order == [s \in Source |-> IF s \in more THEN OrderOf(box, cfg, s) ELSE r.order[s]]
           rows  == r.rows \cup more
           items == r.items \cup Pending(box)
           e     == Enrolled(r, box, cfg)
<1>1. r \in Round /\ r.rows \subseteq Source /\ r.items \subseteq Draft /\ r.order \in [Source -> Nat]
  BY DEF Well, Round
<1>2. more \subseteq Source
  BY OrderType, DraftAssumption DEF Unknown, Pending
<1>3. order \in [Source -> Nat]
  BY <1>1, OrderType
<1>4. rows \subseteq Source /\ items \subseteq Draft
  BY <1>1, <1>2 DEF Pending
<1>5. {SourceOf[d] : d \in items} \subseteq rows
  <2>1. ASSUME NEW d \in Pending(box) PROVE SourceOf[d] \in more
    BY <2>1 DEF Unknown
  <2>2. QED
    BY <2>1 DEF Well
<1>6. e = [r EXCEPT !.rows = rows, !.order = order, !.items = items]
  BY DEF Enrolled
<1> HIDE DEF e, rows, order, items
<1>7. /\ e \in Round /\ e.rows = rows /\ e.items = items /\ e.open = r.open
      /\ e.active = r.active /\ e.marked = r.marked /\ e.deferred = r.deferred
  BY <1>1, <1>3, <1>4, <1>6 DEF Round
<1>8. r.rows \subseteq rows /\ r.items \subseteq items /\ items \subseteq r.items \cup Pending(box)
  BY DEF rows, items
<1>9. e.open
  BY <1>7
<1>10. Well(e)
  BY <1>5, <1>7, <1>8, <1>9 DEF Well
<1>11. QED
  BY <1>7, <1>8, <1>9, <1>10 DEF e

(* What is finished is neither in focus nor put off any more.              *)
LEMMA Reconciliation ==
  ASSUME NEW r, Well(r), r.open, NEW box
  PROVE  LET q == Reconciled(r, box)
         IN /\ Well(q) /\ q.open /\ q.items = r.items /\ Moved(r, q, box)
            /\ q.deferred \subseteq r.deferred
<1> DEFINE left  == Unfinished(r, box)
           focus == IF r.active \in left \cap r.marked THEN r.active ELSE None
           off   == r.deferred \cap left
           mark  == r.marked \cap left
           q     == Reconciled(r, box)
<1>1. r \in Round /\ r.deferred \subseteq Source /\ r.marked \subseteq Source /\ r.rows \subseteq Source
  BY DEF Well, Round
<1>2. off \subseteq Source /\ mark \subseteq Source /\ focus \in Source \cup {None}
  BY <1>1
<1>3. q = [r EXCEPT !.deferred = off, !.marked = mark, !.active = focus]
  BY DEF Reconciled
<1>4. ASSUME NEW s \in r.rows, s \notin left PROVE Waiting(r, box, s) = {}
  BY <1>4 DEF Unfinished
<1>5. mark = {focus} \ {None}
  BY DEF Well
<1>6. r.active # None /\ focus # r.active => r.active \in r.rows /\ r.active \notin left
  BY DEF Well
<1> HIDE DEF q, off, mark, focus
<1>7. /\ q \in Round /\ q.deferred = off /\ q.marked = mark /\ q.active = focus
      /\ q.open = r.open /\ q.items = r.items /\ q.rows = r.rows
  BY <1>1, <1>2, <1>3 DEF Round
<1>8. q.open
  BY <1>7
<1>9. off \subseteq r.deferred /\ mark \subseteq r.marked
  BY DEF off, mark
<1>10. Well(q)
  BY <1>5, <1>7, <1>8, <1>9 DEF Well
<1>11. \A s : Waiting(q, box, s) = Waiting(r, box, s)
  BY <1>7 DEF Waiting
<1>12. \A s \in r.deferred : s \in off \/ Waiting(r, box, s) = {}
  BY <1>4 DEF Well, off
<1>13. Moved(r, q, box)
  BY <1>4, <1>6, <1>7, <1>11, <1>12 DEF Moved
<1>14. QED
  BY <1>7, <1>8, <1>9, <1>10, <1>13 DEF q

LEMMA FreshRound == Well(NewRound) /\ NewRound.open /\ NewRound.items = {}
                      /\ NewRound.deferred = {} /\ NewRound.active = None
<1> DEFINE order == [s \in Source |-> 0]
<1>1. order \in [Source -> Nat]
  OBVIOUS
<1> HIDE DEF order
<1>2. NewRound = [open |-> TRUE, active |-> None, rows |-> {}, deferred |-> {},
                  marked |-> {}, order |-> order, items |-> {}]
  BY DEF NewRound, order
<1>3. NewRound \in Round
  BY <1>1, <1>2 DEF Round
<1>4. QED
  BY <1>2, <1>3 DEF Well

(* sync of an open round.                                                  *)
LEMMA SyncOpen ==
  ASSUME NEW r, Well(r), r.open, NEW box \in Box, NEW cfg \in Configs
  PROVE  LET q == ActivateNext(Reconciled(Enrolled(r, box, cfg), box), box)
         IN /\ Well(q) /\ Done(q, box) /\ Moved(r, q, box)
            /\ r.items \subseteq q.items /\ q.items \subseteq r.items \cup Pending(box)
            /\ q.deferred \subseteq r.deferred
<1> DEFINE e == Enrolled(r, box, cfg)
           c == Reconciled(e, box)
           q == ActivateNext(c, box)
<1>1. /\ Well(e) /\ e.open /\ r.items \subseteq e.items
      /\ e.items \subseteq r.items \cup Pending(box)
      /\ e.active = r.active /\ e.deferred = r.deferred
  BY Enrollment
<1> HIDE DEF e
<1>2. Well(c) /\ c.open /\ c.items = e.items /\ Moved(e, c, box) /\ c.deferred \subseteq e.deferred
  BY <1>1, Reconciliation
<1> HIDE DEF c
<1>3. /\ Well(q) /\ Done(q, box) /\ q.items = c.items /\ q.deferred = c.deferred
      /\ c.active # None => q = c
  BY <1>2, Activation DEF Done
<1> HIDE DEF q
<1>4. \A s : /\ Waiting(q, box, s) = Waiting(c, box, s)
            /\ Waiting(r, box, s) \subseteq Waiting(e, box, s)
  BY <1>1, <1>3 DEF Waiting
<1>5. Moved(r, q, box)
  BY <1>1, <1>2, <1>3, <1>4 DEF Moved
<1>6. QED
  BY <1>1, <1>2, <1>3, <1>5 DEF e, c, q

(* sync keeps a round sound, and a new round forgets nothing.              *)
LEMMA Syncing ==
  ASSUME NEW r, Well(r), NEW box \in Box, Done(r, box), NEW cfg \in Configs
  PROVE  LET q == Synced(r, box, cfg)
         IN /\ Well(q) /\ Done(q, box) /\ Moved(r, q, box)
            /\ \A s : Waiting(r, box, s) \subseteq Waiting(q, box, s)
            /\ q.items \subseteq r.items \cup Pending(box) /\ q.deferred \subseteq r.deferred
<1> DEFINE q == Synced(r, box, cfg)
<1>1. CASE ~r.open /\ Pending(box) = {}
  <2>1. q = r
    BY <1>1 DEF Synced
  <2>2. Moved(r, r, box)
    BY DEF Moved
  <2>3. QED
    BY <2>1, <2>2
<1>2. CASE r.open
  <2>1. q = ActivateNext(Reconciled(Enrolled(r, box, cfg), box), box)
    BY <1>2 DEF Synced
  <2>2. /\ Well(q) /\ Done(q, box) /\ Moved(r, q, box) /\ r.items \subseteq q.items
        /\ q.items \subseteq r.items \cup Pending(box) /\ q.deferred \subseteq r.deferred
    BY <1>2, <2>1, SyncOpen
  <2> HIDE DEF q
  <2>3. \A s : Waiting(r, box, s) \subseteq Waiting(q, box, s)
    BY <2>2 DEF Waiting
  <2>4. QED
    BY <2>2, <2>3 DEF q
<1>3. CASE ~r.open /\ Pending(box) # {}
  <2>1. q = ActivateNext(Reconciled(Enrolled(NewRound, box, cfg), box), box)
    BY <1>3 DEF Synced
  <2>2. /\ Well(q) /\ Done(q, box) /\ q.items \subseteq r.items \cup Pending(box)
        /\ q.deferred \subseteq r.deferred
    BY <2>1, FreshRound, SyncOpen
  <2> HIDE DEF q
  <2>3. r.items \subseteq Draft /\ r.active = None
    BY <1>3 DEF Well, Round
  <2>4. \A s : Waiting(r, box, s) = {}
    BY <1>3, <2>3 DEF Done, Waiting, Pending
  <2>5. Moved(r, q, box)
    BY <2>3, <2>4 DEF Moved
  <2>6. QED
    BY <2>2, <2>4, <2>5 DEF q
<1>4. QED
  BY <1>1, <1>2, <1>3

(* defer puts one source off and keeps the others put off.                 *)
LEMMA Deferring ==
  ASSUME NEW r, Well(r), NEW box \in Box, Done(r, box), NEW s \in Source
  PROVE  LET q == Deferred(r, box, s)
         IN /\ Well(q) /\ Done(q, box) /\ q.items = r.items
            /\ r.deferred \subseteq q.deferred
            /\ r.active \in {None, q.active} \cup q.deferred
<1> DEFINE off   == r.deferred \cup {s}
           mark  == r.marked \ {s}
           focus == IF r.active = s THEN None ELSE r.active
           m     == [r EXCEPT !.deferred = off, !.marked = mark, !.active = focus]
           q     == Deferred(r, box, s)
<1>1. CASE s \notin Unfinished(r, box)
  BY <1>1 DEF Deferred
<1>2. CASE s \in Unfinished(r, box)
  <2>1. q = ActivateNext(m, box)
    BY <1>2 DEF Deferred
  <2>2. /\ r \in Round /\ s \in r.rows /\ r.deferred \subseteq Source /\ r.marked \subseteq Source
        /\ r.rows \subseteq Source /\ r.active \in Source \cup {None}
    BY <1>2 DEF Well, Round, Unfinished
  <2>3. r.open
    <3>1. PICK d \in r.items : box[d] = "pending"
      BY <1>2 DEF Unfinished, Waiting
    <3>2. d \in Pending(box)
      BY <3>1 DEF Well, Round, Pending
    <3>3. QED
      BY <3>1, <3>2 DEF Done
  <2>4. /\ off \subseteq r.rows /\ mark \subseteq r.rows \ off /\ mark = {focus} \ {None}
        /\ off \subseteq Source /\ mark \subseteq Source /\ focus \in Source \cup {None}
        /\ r.deferred \subseteq off /\ r.active \in {None, focus} \cup off
    BY <2>2 DEF Well
  <2> DEFINE p == m
  <2>5. p = [r EXCEPT !.deferred = off, !.marked = mark, !.active = focus]
    OBVIOUS
  <2> HIDE DEF off, mark, focus, p
  <2>6. /\ p \in Round /\ p.deferred = off /\ p.marked = mark /\ p.active = focus
        /\ p.open = r.open /\ p.items = r.items /\ p.rows = r.rows
    BY <2>2, <2>4, <2>5 DEF Round
  <2>7. p.open
    BY <2>3, <2>6
  <2>8. Well(p) /\ Done(p, box)
    BY <2>4, <2>6, <2>7 DEF Well, Done
  <2>9. q = ActivateNext(p, box)
    BY <2>1 DEF p
  <2>10. /\ Well(q) /\ Done(q, box) /\ q.items = p.items /\ q.deferred = p.deferred
         /\ p.active # None => q = p
    BY <2>8, <2>9, Activation
  <2> HIDE DEF q
  <2>11. QED
    BY <2>4, <2>6, <2>10 DEF q
<1>3. QED
  BY <1>1, <1>2

(* resume takes one source from those put off; a focus stays where it is.  *)
LEMMA Resuming ==
  ASSUME NEW r, Well(r), NEW box \in Box, Done(r, box), NEW s \in Source
  PROVE  LET q == Resumed(r, box, s)
         IN /\ Well(q) /\ Done(q, box) /\ q.items = r.items
            /\ r.deferred \ {s} \subseteq q.deferred
            /\ r.active \in {None, q.active}
<1> DEFINE off == r.deferred \ {s}
           m   == [r EXCEPT !.deferred = off]
           q   == Resumed(r, box, s)
<1>1. CASE s \notin r.deferred
  BY <1>1 DEF Resumed
<1>2. CASE s \in r.deferred
  <2>1. q = ActivateNext(m, box)
    BY <1>2 DEF Resumed
  <2>2. r \in Round /\ off \subseteq Source /\ off \subseteq r.deferred
    BY DEF Well, Round
  <2> DEFINE p == m
  <2>3. p = [r EXCEPT !.deferred = off]
    OBVIOUS
  <2> HIDE DEF p
  <2>4. /\ p \in Round /\ p.deferred = off /\ p.marked = r.marked /\ p.active = r.active
        /\ p.open = r.open /\ p.items = r.items /\ p.rows = r.rows
    <3> HIDE DEF off
    <3>1. QED
      BY <2>2, <2>3 DEF Round
  <2>5. p.open <=> r.open
    BY <2>4
  <2>6. Well(p) /\ Done(p, box)
    BY <2>2, <2>4, <2>5 DEF Well, Done
  <2>7. q = ActivateNext(p, box)
    BY <2>1 DEF p
  <2>8. /\ Well(q) /\ Done(q, box) /\ q.items = p.items /\ q.deferred = p.deferred
        /\ p.active # None => q = p
    BY <2>6, <2>7, Activation
  <2> HIDE DEF q
  <2>9. QED
    BY <2>4, <2>8 DEF q
<1>3. QED
  BY <1>1, <1>2
-----------------------------------------------------------------------------
(***************************************************************************)
(* The handlers.                                                           *)
(***************************************************************************)

FocusMoves ==
  round.active \notin {None, round'.active} =>
    \/ Waiting(round', inbox', round.active) = {}
    \/ round.active \in round'.deferred

DeferralMoves ==
  \A s \in round.deferred :
    s \in round'.deferred \/ Waiting(round, inbox', s) = {} \/ Resume(s)

StepSound == IInv' /\ FocusMoves /\ DeferralMoves

(* A change of the inbox that the round does not notice yet.               *)
LEMMA InboxChange ==
  ASSUME IInv, NEW d \in Draft,
         \/ inbox[d] = "absent" /\ inbox' = [inbox EXCEPT ![d] = "pending"]
         \/ inbox' = [inbox EXCEPT ![d] = "settled"]
         \/ inbox' = inbox
  PROVE  inbox' \in Box /\ Done(round, inbox') /\ \A x \in round.items : inbox'[x] # "absent"
<1>1. round.items \subseteq Draft
  BY DEF IInv, Well, Round
<1>2. inbox' \in Box
  BY DEF IInv, Box
<1>3. ASSUME NEW x \in round.items
      PROVE  inbox'[x] # "absent" /\ (inbox'[x] = "pending" => inbox[x] = "pending")
  BY <1>1, <1>3 DEF IInv, Box
<1>4. Done(round, inbox')
  BY <1>1, <1>3 DEF IInv, Done, Pending
<1>5. QED
  BY <1>2, <1>3, <1>4

(* A handler that leaves the round alone.                                  *)
LEMMA RoundKept ==
  ASSUME IInv, inbox' \in Box, Done(round, inbox'), \A d \in round.items : inbox'[d] # "absent",
         round' = round, config' \in Configs, lost' \subseteq Draft, busy' \in Source \cup {None}
  PROVE  IInv' /\ FocusMoves /\ DeferralMoves
BY DEF IInv, Well, Done, FocusMoves, DeferralMoves

(* A handler that ends with a sync.                                        *)
LEMMA RoundSynced ==
  ASSUME IInv, inbox' \in Box, Done(round, inbox'), \A d \in round.items : inbox'[d] # "absent",
         config' \in Configs, lost' \subseteq Draft, busy' \in Source \cup {None},
         round' = Synced(round, inbox', config')
  PROVE  IInv' /\ FocusMoves /\ DeferralMoves
<1> DEFINE q == Synced(round, inbox', config')
<1>1. /\ Well(q) /\ Done(q, inbox') /\ Moved(round, q, inbox')
      /\ q.items \subseteq round.items \cup Pending(inbox')
  BY Syncing DEF IInv
<1> HIDE DEF q
<1>2. round' = q
  BY DEF q
<1>3. Well(round)' /\ Done(round, inbox)'
  BY <1>1, <1>2 DEF Well, Done
<1>4. (\A d \in round.items : inbox[d] # "absent")'
  BY <1>1, <1>2 DEF Pending
<1>5. QED
  BY <1>1, <1>2, <1>3, <1>4 DEF IInv, FocusMoves, DeferralMoves, Moved

(* The round every handler starts from.                                    *)
LEMMA NowSound ==
  ASSUME IInv
  PROVE  /\ Well(Now) /\ Done(Now, inbox) /\ Moved(round, Now, inbox)
         /\ \A s : Waiting(round, inbox, s) \subseteq Waiting(Now, inbox, s)
         /\ Now.deferred \subseteq round.deferred
         /\ \A d \in Now.items : inbox[d] # "absent"
<1>1. /\ Well(Now) /\ Done(Now, inbox) /\ Moved(round, Now, inbox)
      /\ \A s : Waiting(round, inbox, s) \subseteq Waiting(Now, inbox, s)
      /\ Now.items \subseteq round.items \cup Pending(inbox)
      /\ Now.deferred \subseteq round.deferred
  BY Syncing DEF IInv, Now
<1>2. QED
  BY <1>1 DEF IInv, Pending

LEMMA DeferStep ==
  ASSUME IInv, NEW s \in Source, Defer(s)
  PROVE  IInv' /\ FocusMoves /\ DeferralMoves
<1> DEFINE q == Deferred(Now, inbox, s)
<1>1. /\ round' = q /\ inbox' = inbox /\ config' = config /\ lost' = lost /\ busy' = busy
  BY DEF Defer
<1>2. /\ Well(q) /\ Done(q, inbox) /\ q.items = Now.items
      /\ Now.deferred \subseteq q.deferred /\ Now.active \in {None, q.active} \cup q.deferred
  BY NowSound, Deferring DEF IInv
<1> HIDE DEF q
<1>3. \A t : Waiting(q, inbox, t) = Waiting(Now, inbox, t)
  BY <1>2 DEF Waiting
<1>4. FocusMoves /\ DeferralMoves
  BY <1>1, <1>2, <1>3, NowSound DEF FocusMoves, DeferralMoves, Moved
<1>5. Well(round)' /\ Done(round, inbox)'
  BY <1>1, <1>2 DEF Well, Done
<1>6. IInv'
  BY <1>1, <1>2, <1>5, NowSound DEF IInv
<1>7. QED
  BY <1>4, <1>6

LEMMA ResumeStep ==
  ASSUME IInv, NEW s \in Source, Resume(s)
  PROVE  IInv' /\ FocusMoves /\ DeferralMoves
<1> DEFINE q == Resumed(Now, inbox, s)
<1>1. /\ round' = q /\ inbox' = inbox /\ config' = config /\ lost' = lost /\ busy' = busy
  BY DEF Resume
<1>2. /\ Well(q) /\ Done(q, inbox) /\ q.items = Now.items
      /\ Now.deferred \ {s} \subseteq q.deferred /\ Now.active \in {None, q.active}
  BY NowSound, Resuming DEF IInv
<1> HIDE DEF q
<1>3. \A t : Waiting(q, inbox, t) = Waiting(Now, inbox, t)
  BY <1>2 DEF Waiting
<1>4. round.active # None => round.active \notin Now.deferred
  BY NowSound DEF IInv, Well
<1>5. FocusMoves
  BY <1>1, <1>2, <1>3, <1>4, NowSound DEF FocusMoves, Moved
<1>6. DeferralMoves
  BY <1>1, <1>2, NowSound DEF DeferralMoves, Moved
<1>7. Well(round)' /\ Done(round, inbox)'
  BY <1>1, <1>2 DEF Well, Done
<1>8. IInv'
  BY <1>1, <1>2, <1>7, NowSound DEF IInv
<1>9. QED
  BY <1>5, <1>6, <1>8
-----------------------------------------------------------------------------
LEMMA InitIInv == Init => IInv
<1> SUFFICES ASSUME Init PROVE IInv
  OBVIOUS
<1> DEFINE r == [NewRound EXCEPT !.open = FALSE]
<1>1. round = r
  BY DEF Init
<1>2. NewRound \in Round /\ NewRound.marked = {}
  BY FreshRound DEF NewRound, Well
<1> HIDE DEF r
<1>3. /\ round \in Round /\ round.active = None /\ round.items = {} /\ round.deferred = {}
      /\ round.marked = {}
  BY <1>1, <1>2, FreshRound DEF r, Round
<1>4. Well(round)
  BY <1>3 DEF Well
<1>5. inbox \in Box
  BY DEF Init, Box
<1>6. QED
  BY <1>3, <1>4, <1>5 DEF Init, IInv, Done

LEMMA NextIInv ==
  ASSUME IInv, [Next]_vars
  PROVE  IInv' /\ FocusMoves /\ DeferralMoves
<1> SUFFICES StepSound
  BY DEF StepSound
<1>1. ASSUME NEW d \in Draft, Deliver(d) PROVE StepSound
  <2>1. inbox' \in Box /\ Done(round, inbox') /\ \A x \in round.items : inbox'[x] # "absent"
    BY <1>1, InboxChange DEF Deliver
  <2>2. QED
    BY <1>1, <2>1, RoundKept DEF Deliver, StepSound, IInv
<1>2. ASSUME NEW d \in Draft, NEW synced \in BOOLEAN, Settle(d, synced) PROVE StepSound
  <2>1. inbox' \in Box /\ Done(round, inbox') /\ \A x \in round.items : inbox'[x] # "absent"
    BY <1>2, InboxChange DEF Settle
  <2>2. CASE synced
    BY <1>2, <2>1, <2>2, RoundSynced DEF Settle, StepSound, IInv
  <2>3. CASE ~synced
    BY <1>2, <2>1, <2>3, RoundKept DEF Settle, StepSound, IInv
  <2>4. QED
    BY <2>2, <2>3
<1>3. ASSUME inbox' = inbox, config' \in Configs, lost' \subseteq Draft, busy' \in Source \cup {None},
             round' = round \/ round' = Synced(round, inbox', config')
      PROVE  StepSound
  <2>1. inbox' \in Box /\ Done(round, inbox') /\ \A x \in round.items : inbox'[x] # "absent"
    BY <1>3 DEF IInv, Done, Pending
  <2>2. QED
    BY <1>3, <2>1, RoundKept, RoundSynced DEF StepSound
<1>4. CASE Sync \/ EndRetry \/ AbortRetry
  BY <1>3, <1>4 DEF Sync, EndRetry, AbortRetry, Now, IInv
<1>5. ASSUME NEW cfg \in Configs, Deploy(cfg) PROVE StepSound
  BY <1>3, <1>5 DEF Deploy, IInv
<1>6. ASSUME NEW s \in Source, BeginRetry(s) PROVE StepSound
  BY <1>3, <1>6 DEF BeginRetry, Now, IInv
<1>7. ASSUME NEW d \in Draft, Lose(d) PROVE StepSound
  BY <1>3, <1>7 DEF Lose, IInv
<1>8. ASSUME NEW s \in Source, Defer(s) \/ Resume(s) PROVE StepSound
  BY <1>8, DeferStep, ResumeStep DEF StepSound
<1>9. CASE Review
  <2>1. PICK d \in OnShow \ lost, synced \in BOOLEAN : Settle(d, synced)
    BY <1>9 DEF Review
  <2>2. d \in Draft
    BY <2>1 DEF OnShow, Waiting, IInv, Well, Round
  <2>3. QED
    BY <1>2, <2>1, <2>2
<1>10. CASE ResumeOffered
  <2>1. PICK s \in Offered(round) : Resume(s)
    BY <1>10 DEF ResumeOffered
  <2>2. s \in Source
    BY <2>1 DEF Offered, IInv, Well, Round
  <2>3. QED
    BY <1>8, <2>1, <2>2
<1>11. CASE UNCHANGED vars
  BY <1>3, <1>11 DEF vars, IInv
<1>12. QED
  BY <1>1, <1>2, <1>4, <1>5, <1>6, <1>7, <1>8, <1>9, <1>10, <1>11 DEF Next

LEMMA Inductive == Spec => []IInv
<1>1. IInv /\ [Next]_vars => IInv'
  BY NextIInv
<1>2. QED
  BY <1>1, InitIInv, PTL DEF Spec
-----------------------------------------------------------------------------
(***************************************************************************)
(* The order of the file.                                                  *)
(***************************************************************************)

(* The order column follows the file, and the round has what is pending.   *)
Lined(r, box, cfg) ==
  /\ Configured(cfg) \subseteq r.rows /\ Pending(box) \subseteq r.items
  /\ \A s \in Configured(cfg) : r.order[s] = OrderOf(box, cfg, s)

(* Nothing of s is pending.                                                *)
Empty(box, s) == {d \in Pending(box) : SourceOf[d] = s} = {}

(* What is listed earlier has the smaller number.                          *)
LEMMA OrderFollows ==
  ASSUME NEW box, NEW cfg \in Configs, NEW s \in Configured(cfg), NEW t \in Configured(cfg),
         Precedes(cfg, s, t)
  PROVE  OrderOf(box, cfg, s) < OrderOf(box, cfg, t)
<1> DEFINE first(x) == CHOOSE k \in DOMAIN cfg : cfg[k] = x /\ \A j \in DOMAIN cfg : cfg[j] = x => k <= j
<1>1. DOMAIN cfg \subseteq Nat
  BY ConfigAssumption
<1>2. ASSUME NEW x \in Configured(cfg)
      PROVE  first(x) \in DOMAIN cfg /\ cfg[first(x)] = x /\ \A j \in DOMAIN cfg : cfg[j] = x => first(x) <= j
  <2> DEFINE places == {i \in DOMAIN cfg : cfg[i] = x}
  <2>1. PICK i \in places : \A j \in places : i <= j
    <3>1. places \subseteq Nat /\ places # {}
      BY <1>1, <1>2 DEF Configured
    <3>2. QED
      BY <3>1, Minimum
  <2>2. \E k \in DOMAIN cfg : cfg[k] = x /\ \A j \in DOMAIN cfg : cfg[j] = x => k <= j
    BY <2>1
  <2>3. QED
    BY <2>2
<1>3. OrderOf(box, cfg, s) = first(s) - 1 /\ OrderOf(box, cfg, t) = first(t) - 1
  BY DEF OrderOf
<1>4. PICK i \in DOMAIN cfg : cfg[i] = s /\ \A j \in DOMAIN cfg : cfg[j] = t => i < j
  BY DEF Precedes
<1>5. first(s) \in Nat /\ first(t) \in Nat /\ first(s) <= i /\ i < first(t) /\ i \in Nat
  BY <1>1, <1>2, <1>4
<1> HIDE DEF first
<1>6. QED
  BY <1>3, <1>5

(* A focus that is given goes to the first source in the file's order that *)
(* has something pending and is not put off.                               *)
LEMMA FocusFollows ==
  ASSUME NEW r, Well(r), NEW box, NEW cfg \in Configs, Lined(r, box, cfg),
         NEW s \in Configured(cfg), NEW t \in Configured(cfg), Precedes(cfg, s, t),
         ActivateNext(r, box).active = t, r.active # t
  PROVE  Empty(box, s) \/ s \in r.deferred
<1> DEFINE ready == Unfinished(r, box) \ r.deferred
           f == FirstOf(r, ready)
<1>1. r \in Round /\ ready \subseteq Source
  BY DEF Well, Round, Unfinished
<1>2. t \in Source /\ t # None
  BY OrderType, SourceAssumption
<1>3. ready # {}
  BY <1>1, <1>2 DEF ActivateNext, Round
<1>4. f \in ready /\ \A x \in ready \ {f} : Before(r, f, x)
  BY <1>1, <1>3, FirstReady
<1>5. f = t
  <2>1. r.active = None
    BY DEF ActivateNext
  <2>2. ActivateNext(r, box) = Focused(r, f)
    BY <1>3, <2>1 DEF ActivateNext
  <2> HIDE DEF f
  <2>3. Focused(r, f).active = f
    BY <1>1 DEF Focused, Round
  <2>4. QED
    BY <2>2, <2>3
<1>6. r.order[s] < r.order[t] /\ r.order[s] \in Nat /\ r.order[t] \in Nat
  BY OrderFollows, OrderType DEF Lined
<1>7. s # t /\ ~Before(r, t, s)
  BY <1>6 DEF Before
<1>8. s \notin ready
  BY <1>4, <1>5, <1>7
<1>9. ASSUME s \notin Unfinished(r, box) PROVE Empty(box, s)
  BY <1>9 DEF Unfinished, Waiting, Lined, Empty, Pending
<1>10. QED
  BY <1>8, <1>9

(* The activation leaves the order alone.                                  *)
LEMMA LinedStays ==
  ASSUME NEW r \in Round, NEW box, NEW cfg \in Configs, Lined(r, box, cfg)
  PROVE  Lined(ActivateNext(r, box), box, cfg)
<1> DEFINE q == ActivateNext(r, box)
           f == FirstOf(r, Unfinished(r, box) \ r.deferred)
<1>1. q = r \/ q = Focused(r, f) \/ q = [r EXCEPT !.open = Unfinished(r, box) # {}]
  BY DEF ActivateNext
<1> HIDE DEF f, q
<1>2. q.rows = r.rows /\ q.items = r.items /\ q.order = r.order
  BY <1>1 DEF Focused, Round
<1>3. QED
  BY <1>2 DEF Lined, q

(* What a sync activates is lined up, and no source came into focus or was *)
(* put off on the way.                                                     *)
LEMMA SyncLines ==
  ASSUME NEW r, Well(r), r.open, NEW box \in Box, NEW cfg \in Configs
  PROVE  LET p == Reconciled(Enrolled(r, box, cfg), box)
         IN /\ Well(p) /\ Lined(p, box, cfg)
            /\ p.active \in {None, r.active} /\ p.deferred \subseteq r.deferred
<1> DEFINE more  == Configured(cfg) \cup Unknown(box, cfg)
           order == [s \in Source |-> IF s \in more THEN OrderOf(box, cfg, s) ELSE r.order[s]]
           rows  == r.rows \cup more
           items == r.items \cup Pending(box)
           e     == Enrolled(r, box, cfg)
<1>1. e = [r EXCEPT !.rows = rows, !.order = order, !.items = items]
  BY DEF Enrolled
<1>2. r \in Round /\ Configured(cfg) \subseteq Source
  BY OrderType DEF Well
<1>3. \A s \in Configured(cfg) : order[s] = OrderOf(box, cfg, s)
  BY <1>2
<1>4. Well(e) /\ e.open /\ e.active = r.active /\ e.deferred = r.deferred
  BY Enrollment
<1> HIDE DEF e, order
<1>5. e.rows = rows /\ e.items = items /\ e.order = order
  BY <1>1, <1>2 DEF Round
<1>6. Lined(e, box, cfg)
  BY <1>3, <1>5 DEF Lined
<1> DEFINE left  == Unfinished(e, box)
           focus == IF e.active \in left \cap e.marked THEN e.active ELSE None
           off   == e.deferred \cap left
           mark  == e.marked \cap left
           p     == Reconciled(e, box)
<1>7. p = [e EXCEPT !.deferred = off, !.marked = mark, !.active = focus]
  BY DEF Reconciled
<1>8. focus \in {None, e.active} /\ off \subseteq e.deferred
  OBVIOUS
<1>9. Well(p)
  BY <1>4, Reconciliation
<1> HIDE DEF p, off, mark, focus
<1>10. /\ p.rows = e.rows /\ p.items = e.items /\ p.order = e.order
       /\ p.active = focus /\ p.deferred = off
  BY <1>4, <1>7 DEF Well, Round
<1>11. Lined(p, box, cfg)
  BY <1>6, <1>10 DEF Lined
<1>12. QED
  BY <1>4, <1>8, <1>9, <1>10, <1>11 DEF p, e

(* The order of the file from one round to another.                        *)
Follows(r, q, box, cfg) ==
  \A s, t \in Configured(cfg) :
    q.active = t /\ r.active # t /\ Precedes(cfg, s, t)
      => Empty(box, s) \/ s \in r.deferred \cup q.deferred

(* A sync keeps to it, and lines the round up unless nothing is pending.   *)
LEMMA SyncFollows ==
  ASSUME NEW r, Well(r), NEW box \in Box, Done(r, box), NEW cfg \in Configs
  PROVE  LET q == Synced(r, box, cfg)
         IN Follows(r, q, box, cfg) /\ (Lined(q, box, cfg) \/ Pending(box) = {})
<1> DEFINE q == Synced(r, box, cfg)
           b == IF r.open THEN r ELSE NewRound
           p == Reconciled(Enrolled(b, box, cfg), box)
<1>1. CASE ~r.open /\ Pending(box) = {}
  BY <1>1 DEF Synced, Follows
<1>2. CASE ~(~r.open /\ Pending(box) = {})
  <2>1. q = ActivateNext(p, box)
    BY <1>2 DEF Synced
  <2>2. Well(b) /\ b.open /\ b.active \in {None, r.active} /\ b.deferred \subseteq r.deferred
    BY FreshRound
  <2> HIDE DEF b
  <2>3. /\ Well(p) /\ Lined(p, box, cfg)
        /\ p.active \in {None, b.active} /\ p.deferred \subseteq b.deferred
    BY <2>2, SyncLines
  <2> HIDE DEF p
  <2>4. Lined(q, box, cfg)
    BY <2>1, <2>3, LinedStays DEF Well
  <2>5. ASSUME NEW s \in Configured(cfg), NEW t \in Configured(cfg),
               q.active = t, r.active # t, Precedes(cfg, s, t)
        PROVE  Empty(box, s) \/ s \in r.deferred
    <3>1. t # None
      BY OrderType, SourceAssumption
    <3>2. p.active # t
      BY <2>2, <2>3, <2>5, <3>1
    <3>3. ActivateNext(p, box).active = t
      BY <2>1, <2>5
    <3> HIDE DEF q
    <3>4. Empty(box, s) \/ s \in p.deferred
      BY <2>3, <2>5, <3>2, <3>3, FocusFollows
    <3>5. QED
      BY <2>2, <2>3, <3>4
  <2> HIDE DEF q
  <2>6. QED
    BY <2>4, <2>5 DEF Follows, q
<1>3. QED
  BY <1>1, <1>2

(* Putting a source off keeps to it.                                       *)
LEMMA DeferFollows ==
  ASSUME NEW r, Well(r), NEW box \in Box, Done(r, box), NEW cfg \in Configs,
         Lined(r, box, cfg) \/ Pending(box) = {}, NEW x \in Source
  PROVE  Follows(r, Deferred(r, box, x), box, cfg)
<1> DEFINE off   == r.deferred \cup {x}
           mark  == r.marked \ {x}
           focus == IF r.active = x THEN None ELSE r.active
           p     == [r EXCEPT !.deferred = off, !.marked = mark, !.active = focus]
           q     == Deferred(r, box, x)
<1>1. CASE x \notin Unfinished(r, box)
  BY <1>1 DEF Deferred, Follows
<1>2. CASE Pending(box) = {}
  BY <1>2 DEF Follows, Empty
<1>3. CASE x \in Unfinished(r, box) /\ Lined(r, box, cfg)
  <2>1. q = ActivateNext(p, box)
    BY <1>3 DEF Deferred
  <2>2. /\ r \in Round /\ x \in r.rows /\ r.deferred \subseteq Source /\ r.marked \subseteq Source
        /\ r.active \in Source \cup {None}
    BY <1>3 DEF Well, Round, Unfinished
  <2>3. /\ off \subseteq r.rows /\ mark \subseteq r.rows \ off /\ mark = {focus} \ {None}
        /\ off \subseteq Source /\ mark \subseteq Source /\ focus \in {None, r.active}
        /\ r.deferred \subseteq off
    BY <2>2 DEF Well
  <2>4. r.open
    <3>1. PICK d \in r.items : box[d] = "pending"
      BY <1>3 DEF Unfinished, Waiting
    <3>2. d \in Pending(box)
      BY <3>1 DEF Well, Round, Pending
    <3>3. QED
      BY <3>1, <3>2 DEF Done
  <2> DEFINE n == p
  <2>5. n = [r EXCEPT !.deferred = off, !.marked = mark, !.active = focus]
    OBVIOUS
  <2> HIDE DEF off, mark, focus, n
  <2>6. /\ n \in Round /\ n.deferred = off /\ n.marked = mark /\ n.active = focus
        /\ n.open = r.open /\ n.items = r.items /\ n.rows = r.rows /\ n.order = r.order
    BY <2>2, <2>3, <2>5 DEF Round
  <2>7. n.open
    BY <2>4, <2>6
  <2>8. Well(n) /\ Done(n, box) /\ Lined(n, box, cfg)
    BY <1>3, <2>3, <2>6, <2>7 DEF Well, Done, Lined
  <2>9. q = ActivateNext(n, box)
    BY <2>1 DEF n
  <2>10. q.deferred = n.deferred
    BY <2>8, <2>9, Activation
  <2> HIDE DEF q
  <2>11. ASSUME NEW s \in Configured(cfg), NEW t \in Configured(cfg),
                q.active = t, r.active # t, Precedes(cfg, s, t)
         PROVE  Empty(box, s) \/ s \in q.deferred
    <3>1. t # None
      BY OrderType, SourceAssumption
    <3>2. n.active # t
      BY <2>3, <2>6, <2>11, <3>1
    <3>3. QED
      BY <2>8, <2>9, <2>10, <2>11, <3>2, FocusFollows
  <2>12. QED
    BY <2>11 DEF Follows, q
<1>4. QED
  BY <1>1, <1>2, <1>3

(* So does resuming one.                                                   *)
LEMMA ResumeFollows ==
  ASSUME NEW r, Well(r), NEW box \in Box, Done(r, box), NEW cfg \in Configs,
         Lined(r, box, cfg) \/ Pending(box) = {}, NEW x \in Source
  PROVE  Follows(r, Resumed(r, box, x), box, cfg)
<1> DEFINE off == r.deferred \ {x}
           p   == [r EXCEPT !.deferred = off]
           q   == Resumed(r, box, x)
<1>1. CASE x \notin r.deferred
  BY <1>1 DEF Resumed, Follows
<1>2. CASE Pending(box) = {}
  BY <1>2 DEF Follows, Empty
<1>3. CASE x \in r.deferred /\ Lined(r, box, cfg)
  <2>1. q = ActivateNext(p, box)
    BY <1>3 DEF Resumed
  <2>2. r \in Round /\ off \subseteq Source /\ off \subseteq r.deferred
    BY DEF Well, Round
  <2> DEFINE n == p
  <2>3. n = [r EXCEPT !.deferred = off]
    OBVIOUS
  <2> HIDE DEF off, n
  <2>4. /\ n \in Round /\ n.deferred = off /\ n.marked = r.marked /\ n.active = r.active
        /\ n.open = r.open /\ n.items = r.items /\ n.rows = r.rows /\ n.order = r.order
    BY <2>2, <2>3 DEF Round
  <2>5. n.open <=> r.open
    BY <2>4
  <2>6. Well(n) /\ Lined(n, box, cfg)
    BY <1>3, <2>2, <2>4, <2>5 DEF Well, Lined
  <2>7. q = ActivateNext(n, box)
    BY <2>1 DEF n
  <2> HIDE DEF q
  <2>8. ASSUME NEW s \in Configured(cfg), NEW t \in Configured(cfg),
               q.active = t, r.active # t, Precedes(cfg, s, t)
        PROVE  Empty(box, s) \/ s \in r.deferred
    <3>1. n.active # t
      BY <2>4, <2>8
    <3>2. Empty(box, s) \/ s \in n.deferred
      BY <2>6, <2>7, <2>8, <3>1, FocusFollows
    <3>3. QED
      BY <2>2, <2>4, <3>2
  <2>9. QED
    BY <2>8 DEF Follows, q
<1>4. QED
  BY <1>1, <1>2, <1>3

(* Two operations in a row: the sync every button begins with, and its own.*)
LEMMA FollowsTwice ==
  ASSUME NEW r, NEW n, NEW q, NEW box, NEW cfg,
         Follows(r, n, box, cfg), Follows(n, q, box, cfg),
         n.deferred \subseteq r.deferred
  PROVE  Follows(r, q, box, cfg)
BY DEF Follows

LEMMA NextFollows ==
  ASSUME IInv, [Next]_vars
  PROVE  Follows(round, round', inbox', config')
<1>1. ASSUME round' = round PROVE Follows(round, round', inbox', config')
  BY <1>1 DEF Follows
<1>2. IInv'
  BY NextIInv
<1>3. ASSUME inbox' = inbox PROVE Done(round, inbox')
  BY <1>3 DEF IInv
<1>4. ASSUME Done(round, inbox'), round' = Synced(round, inbox', config')
      PROVE  Follows(round, round', inbox', config')
  BY <1>2, <1>4, SyncFollows DEF IInv
<1>5. ASSUME NEW d \in Draft, NEW synced \in BOOLEAN, Settle(d, synced)
      PROVE  Follows(round, round', inbox', config')
  <2>1. Done(round, inbox')
    BY <1>5, InboxChange DEF Settle
  <2>2. round' = round \/ round' = Synced(round, inbox', config')
    BY <1>5 DEF Settle
  <2>3. QED
    BY <1>1, <1>4, <2>1, <2>2
<1>6. ASSUME NEW d \in Draft, Deliver(d) \/ Lose(d) PROVE round' = round
  BY <1>6 DEF Deliver, Lose
<1>7. CASE Sync \/ EndRetry \/ AbortRetry
  <2>1. inbox' = inbox /\ config' = config /\ round' \in {round, Now}
    BY <1>7 DEF Sync, EndRetry, AbortRetry
  <2>2. QED
    BY <1>1, <1>3, <1>4, <2>1 DEF Now
<1>8. ASSUME NEW cfg \in Configs, Deploy(cfg) PROVE Follows(round, round', inbox', config')
  BY <1>3, <1>4, <1>8 DEF Deploy
<1>9. ASSUME NEW s \in Source, BeginRetry(s) PROVE Follows(round, round', inbox', config')
  BY <1>3, <1>4, <1>9 DEF BeginRetry, Now
<1>10. /\ Follows(round, Now, inbox, config) /\ Well(Now) /\ Done(Now, inbox)
       /\ Lined(Now, inbox, config) \/ Pending(inbox) = {}
       /\ Now.deferred \subseteq round.deferred
  <2>1. Well(round) /\ Done(round, inbox) /\ inbox \in Box /\ config \in Configs
    BY DEF IInv
  <2>2. QED
    BY <2>1, NowSound, SyncFollows DEF Now
<1>11. ASSUME NEW s \in Source, Defer(s) \/ Resume(s) PROVE Follows(round, round', inbox', config')
  <2> DEFINE n == Now
  <2>1. /\ inbox' = inbox /\ config' = config
        /\ round' = Deferred(n, inbox, s) \/ round' = Resumed(n, inbox, s)
    BY <1>11 DEF Defer, Resume
  <2>2. inbox \in Box /\ config \in Configs
    BY DEF IInv
  <2> HIDE DEF n
  <2>3. /\ Follows(round, n, inbox, config) /\ Well(n) /\ Done(n, inbox)
        /\ Lined(n, inbox, config) \/ Pending(inbox) = {}
        /\ n.deferred \subseteq round.deferred
    BY <1>10 DEF n
  <2>4. Follows(n, round', inbox, config)
    BY <2>1, <2>2, <2>3, DeferFollows, ResumeFollows
  <2>5. QED
    BY <2>1, <2>3, <2>4, FollowsTwice
<1>12. CASE Review
  <2>1. PICK d \in OnShow \ lost, synced \in BOOLEAN : Settle(d, synced)
    BY <1>12 DEF Review
  <2>2. d \in Draft
    BY <2>1 DEF OnShow, Waiting, IInv, Well, Round
  <2>3. QED
    BY <1>5, <2>1, <2>2
<1>13. CASE ResumeOffered
  <2>1. PICK s \in Offered(round) : Resume(s)
    BY <1>13 DEF ResumeOffered
  <2>2. s \in Source
    BY <2>1 DEF Offered, IInv, Well, Round
  <2>3. QED
    BY <1>11, <2>1, <2>2
<1>14. CASE UNCHANGED vars
  BY <1>1, <1>14 DEF vars
<1>15. QED
  BY <1>1, <1>5, <1>6, <1>7, <1>8, <1>9, <1>11, <1>12, <1>13, <1>14 DEF Next
-----------------------------------------------------------------------------
(* The tables agree in type and with each other, whatever is delivered,    *)
(* redeployed, interrupted or lost.                                        *)
THEOREM QueueTypes == Spec => []TypeOK
<1>1. IInv => TypeOK
  BY DEF IInv, TypeOK, Well, Box
<1>2. QED
  BY <1>1, Inductive, PTL

(* At most one source is in focus, and both tables name the same one.      *)
THEOREM FocusAgrees == Spec => []OneFocus
<1>1. IInv => OneFocus
  BY DEF IInv, Well, OneFocus
<1>2. QED
  BY <1>1, Inductive, PTL

(* A round is closed only when nothing of it waits for a decision.         *)
THEOREM NothingForgotten == Spec => []ClosedMeansDone
<1>1. IInv => ClosedMeansDone
  BY DEF IInv, Done, ClosedMeansDone
<1>2. QED
  BY <1>1, Inductive, PTL

(* Both together.                                                          *)
THEOREM RoundsStay == Spec => []RoundsAgree
<1>1. Spec => []OneFocus /\ []ClosedMeansDone
  BY FocusAgrees, NothingForgotten
<1>2. OneFocus /\ ClosedMeansDone => RoundsAgree
  BY DEF RoundsAgree
<1>3. QED
  BY <1>1, <1>2, PTL

(* The focus leaves a source only when nothing of it waits any more or the *)
(* editor puts it off.                                                     *)
THEOREM FocusStays == Spec => FocusKept
<1>1. IInv /\ [Next]_vars =>
        [round.active \notin {None, round'.active} =>
           \/ Waiting(round', inbox', round.active) = {}
           \/ round.active \in round'.deferred]_vars
  BY NextIInv DEF FocusMoves
<1>2. QED
  BY <1>1, Inductive, PTL DEF Spec, FocusKept

(* What the editor put off stays so until it is resumed or decided.        *)
THEOREM DeferralStays == Spec => DeferralKept
<1>1. IInv /\ [Next]_vars =>
        [\A s \in round.deferred :
           s \in round'.deferred \/ Waiting(round, inbox', s) = {} \/ Resume(s)]_vars
  BY NextIInv DEF DeferralMoves
<1>2. QED
  BY <1>1, Inductive, PTL DEF Spec, DeferralKept

(* Neither kind of choice is lost by any step.                             *)
THEOREM ChoicesStay == Spec => ChoicesKept
  BY FocusStays, DeferralStays DEF ChoicesKept
(* The focus goes to a configured source only if every one listed before   *)
(* it has nothing pending or was put off, under any lists of sources and   *)
(* whatever the order in which drafts, deployments and buttons come.       *)
THEOREM FileOrderHolds == Spec => FileOrder
<1>1. IInv /\ [Next]_vars =>
        [\A s, t \in Configured(config') :
           /\ round'.active = t /\ round.active # t
           /\ Precedes(config', s, t)
           => \/ {d \in Pending(inbox') : SourceOf[d] = s} = {}
              \/ s \in round.deferred \cup round'.deferred]_vars
  BY NextFollows DEF Follows, Empty
<1>2. QED
  BY <1>1, Inductive, PTL DEF Spec, FileOrder
=============================================================================
