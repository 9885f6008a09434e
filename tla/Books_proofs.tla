---------------------------- MODULE Books_proofs ----------------------------
(***************************************************************************)
(* Theorems about the texts of a segment and the plans of packages, for    *)
(* any posts, media and drafts, the models asked for summaries, and the    *)
(* machines of MCRecords as its runs put them beside each other: what one  *)
(* machine keeps alone it keeps there, for any value of the constants.     *)
(***************************************************************************)
EXTENDS MCRecords, Records_proofs, Sources_proofs, WebhookHost_proofs

-----------------------------------------------------------------------------
(* What is made by going through a sequence.                               *)

(* What holds for 0 and goes on from each number holds for all of them.    *)
LEMMA UpTo ==
  ASSUME NEW N \in Nat, NEW G, 0 \in G, \A n \in 1 .. N : n - 1 \in G => n \in G
  PROVE  0 .. N \subseteq G
<1> DEFINE T == {n \in 0 .. N : n \notin G}
<1>1. SUFFICES ASSUME T # {} PROVE FALSE
  OBVIOUS
<1>2. T \subseteq Nat
  OBVIOUS
<1> HIDE DEF T
<1>3. PICK n \in T : \A k \in T : n <= k
  BY <1>1, <1>2, LeastExists
<1> USE DEF T
<1>4. n \in 1 .. N /\ n - 1 \in 0 .. N /\ ~(n <= n - 1)
  BY <1>3
<1>5. n - 1 \in G
  BY <1>3, <1>4
<1>6. QED
  BY <1>3, <1>4, <1>5

(* A sequence of states, each made from the one before, exists.            *)
StaysIn(S, N, pass) == \A x \in S, n \in 1 .. N : pass[<<x, n>>] \in S

GoesThrough(S, N, base, pass, f) ==
  f \in [0 .. N -> S] /\ f[0] = base /\ \A n \in 1 .. N : f[n] = pass[<<f[n - 1], n>>]

LEMMA Recursion ==
  ASSUME NEW S, NEW N \in Nat, NEW base \in S, NEW pass, StaysIn(S, N, pass)
  PROVE  \E f : GoesThrough(S, N, base, pass, f)
<1> DEFINE Run(f, n) == f[0] = base /\ \A k \in 1 .. n : f[k] = pass[<<f[k - 1], k>>]
           G == {n \in 0 .. N : \E f \in [0 .. n -> S] : Run(f, n)}
<1>1. 0 \in G
  <2> DEFINE e == [k \in 0 .. 0 |-> base]
  <2>1. e \in [0 .. 0 -> S] /\ e[0] = base
    OBVIOUS
  <2> HIDE DEF e
  <2>2. Run(e, 0)
    BY <2>1
  <2>3. QED
    BY <2>1, <2>2
<1>2. ASSUME NEW n \in 1 .. N, n - 1 \in G PROVE n \in G
  <2>1. PICK f \in [0 .. n - 1 -> S] : Run(f, n - 1)
    BY <1>2
  <2>0. n \in Nat /\ n # 0 /\ n - 1 \in 0 .. n - 1
    OBVIOUS
  <2>2. f[n - 1] \in S /\ pass[<<f[n - 1], n>>] \in S
    BY <2>0 DEF StaysIn
  <2> DEFINE h == [k \in 0 .. n |-> IF k = n THEN pass[<<f[n - 1], n>>] ELSE f[k]]
  <2>3. h \in [0 .. n -> S]
    <3>1. \A k \in 0 .. n : k = n \/ k \in 0 .. n - 1
      OBVIOUS
    <3>2. QED
      BY <2>2, <3>1
  <2>4. \A k \in 0 .. n - 1 : h[k] = f[k]
    BY <2>0
  <2>5. h[n] = pass[<<f[n - 1], n>>]
    BY <2>0
  <2> HIDE DEF h
  <2>6. h[0] = base
    BY <2>0, <2>1, <2>4
  <2>7. ASSUME NEW k \in 1 .. n PROVE h[k] = pass[<<h[k - 1], k>>]
    <3>1. k - 1 \in 0 .. n - 1 /\ h[k - 1] = f[k - 1]
      BY <2>4
    <3>2. CASE k = n
      BY <2>5, <3>1, <3>2
    <3>3. CASE k # n
      <4>1. k \in 1 .. n - 1 /\ k \in 0 .. n - 1
        BY <3>3
      <4>2. f[k] = pass[<<f[k - 1], k>>] /\ h[k] = f[k]
        BY <2>1, <2>4, <4>1
      <4>3. QED
        BY <3>1, <4>2
    <3>4. QED
      BY <3>2, <3>3
  <2>8. QED
    BY <2>3, <2>6, <2>7
<1> HIDE DEF G
<1>3. N \in G
  BY <1>1, <1>2, UpTo
<1>4. QED
  BY <1>3 DEF G, GoesThrough

-----------------------------------------------------------------------------
(* Texts of a segment (SegmentText).                                       *)

(* No line is said twice, each is the text of a post that has a faithful   *)
(* one.                                                                    *)
GoodLines(lines) ==
  \A i, j \in DOMAIN lines :
    /\ Faithful(lines[i])
    /\ i # j => lines[i] # lines[j] /\ {lines[i], lines[j]} \notin SameSaying

Weighing(V) == [lines : Seq(V), conflicts : SUBSET V, withheld : SUBSET V, unresolved : BOOLEAN]

LEMMA AppendedIsGood ==
  ASSUME NEW V, NEW lines \in Seq(V), NEW u \in V, GoodLines(lines), Faithful(u),
         ~_is_redundant(lines, u), \A i \in DOMAIN lines : lines[i] # u
  PROVE  GoodLines(Append(lines, u))
<1> DEFINE L == Len(lines)
           more == Append(lines, u)
<1>1. /\ L \in Nat /\ DOMAIN lines = 1 .. L /\ DOMAIN more = 1 .. L + 1
      /\ \A i \in DOMAIN lines : more[i] = lines[i]
      /\ more[L + 1] = u
  OBVIOUS
<1>2. \A i \in DOMAIN more : i \in DOMAIN lines \/ i = L + 1
  BY <1>1
<1> HIDE DEF L, more
<1>3. \A i \in DOMAIN lines : lines[i] # u /\ {u, lines[i]} \notin SameSaying /\ {lines[i], u} \notin SameSaying
  <2>1. \A i : {lines[i], u} = {u, lines[i]}
    OBVIOUS
  <2>2. QED
    BY <2>1 DEF _is_redundant
<1>4. ASSUME NEW i \in DOMAIN more, NEW j \in DOMAIN more
      PROVE  Faithful(more[i]) /\ (i # j => more[i] # more[j] /\ {more[i], more[j]} \notin SameSaying)
  <2>1. CASE i \in DOMAIN lines /\ j \in DOMAIN lines
    BY <1>1, <2>1 DEF GoodLines
  <2>2. CASE i \in DOMAIN lines /\ j = L + 1
    BY <1>1, <1>3, <2>2 DEF GoodLines
  <2>3. CASE i = L + 1 /\ j \in DOMAIN lines
    BY <1>1, <1>3, <2>3
  <2>4. CASE i = L + 1 /\ j = L + 1
    BY <1>1, <2>4
  <2>5. QED
    BY <1>2, <2>1, <2>2, <2>3, <2>4
<1>5. QED
  BY <1>4 DEF GoodLines, more

LEMMA ConsiderFits ==
  ASSUME NEW V, NEW b, NEW acc \in Weighing(V), NEW u \in V
  PROVE  LET next == Consider(b, acc, u) IN
         /\ next \in Weighing(V)
         /\ \/ next.lines = acc.lines
            \/ next.lines = Append(acc.lines, u) /\ Faithful(u) /\ ~_is_redundant(acc.lines, u)
<1> DEFINE l == acc.lines
           c == acc.conflicts
           w == acc.withheld
           o == acc.unresolved
           next == Consider(b, acc, u)
<1>0. /\ acc = [lines |-> l, conflicts |-> c, withheld |-> w, unresolved |-> o]
      /\ l \in Seq(V) /\ c \in SUBSET V /\ w \in SUBSET V /\ o \in BOOLEAN
  BY DEF Weighing
<1>1. \/ next = acc
      \/ next = [acc EXCEPT !.withheld = @ \cup {u}]
      \/ next = [acc EXCEPT !.conflicts = @ \cup {u}]
      \/ next = [acc EXCEPT !.withheld = @ \cup {u}, !.unresolved = TRUE]
      \/ next = [acc EXCEPT !.lines = Append(@, u)] /\ Faithful(u) /\ ~_is_redundant(l, u)
  BY DEF Consider
<1>2. Append(l, u) \in Seq(V) /\ c \cup {u} \in SUBSET V /\ w \cup {u} \in SUBSET V
  BY <1>0
<1> HIDE DEF next
<1>3. PICK lines \in Seq(V), conflicts \in SUBSET V, withheld \in SUBSET V, unresolved \in BOOLEAN :
        /\ next = [lines |-> lines, conflicts |-> conflicts, withheld |-> withheld, unresolved |-> unresolved]
        /\ lines = l \/ (lines = Append(l, u) /\ Faithful(u) /\ ~_is_redundant(l, u))
  <2>1. CASE next = acc
    BY <1>0, <2>1
  <2>2. CASE next = [acc EXCEPT !.withheld = @ \cup {u}]
    <3>1. next = [lines |-> l, conflicts |-> c, withheld |-> w \cup {u}, unresolved |-> o]
      BY <1>0, <2>2
    <3> HIDE DEF l, c, w, o
    <3>2. QED
      BY <1>0, <1>2, <3>1
  <2>3. CASE next = [acc EXCEPT !.conflicts = @ \cup {u}]
    <3>1. next = [lines |-> l, conflicts |-> c \cup {u}, withheld |-> w, unresolved |-> o]
      BY <1>0, <2>3
    <3> HIDE DEF l, c, w, o
    <3>2. QED
      BY <1>0, <1>2, <3>1
  <2>4. CASE next = [acc EXCEPT !.withheld = @ \cup {u}, !.unresolved = TRUE]
    <3>1. next = [lines |-> l, conflicts |-> c, withheld |-> w \cup {u}, unresolved |-> TRUE]
      BY <1>0, <2>4
    <3> HIDE DEF l, c, w, o
    <3>2. QED
      BY <1>0, <1>2, <3>1
  <2>5. CASE next = [acc EXCEPT !.lines = Append(@, u)] /\ Faithful(u) /\ ~_is_redundant(l, u)
    <3>1. next = [lines |-> Append(l, u), conflicts |-> c, withheld |-> w, unresolved |-> o]
      BY <1>0, <2>5
    <3> HIDE DEF l, c, w, o
    <3>2. QED
      BY <1>0, <1>2, <2>5, <3>1
  <2>6. QED
    BY <1>1, <2>1, <2>2, <2>3, <2>4, <2>5
<1>4. next \in Weighing(V) /\ next.lines = lines
  BY <1>3 DEF Weighing
<1>5. QED
  BY <1>3, <1>4 DEF next, l

(* One more piece of evidence adds its own post at most, and only where    *)
(* its text is faithful and says something new.                            *)
LEMMA ConsiderIs ==
  ASSUME NEW V, NEW b, NEW acc \in Weighing(V), NEW u \in V, GoodLines(acc.lines),
         \A i \in DOMAIN acc.lines : acc.lines[i] # u
  PROVE  LET next == Consider(b, acc, u) IN
         /\ next \in Weighing(V) /\ GoodLines(next.lines)
         /\ \A i \in DOMAIN next.lines : next.lines[i] = u \/ \E j \in DOMAIN acc.lines : next.lines[i] = acc.lines[j]
<1> DEFINE l == acc.lines
           next == Consider(b, acc, u)
<1>1. /\ next \in Weighing(V)
      /\ \/ next.lines = l
         \/ next.lines = Append(l, u) /\ Faithful(u) /\ ~_is_redundant(l, u)
  BY ConsiderFits
<1>2. l \in Seq(V)
  BY DEF Weighing
<1> HIDE DEF next
<1>3. CASE next.lines = l
  BY <1>1, <1>3 DEF next
<1>4. CASE next.lines = Append(l, u) /\ Faithful(u) /\ ~_is_redundant(l, u)
  <2>1. GoodLines(Append(l, u))
    BY <1>2, <1>4, AppendedIsGood
  <2>2. \A i \in DOMAIN Append(l, u) : Append(l, u)[i] = u \/ (i \in DOMAIN l /\ Append(l, u)[i] = l[i])
    BY <1>2
  <2>3. QED
    BY <1>1, <1>4, <2>1, <2>2 DEF next
<1>5. QED
  BY <1>1, <1>3, <1>4

(* The fold that weighs the evidence, as a function of how much of it has  *)
(* been weighed.                                                           *)
WeighedBy(start, b, others, f) ==
  f = [n \in 0 .. Len(others) |-> IF n = 0 THEN start ELSE Consider(b, f[n - 1], others[n])]

LEMMA WeighedExists ==
  ASSUME NEW V, NEW b, NEW start \in Weighing(V), NEW others \in Seq(V)
  PROVE  \E f : WeighedBy(start, b, others, f)
<1> DEFINE N == Len(others)
           S == Weighing(V)
           pass == [q \in S \X (1 .. N) |-> Consider(b, q[1], others[q[2]])]
<1>1. N \in Nat /\ \A n \in 1 .. N : others[n] \in V
  OBVIOUS
<1> HIDE DEF S, N
<1>2. ASSUME NEW x \in S, NEW n \in 1 .. N PROVE pass[<<x, n>>] = Consider(b, x, others[n])
  <2> DEFINE p == <<x, n>>
  <2>1. p \in S \X (1 .. N)
    OBVIOUS
  <2>2. p[1] = x /\ p[2] = n
    OBVIOUS
  <2> HIDE DEF p
  <2>3. pass[p] = Consider(b, p[1], others[p[2]])
    BY <2>1
  <2>4. QED
    BY <2>2, <2>3 DEF p
<1>3. \A x \in S, n \in 1 .. N : pass[<<x, n>>] \in S
  <2>1. \A x \in S, n \in 1 .. N : Consider(b, x, others[n]) \in S
    BY <1>1, ConsiderFits DEF S
  <2> HIDE DEF pass
  <2>2. QED
    BY <1>2, <2>1
<1> HIDE DEF pass
<1>4. start \in S
  BY DEF S
<1>5. PICK f : GoesThrough(S, N, start, pass, f)
  <2>1. N \in Nat /\ StaysIn(S, N, pass)
    BY <1>1, <1>3 DEF StaysIn
  <2>2. QED
    BY <1>4, <2>1, Recursion
<1>6. ASSUME NEW n \in 0 .. N PROVE f[n] = IF n = 0 THEN start ELSE Consider(b, f[n - 1], others[n])
  <2>1. CASE n = 0
    BY <1>5, <2>1 DEF GoesThrough
  <2>2. CASE n # 0
    <3>1. n \in 1 .. N /\ n - 1 \in 0 .. N
      BY <1>1, <2>2
    <3>2. f[n - 1] \in S /\ f[n] = pass[<<f[n - 1], n>>]
      BY <1>5, <3>1 DEF GoesThrough
    <3>3. f[n] = Consider(b, f[n - 1], others[n])
      BY <1>2, <3>1, <3>2
    <3>4. QED
      BY <2>2, <3>3
  <2>3. QED
    BY <2>1, <2>2
<1>7. f = [n \in 0 .. N |-> f[n]]
  BY <1>5 DEF GoesThrough
<1>8. f = [n \in 0 .. N |-> IF n = 0 THEN start ELSE Consider(b, f[n - 1], others[n])]
  BY <1>6, <1>7
<1>9. QED
  BY <1>8 DEF WeighedBy, N

(* Whatever has been weighed, every line stands once and is a good one.    *)
LEMMA WeighedIsGood ==
  ASSUME NEW V, NEW b, NEW start \in Weighing(V), NEW others \in Seq(V), GoodLines(start.lines),
         \A k \in DOMAIN others : \A i \in DOMAIN start.lines : start.lines[i] # others[k],
         \A j, k \in DOMAIN others : j < k => others[j] # others[k],
         NEW f, WeighedBy(start, b, others, f)
  PROVE  f[Len(others)] \in Weighing(V) /\ GoodLines(f[Len(others)].lines)
<1> DEFINE N == Len(others)
           Unsaid(lines, n) == \A k \in n + 1 .. N : \A i \in DOMAIN lines : lines[i] # others[k]
           G == {n \in 0 .. N : f[n] \in Weighing(V) /\ GoodLines(f[n].lines) /\ Unsaid(f[n].lines, n)}
<1>1. N \in Nat /\ DOMAIN others = 1 .. N /\ \A n \in 1 .. N : others[n] \in V
  OBVIOUS
<1>2. f = [n \in 0 .. N |-> IF n = 0 THEN start ELSE Consider(b, f[n - 1], others[n])]
  BY DEF WeighedBy
<1> HIDE DEF N
<1>3. 0 \in G
  <2>1. f[0] = start /\ 0 \in 0 .. N
    BY <1>1, <1>2
  <2>2. Unsaid(start.lines, 0)
    BY <1>1
  <2>3. QED
    BY <2>1, <2>2
<1>4. ASSUME NEW n \in 1 .. N, n - 1 \in G PROVE n \in G
  <2> DEFINE acc == f[n - 1]
             u == others[n]
             next == Consider(b, acc, u)
  <2>1. n \in 0 .. N /\ n # 0 /\ f[n] = next
    BY <1>1, <1>2
  <2>2. acc \in Weighing(V) /\ GoodLines(acc.lines) /\ Unsaid(acc.lines, n - 1) /\ u \in V
    BY <1>1, <1>4
  <2>3. n \in n - 1 + 1 .. N /\ \A k \in n + 1 .. N : k \in n - 1 + 1 .. N /\ n < k /\ k \in 1 .. N
    BY <1>1
  <2>4. \A i \in DOMAIN acc.lines : acc.lines[i] # u
    BY <2>2, <2>3
  <2> HIDE DEF acc
  <2>5. /\ next \in Weighing(V) /\ GoodLines(next.lines)
        /\ \A i \in DOMAIN next.lines : next.lines[i] = u \/ \E j \in DOMAIN acc.lines : next.lines[i] = acc.lines[j]
    <3> DEFINE W == Weighing(V)
    <3>1. acc \in W /\ u \in V /\ GoodLines(acc.lines) /\ \A i \in DOMAIN acc.lines : acc.lines[i] # u
      BY <2>2, <2>4
    <3> HIDE DEF u
    <3>2. QED
      BY ONLY <3>1, ConsiderIs
  <2> HIDE DEF next
  <2>6. \A k \in n + 1 .. N : u # others[k]
    BY <1>1, <2>3
  <2>7. Unsaid(next.lines, n)
    BY <2>2, <2>3, <2>5, <2>6
  <2>8. QED
    BY <2>1, <2>5, <2>7
<1> HIDE DEF G
<1>5. N \in G
  <2>1. N \in Nat /\ N \in 0 .. N
    BY <1>1
  <2>2. 0 .. N \subseteq G
    BY <1>3, <1>4, <2>1, UpTo
  <2>3. QED
    BY <2>1, <2>2
<1>6. QED
  BY <1>5 DEF G, N

(* The backbone comes first where its text is faithful, and no line is     *)
(* against it; nothing was set aside or in dispute.                        *)
Starts(b, lines) == Faithful(b) => 1 \in DOMAIN lines /\ lines[1] = b

NoneAgainst(b, lines) == \A i \in DOMAIN lines : lines[i] = b \/ {b, lines[i]} \notin Disagree

NoneAside(acc) == acc.withheld = {} /\ acc.conflicts = {} /\ ~acc.unresolved

(* A line more takes in whatever the lines took in.                        *)
LEMMA MoreAccounts ==
  ASSUME NEW V, NEW lines \in Seq(V), NEW u
  PROVE  /\ TakenIn(Append(lines, u), u)
         /\ \A v : TakenIn(lines, v) => TakenIn(Append(lines, u), v)
<1> DEFINE L == Len(lines)
           more == Append(lines, u)
<1>1. /\ DOMAIN lines \subseteq DOMAIN more /\ \A i \in DOMAIN lines : more[i] = lines[i]
      /\ L + 1 \in DOMAIN more /\ more[L + 1] = u
  OBVIOUS
<1> HIDE DEF L, more
<1>2. QED
  BY <1>1 DEF TakenIn, more

(* What is considered and not set aside is taken in.                  *)
LEMMA ConsiderAccounts ==
  ASSUME NEW V, NEW b, NEW acc \in Weighing(V), NEW u \in V,
         Starts(b, acc.lines), NoneAgainst(b, acc.lines)
  PROVE  LET next == Consider(b, acc, u) IN
         /\ Starts(b, next.lines) /\ NoneAgainst(b, next.lines)
         /\ NoneAside(next) => /\ NoneAside(acc) /\ TakenIn(next.lines, u)
                           /\ \A v : TakenIn(acc.lines, v) => TakenIn(next.lines, v)
<1> DEFINE l == acc.lines
           next == Consider(b, acc, u)
<1>1. \/ next = acc /\ related[u] \in NON_ADDITIVE_RELATIONSHIPS
      \/ next = acc /\ _is_redundant(l, u)
      \/ next = [acc EXCEPT !.withheld = @ \cup {u}]
      \/ next = [acc EXCEPT !.conflicts = @ \cup {u}]
      \/ next = [acc EXCEPT !.withheld = @ \cup {u}, !.unresolved = TRUE]
      \/ next = [acc EXCEPT !.lines = Append(@, u)] /\ ~_pair_conflicts(b, u)
  BY DEF Consider
<1>2. /\ acc = [lines |-> l, conflicts |-> acc.conflicts, withheld |-> acc.withheld, unresolved |-> acc.unresolved]
      /\ l \in Seq(V)
  BY DEF Weighing
<1> HIDE DEF next
<1>3. CASE next = acc
  <2>1. related[u] \in NON_ADDITIVE_RELATIONSHIPS \/ _is_redundant(l, u) => TakenIn(l, u)
    BY DEF TakenIn, _is_redundant
  <2>2. ASSUME NoneAside(next) PROVE related[u] \in NON_ADDITIVE_RELATIONSHIPS \/ _is_redundant(l, u)
    <3>1. ~(u \in acc.withheld) /\ ~(u \in acc.conflicts)
      BY <1>3, <2>2 DEF NoneAside
    <3>2. next # [acc EXCEPT !.withheld = @ \cup {u}] /\ next # [acc EXCEPT !.conflicts = @ \cup {u}]
          /\ next # [acc EXCEPT !.withheld = @ \cup {u}, !.unresolved = TRUE]
      BY <1>2, <1>3, <3>1
    <3>3. next # [acc EXCEPT !.lines = Append(@, u)]
      <4>1. Append(l, u) # l
        <5>1. Len(Append(l, u)) = Len(l) + 1 /\ Len(l) \in Nat
          BY <1>2
        <5>2. QED
          BY <5>1
      <4>2. QED
        BY <1>2, <1>3, <4>1
    <3>4. QED
      BY <1>1, <3>2, <3>3
  <2>3. QED
    BY <1>3, <2>1, <2>2 DEF next
<1>4. CASE next = [acc EXCEPT !.withheld = @ \cup {u}] \/ next = [acc EXCEPT !.conflicts = @ \cup {u}]
           \/ next = [acc EXCEPT !.withheld = @ \cup {u}, !.unresolved = TRUE]
  <2>1. next.lines = l /\ (u \in next.withheld \/ u \in next.conflicts)
    BY <1>2, <1>4
  <2>2. ~NoneAside(next)
    BY <2>1 DEF NoneAside
  <2>3. QED
    BY <2>1, <2>2 DEF next
<1>5. CASE next = [acc EXCEPT !.lines = Append(@, u)] /\ ~_pair_conflicts(b, u)
  <2>1. /\ next.lines = Append(l, u) /\ next.withheld = acc.withheld /\ next.conflicts = acc.conflicts
        /\ next.unresolved = acc.unresolved
    BY <1>2, <1>5
  <2>2. {b, u} \notin Disagree
    BY <1>5 DEF _pair_conflicts
  <2>3. /\ \A i \in DOMAIN Append(l, u) : Append(l, u)[i] = u \/ (i \in DOMAIN l /\ Append(l, u)[i] = l[i])
        /\ 1 \in DOMAIN l => 1 \in DOMAIN Append(l, u) /\ Append(l, u)[1] = l[1]
    BY <1>2
  <2>4. Starts(b, Append(l, u)) /\ NoneAgainst(b, Append(l, u))
    BY <2>2, <2>3 DEF Starts, NoneAgainst
  <2>5. NoneAside(next) => NoneAside(acc)
    BY <2>1 DEF NoneAside
  <2>6. QED
    BY <1>2, <2>1, <2>4, <2>5, MoreAccounts DEF next
<1>6. QED
  BY <1>1, <1>3, <1>4, <1>5

(* All of the others weighed after what was there before: the backbone     *)
(* stands first and unopposed, and unless something was set aside, all of  *)
(* it is taken in.                                                         *)
WeighsUp(b, before, others, all) ==
  /\ Starts(b, all.lines) /\ NoneAgainst(b, all.lines)
  /\ NoneAside(all) => /\ \A k \in DOMAIN others : TakenIn(all.lines, others[k])
                       /\ \A v : TakenIn(before.lines, v) => TakenIn(all.lines, v)

(* That is what the fold gives.                                            *)
LEMMA WeighedAccounts ==
  ASSUME NEW V, NEW b, NEW start \in Weighing(V), NEW others \in Seq(V),
         Starts(b, start.lines), NoneAgainst(b, start.lines),
         NEW f, WeighedBy(start, b, others, f)
  PROVE  WeighsUp(b, start, others, f[Len(others)])
<1> DEFINE N == Len(others)
           CoversFirst(n) == /\ \A k \in 1 .. n : TakenIn(f[n].lines, others[k])
                      /\ \A v : TakenIn(start.lines, v) => TakenIn(f[n].lines, v)
           G == {n \in 0 .. N : /\ f[n] \in Weighing(V) /\ Starts(b, f[n].lines) /\ NoneAgainst(b, f[n].lines)
                                /\ NoneAside(f[n]) => CoversFirst(n)}
<1>1. N \in Nat /\ DOMAIN others = 1 .. N /\ \A n \in 1 .. N : others[n] \in V
  OBVIOUS
<1>2. f = [n \in 0 .. N |-> IF n = 0 THEN start ELSE Consider(b, f[n - 1], others[n])]
  BY DEF WeighedBy
<1> HIDE DEF N
<1>3. 0 \in G
  <2>1. f[0] = start /\ 0 \in 0 .. N /\ 1 .. 0 = {}
    BY <1>1, <1>2
  <2>2. QED
    BY <2>1
<1>4. ASSUME NEW n \in 1 .. N, n - 1 \in G PROVE n \in G
  <2> DEFINE acc == f[n - 1]
             u == others[n]
             next == Consider(b, acc, u)
  <2>1. n \in 0 .. N /\ n # 0 /\ f[n] = next
    BY <1>1, <1>2
  <2>2. /\ acc \in Weighing(V) /\ Starts(b, acc.lines) /\ NoneAgainst(b, acc.lines) /\ u \in V
        /\ NoneAside(acc) => CoversFirst(n - 1)
    BY <1>1, <1>4
  <2>3. \A k \in 1 .. n : k = n \/ k \in 1 .. n - 1
    BY <1>1
  <2> HIDE DEF acc
  <2>5. /\ next \in Weighing(V) /\ Starts(b, next.lines) /\ NoneAgainst(b, next.lines)
        /\ NoneAside(next) => /\ NoneAside(acc) /\ TakenIn(next.lines, u)
                          /\ \A v : TakenIn(acc.lines, v) => TakenIn(next.lines, v)
    <3> DEFINE W == Weighing(V)
    <3>1. acc \in W /\ u \in V /\ Starts(b, acc.lines) /\ NoneAgainst(b, acc.lines)
      BY <2>2
    <3> HIDE DEF u
    <3>2. next \in W
      BY ONLY <3>1, ConsiderFits
    <3>3. QED
      BY ONLY <3>1, <3>2, ConsiderAccounts
  <2> HIDE DEF next, u
  <2>6. ASSUME NoneAside(next)
        PROVE  /\ \A k \in 1 .. n : TakenIn(next.lines, others[k])
               /\ \A v : TakenIn(start.lines, v) => TakenIn(next.lines, v)
    <3>1. /\ \A k \in 1 .. n - 1 : TakenIn(acc.lines, others[k])
          /\ \A v : TakenIn(start.lines, v) => TakenIn(acc.lines, v)
      BY <2>2, <2>5, <2>6 DEF acc
    <3>2. ASSUME NEW k \in 1 .. n PROVE TakenIn(next.lines, others[k])
      <4>1. CASE k = n
        BY <2>5, <2>6, <4>1 DEF u
      <4>2. CASE k \in 1 .. n - 1
        BY <2>5, <2>6, <3>1, <4>2
      <4>3. QED
        BY <2>3, <4>1, <4>2
    <3>3. QED
      BY <2>5, <2>6, <3>1, <3>2
  <2>7. QED
    BY <2>1, <2>5, <2>6
<1> HIDE DEF G
<1>5. N \in G
  <2>1. N \in Nat /\ N \in 0 .. N
    BY <1>1
  <2>2. 0 .. N \subseteq G
    BY <1>3, <1>4, <2>1, UpTo
  <2>3. QED
    BY <2>1, <2>2
<1>6. QED
  BY <1>1, <1>5 DEF G, N, WeighsUp

(* The fused text of any posts that were heard.                            *)
LEMMA FusedIsSound ==
  ASSUME NEW heard \in SUBSET Voices
  PROVE  LET new == fuse_evidence_items(heard) IN
         /\ new.of = tellings /\ new.status # "untold"
         /\ new.status = "faithful_shadow_candidate" =>
              StandTogether(new.lines) /\ ~new.open /\ \A u \in heard : TakenIn(new.lines, u)
<1> DEFINE b == Backbone(heard)
           others == InOrder(heard \ {b})
           start == [lines |-> IF Faithful(b) THEN <<b>> ELSE <<>>, conflicts |-> {}, withheld |-> {},
                     unresolved |-> FALSE]
           f == CHOOSE h : WeighedBy(start, b, others, h)
           all == f[Len(others)]
           disputed == all.unresolved \/ all.conflicts # {}
           V == Voices \cup {b}
           new == fuse_evidence_items(heard)
<1>1. /\ others \in Seq(heard \ {b})
      /\ \A m, n \in DOMAIN others : m < n => others[m] < others[n]
      /\ \A u \in heard \ {b} : \E n \in DOMAIN others : others[n] = u
  <2> DEFINE P == heard \ {b}
  <2>0. Voices \subseteq Nat /\ IsFiniteSet(Voices)
    BY SegmentAssumption
  <2> HIDE DEF b
  <2>1. P \subseteq Int /\ P \in SUBSET Voices
    <3>1. P \subseteq Voices
      OBVIOUS
    <3> HIDE DEF P
    <3>2. QED
      BY <2>0, <3>1
  <2> HIDE DEF P
  <2>2. IsFiniteSet(P)
    BY <2>0, <2>1, FS_Subset
  <2>3. /\ InOrder(P) \in Seq(P)
        /\ \A m, n \in DOMAIN InOrder(P) : m < n => InOrder(P)[m] < InOrder(P)[n]
        /\ \A u \in P : \E n \in DOMAIN InOrder(P) : InOrder(P)[n] = u
    BY <2>1, <2>2, InOrderIs
  <2>4. QED
    BY <2>3 DEF P, b
<1>2. new = [status |-> IF disputed THEN "needs_review"
                        ELSE IF all.lines = <<>> THEN "needs_translation"
                        ELSE IF all.withheld # {} \/ ~Faithful(b) THEN "needs_review"
                        ELSE "faithful_shadow_candidate",
             lines |-> all.lines, open |-> disputed, of |-> tellings]
  BY DEF fuse_evidence_items, WeighedBy
<1> HIDE DEF b
<1>3. /\ others \in Seq(V) /\ \A m, n \in DOMAIN others : m < n => others[m] # others[n]
      /\ \A k \in DOMAIN others : others[k] # b
  <2>0. Voices \subseteq Nat
    BY SegmentAssumption
  <2>1. heard \ {b} \subseteq Int /\ heard \ {b} \subseteq V
    <3> DEFINE P == heard \ {b}
    <3>1. P \subseteq Voices /\ P \subseteq V
      OBVIOUS
    <3> HIDE DEF P
    <3>2. P \subseteq Int
      BY <2>0, <3>1
    <3>3. QED
      BY <3>1, <3>2 DEF P
  <2> HIDE DEF others, V
  <2>2. \A n \in DOMAIN others : others[n] \in heard \ {b} /\ others[n] \in Int
    BY <1>1, <2>1
  <2>3. QED
    BY <1>1, <2>1, <2>2
<1>4. /\ start \in Weighing(V) /\ GoodLines(start.lines)
      /\ \A i \in DOMAIN start.lines : start.lines[i] = b
      /\ Starts(b, start.lines) /\ (Faithful(b) => TakenIn(start.lines, b))
  <2>1. CASE Faithful(b)
    <3>1. start.lines = <<b>> /\ <<b>> \in Seq(V) /\ DOMAIN <<b>> = {1} /\ <<b>>[1] = b
      BY <2>1
    <3>2. QED
      BY <2>1, <3>1 DEF Weighing, GoodLines, Starts, TakenIn
  <2>2. CASE ~Faithful(b)
    <3>1. start.lines = <<>> /\ <<>> \in Seq(V) /\ DOMAIN <<>> = {}
      BY <2>2
    <3>2. QED
      BY <2>2, <3>1 DEF Weighing, GoodLines, Starts
  <2>3. QED
    BY <2>1, <2>2
<1> HIDE DEF start, others, V
<1>5. WeighedBy(start, b, others, f)
  BY <1>3, <1>4, WeighedExists
<1>6. \A k \in DOMAIN others : \A i \in DOMAIN start.lines : start.lines[i] # others[k]
  BY <1>3, <1>4
<1> HIDE DEF f
<1>7. all \in Weighing(V) /\ GoodLines(all.lines)
  BY <1>3, <1>4, <1>5, <1>6, WeighedIsGood
<1>8. WeighsUp(b, start, others, all)
  <2>1. NoneAgainst(b, start.lines)
    BY <1>4 DEF NoneAgainst
  <2>2. QED
    BY <1>3, <1>4, <1>5, <2>1, WeighedAccounts
<1> HIDE DEF all, new
<1>9. disputed \in BOOLEAN
  BY <1>7 DEF Weighing
<1> HIDE DEF disputed
<1>10. new.of = tellings /\ new.open = disputed /\ new.lines = all.lines
  BY <1>2
<1>11. /\ new.status # "untold"
       /\ new.status = "faithful_shadow_candidate" =>
            all.lines # <<>> /\ ~disputed /\ all.withheld = {} /\ Faithful(b)
  BY <1>2
<1>12. ASSUME new.status = "faithful_shadow_candidate"
       PROVE  StandTogether(new.lines) /\ ~new.open /\ \A u \in heard : TakenIn(new.lines, u)
  <2>1. all.lines # <<>> /\ ~disputed /\ Faithful(b) /\ NoneAside(all)
    BY <1>11, <1>12 DEF NoneAside, disputed
  <2>2. 1 \in DOMAIN all.lines /\ all.lines[1] = b
    BY <1>8, <2>1 DEF Starts, WeighsUp
  <2>3. ASSUME NEW i \in DOMAIN all.lines, i > 1 PROVE {all.lines[1], all.lines[i]} \notin Disagree
    <3>1. i # 1
      BY <2>3
    <3>2. all.lines[i] # b
      BY <1>7, <2>2, <3>1 DEF GoodLines
    <3>3. QED
      BY <1>8, <2>2, <3>2 DEF NoneAgainst, WeighsUp
  <2>4. StandTogether(all.lines)
    BY <1>7, <2>1, <2>3 DEF StandTogether, GoodLines
  <2>5. \A u \in heard : u = b \/ \E n \in DOMAIN others : others[n] = u
    BY <1>1
  <2>6. ASSUME NEW u \in heard PROVE TakenIn(all.lines, u)
    <3>1. CASE u = b
      BY <1>4, <1>8, <2>1, <3>1 DEF WeighsUp
    <3>2. CASE \E n \in DOMAIN others : others[n] = u
      BY <1>8, <2>1, <3>2 DEF WeighsUp
    <3>3. QED
      BY <2>5, <3>1, <3>2
  <2>7. QED
    BY <1>10, <2>1, <2>4, <2>6
<1>13. QED
  BY <1>10, <1>11, <1>12 DEF new

(* The texts f and s of a segment.  Faithful facts are of lines that stand *)
(* together; a style was made of facts, an accepted one of faithful ones,  *)
(* and a style of the same delivery is of these.                           *)
SoundFacts(f) == f.status = "faithful_shadow_candidate" => StandTogether(f.lines) /\ ~f.open

SoundStyle(f, s) ==
  /\ s.accepted \/ s.facts # <<>> => s.of > 0 /\ f.status # "untold"
  /\ s.accepted => StandTogether(s.facts)
  /\ s.of = f.of /\ s.of > 0 => s.facts = f.lines /\ (s.accepted => f.status = "faithful_shadow_candidate")

SoundTexts(f, s) == SoundFacts(f) /\ SoundStyle(f, s)

(* The delivery in progress is the last that began; its facts are told     *)
(* before its style is tried.                                              *)
TellingShape ==
  /\ telling.step \in {"idle", "fuse", "style", "send"} /\ beneath.step \in {"idle", "send"}
  /\ telling.posts \in SUBSET Voices /\ beneath.posts \in SUBSET Voices
  /\ tellings \in Nat /\ facts.of \in 0 .. tellings /\ style.of \in 0 .. tellings
  /\ telling.step = "fuse" => facts.of < tellings /\ telling.heard \in SUBSET Voices
  /\ telling.step \in {"fuse", "style"} => style.of < tellings
  /\ telling.step = "style" => facts.of = tellings /\ facts.status # "untold"

(* Between the two, the facts take in all that was heard.                  *)
HeardTakenIn ==
  telling.step = "style" /\ facts.status = "faithful_shadow_candidate"
    => \A u \in telling.heard : TakenIn(facts.lines, u)

PackageRests(p) ==
  p.ready # "BLOCKED" /\ p.text \in {"style_candidate", "faithful_factual"} =>
    /\ p.facts.status = "faithful_shadow_candidate" /\ StandTogether(p.facts.lines)
    /\ p.text = "style_candidate" => StandTogether(p.style.facts)
    /\ p.facts.of = p.style.of => p.style.facts = p.facts.lines

(* A package names its drafts in order.                                    *)
PackageShape(p) ==
  p.drafts \in Seq(Voices) /\ \A m, n \in DOMAIN p.drafts : m < n => p.drafts[m] < p.drafts[n]

TextInv ==
  /\ DOMAIN related = Voices /\ DOMAIN keptRelated = Voices /\ drafts \in SUBSET Voices
  /\ TellingShape /\ HeardTakenIn
  /\ SoundTexts(facts, style) /\ PackageRests(package) /\ PackageShape(package)

LEMMA TextInvGives == TextInv => SegmentTypes /\ TextsRestOnFacts
<1> SUFFICES ASSUME TextInv PROVE SegmentTypes /\ TextsRestOnFacts
  OBVIOUS
<1>1. SegmentTypes
  BY DEF TextInv, TellingShape, SegmentTypes
<1>2. style.accepted => /\ StandTogether(style.facts)
                        /\ style.of = facts.of => /\ facts.status = "faithful_shadow_candidate"
                                                  /\ style.facts = facts.lines
  BY DEF TextInv, SoundTexts, SoundStyle
<1>3. TextsRestOnFacts
  BY <1>2 DEF TextInv, SoundTexts, SoundFacts, HeardTakenIn, PackageRests, TextsRestOnFacts
<1>4. QED
  BY <1>1, <1>3

LEMMA NothingIsSound ==
  /\ NoFacts.of = 0 /\ NoStyle.of = 0 /\ ~NoStyle.accepted
  /\ SoundFacts(NoFacts) /\ SoundStyle(NoFacts, NoStyle)
<1>1. /\ NoFacts.status = "untold" /\ NoFacts.of = 0
      /\ NoStyle.of = 0 /\ NoStyle.accepted = FALSE /\ NoStyle.facts = <<>>
  BY DEF NoFacts, NoStyle
<1>2. QED
  BY <1>1 DEF SoundFacts, SoundStyle

LEMMA InitTexts == SegmentInit => TextInv
<1> SUFFICES ASSUME SegmentInit PROVE TextInv
  OBVIOUS
<1>1. PackageRests(package)
  BY DEF SegmentInit, NoPackage, PackageRests
<1>6. PackageShape(package)
  <2>1. package.drafts = <<>> /\ DOMAIN <<>> = {}
    BY DEF SegmentInit, NoPackage
  <2>2. QED
    BY <2>1 DEF PackageShape
<1>2. TellingShape
  BY NothingIsSound DEF SegmentInit, NoTelling, TellingShape
<1>7. HeardTakenIn
  BY DEF SegmentInit, NoTelling, HeardTakenIn
<1>3. DOMAIN related = Voices /\ DOMAIN keptRelated = Voices /\ drafts \in SUBSET Voices
  BY DEF SegmentInit
<1>4. SoundTexts(facts, style)
  BY NothingIsSound DEF SegmentInit, SoundTexts
<1>5. QED
  BY <1>1, <1>2, <1>3, <1>4, <1>6, <1>7 DEF TextInv

(* The stories of the posts never change, so a good line stays one.        *)
LEMMA SoundFactsStay ==
  ASSUME story' = story, SoundFacts(facts), facts' = facts
  PROVE  SoundFacts(facts)'
BY DEF SoundFacts, StandTogether, Faithful

(* Only between the two has anything to be taken in.                       *)
LEMMA ElsewhereNothing ==
  ASSUME telling'.step # "style"
  PROVE  HeardTakenIn'
BY DEF HeardTakenIn

(* What a step leaves alone, or forgets, stays sound.                      *)
LEMMA TextsStay ==
  ASSUME story' = story, facts' = facts, style' = style, SoundTexts(facts, style)
  PROVE  SoundTexts(facts, style)'
<1>1. SoundFacts(facts)'
  BY SoundFactsStay DEF SoundTexts
<1>2. SoundStyle(facts, style)'
  BY DEF SoundTexts, SoundStyle, StandTogether, Faithful
<1>3. QED
  BY <1>1, <1>2 DEF SoundTexts

LEMMA TextsForgotten ==
  ASSUME facts' = NoFacts, style' = NoStyle
  PROVE  SoundTexts(facts, style)'
<1>1. /\ NoFacts.status = "untold" /\ NoFacts.of = 0
      /\ NoStyle.of = 0 /\ NoStyle.accepted = FALSE /\ NoStyle.facts = <<>>
  BY DEF NoFacts, NoStyle
<1>2. SoundFacts(facts)'
  BY <1>1 DEF SoundFacts
<1>3. SoundStyle(facts, style)'
  BY <1>1 DEF SoundStyle
<1>4. QED
  BY <1>2, <1>3 DEF SoundTexts

LEMMA PackageStays ==
  ASSUME story' = story, package' = package, PackageRests(package), PackageShape(package)
  PROVE  (PackageRests(package) /\ PackageShape(package))'
BY DEF PackageRests, PackageShape, StandTogether, Faithful

(* What a package takes is what the segment holds.                         *)
LEMMA PlannedRests ==
  ASSUME NEW p, NEW edited, NEW f, NEW s, SoundTexts(f, s)
  PROVE  PackageRests(_text_plan(p, edited, f, s))
<1> DEFINE k == _text_plan(p, edited, f, s)
           text == _text_authority(edited, s)
           refers == text \in {"style_candidate", "faithful_factual"}
           ready == _readiness(InOrder(p \cap drafts), text, f, p)
<1>1. /\ k.ready = ready /\ k.text = text
      /\ refers => k.facts = f /\ k.style = s
  BY DEF _text_plan
<1>2. Blocked(f) => ready = "BLOCKED"
  BY DEF _readiness
<1>3. /\ refers => s.accepted \/ s.facts # <<>>
      /\ text = "style_candidate" => s.accepted
  BY DEF _text_authority
<1> HIDE DEF k, ready, text
<1>4. ASSUME refers, ~Blocked(f)
      PROVE  /\ f.status = "faithful_shadow_candidate" /\ StandTogether(f.lines)
             /\ text = "style_candidate" => StandTogether(s.facts)
             /\ f.of = s.of => s.facts = f.lines
  <2>1. f.status # "untold" /\ s.of > 0
    BY <1>3, <1>4 DEF SoundTexts, SoundStyle
  <2>2. f.status = "faithful_shadow_candidate"
    BY <1>4, <2>1 DEF Blocked
  <2>3. QED
    BY <1>3, <2>1, <2>2 DEF SoundTexts, SoundFacts, SoundStyle
<1>5. QED
  BY <1>1, <1>2, <1>4 DEF PackageRests, k

LEMMA SeqOfMore ==
  ASSUME NEW S, NEW T, S \in SUBSET T, NEW q \in Seq(S)
  PROVE  q \in Seq(T)
<1>1. DOMAIN q = 1 .. Len(q) /\ Len(q) \in Nat /\ \A n \in DOMAIN q : q[n] \in T
  OBVIOUS
<1>2. QED
  BY <1>1

LEMMA PlannedInOrder ==
  ASSUME drafts \in SUBSET Voices, NEW p, NEW edited, NEW f, NEW s
  PROVE  PackageShape(_text_plan(p, edited, f, s))
<1> DEFINE D == p \cap drafts
           V == Voices
<1>1. V \subseteq Nat /\ IsFiniteSet(V) /\ D \in SUBSET V
  <2>1. V \subseteq Nat /\ IsFiniteSet(V)
    BY SegmentAssumption
  <2>2. D \in SUBSET V
    OBVIOUS
  <2>3. QED
    BY <2>1, <2>2
<1>2. _text_plan(p, edited, f, s).drafts = InOrder(D)
  BY DEF _text_plan
<1> HIDE DEF D, V
<1>3. IsFiniteSet(D) /\ D \subseteq Int
  <2>1. IsFiniteSet(D)
    BY <1>1, FS_Subset
  <2>2. QED
    BY <1>1, <2>1
<1>4. InOrder(D) \in Seq(D) /\ \A m, n \in DOMAIN InOrder(D) : m < n => InOrder(D)[m] < InOrder(D)[n]
  BY <1>3, InOrderIs
<1>5. InOrder(D) \in Seq(V)
  BY <1>1, <1>4, SeqOfMore
<1>6. QED
  BY <1>2, <1>4, <1>5 DEF PackageShape, V

LEMMA NextTexts == TextInv /\ [SegmentNext]_segmentVars => TextInv'
<1> SUFFICES ASSUME TextInv, [SegmentNext]_segmentVars PROVE TextInv'
  OBVIOUS
<1> USE DEF TextInv
<1>0. Members \in SUBSET Voices
  BY DEF Members
<1>1. CASE UNCHANGED segmentVars
  <2>1. /\ UNCHANGED <<story, related, keptRelated, facts, style, drafts, package, telling, beneath, tellings>>
    BY <1>1 DEF segmentVars, joined, wordings, held, visits
  <2>2. HeardTakenIn'
    BY <2>1 DEF HeardTakenIn, TakenIn
  <2>3. QED
    BY <2>1, <2>2, TextsStay, PackageStays DEF TellingShape
<1>2. ASSUME NEW posts \in SUBSET Voices, NEW forgotten \in SUBSET Members, BeginTelling(posts, forgotten)
      PROVE  TextInv'
  <2>1. /\ telling.step \in {"idle", "send"} /\ tellings' = tellings + 1 /\ beneath' = telling
        /\ telling'.step = "fuse" /\ telling'.posts = posts /\ telling'.heard = posts \cup (Members \ forgotten)
        /\ facts' = SaneText(facts, NoFacts) /\ style' = SaneText(style, NoStyle) /\ package' = NoPackage
        /\ story' = story /\ keptRelated' = keptRelated /\ drafts' = drafts /\ DOMAIN related' = Voices
    BY <1>2 DEF BeginTelling
  <2>2. \/ facts' = NoFacts /\ style' = NoStyle
        \/ facts' = facts /\ style' = style
    BY <2>1 DEF SaneText
  <2>3. TellingShape'
    <3>1. telling'.heard \in SUBSET Voices
      BY <1>0, <2>1
    <3>2. tellings \in Nat /\ facts'.of \in 0 .. tellings /\ style'.of \in 0 .. tellings
      BY <2>2, NothingIsSound DEF TellingShape
    <3>3. /\ tellings' \in Nat /\ facts'.of \in 0 .. tellings' /\ style'.of \in 0 .. tellings'
          /\ facts'.of < tellings' /\ style'.of < tellings'
      BY <2>1, <3>2
    <3>4. QED
      BY <2>1, <3>1, <3>3 DEF TellingShape
  <2>4. SoundTexts(facts, style)'
    <3>1. CASE facts' = NoFacts /\ style' = NoStyle
      BY <3>1, TextsForgotten
    <3>2. CASE facts' = facts /\ style' = style
      BY <2>1, <3>2, TextsStay
    <3>3. QED
      BY <2>2, <3>1, <3>2
  <2>5. PackageRests(package)'
    BY <2>1 DEF PackageRests, NoPackage
  <2>8. HeardTakenIn'
    BY <2>1, ElsewhereNothing
  <2>6. PackageShape(package)'
    <3>1. package'.drafts = <<>> /\ DOMAIN <<>> = {}
      BY <2>1 DEF NoPackage
    <3>2. QED
      BY <3>1 DEF PackageShape
  <2>7. QED
    BY <2>1, <2>3, <2>4, <2>5, <2>6, <2>8
<1>3. CASE shadow_fuse_translations
  <2>1. /\ telling.step = "fuse" /\ telling'.step = "style" /\ telling'.posts = telling.posts
        /\ telling'.heard = telling.heard /\ beneath' = beneath /\ tellings' = tellings
        /\ facts' = fuse_evidence_items(telling.heard) /\ style' = style /\ package' = package
        /\ story' = story /\ related' = related /\ keptRelated' = keptRelated /\ drafts' = drafts
    BY <1>3 DEF shadow_fuse_translations, joined, held, TellingShape
  <2>2. telling.heard \in SUBSET Voices
    BY <2>1 DEF TellingShape
  <2>3. /\ facts'.of = tellings /\ facts'.status # "untold"
        /\ facts'.status = "faithful_shadow_candidate" =>
             /\ StandTogether(facts'.lines) /\ ~facts'.open
             /\ \A u \in telling.heard : TakenIn(facts'.lines, u)
    BY <2>1, <2>2, FusedIsSound
  <2>4. style.of \in 0 .. tellings /\ style.of < tellings /\ tellings \in Nat
    BY <2>1 DEF TellingShape
  <2>5. TellingShape'
    BY <2>1, <2>3, <2>4 DEF TellingShape
  <2>6. SoundFacts(facts)'
    BY <2>1, <2>3 DEF SoundFacts, StandTogether, Faithful
  <2>9. HeardTakenIn'
    BY <2>1, <2>3 DEF HeardTakenIn, TakenIn
  <2>7. SoundStyle(facts, style)'
    <3>1. style'.of # facts'.of
      BY <2>1, <2>3, <2>4
    <3>2. /\ style'.accepted \/ style'.facts # <<>> => style'.of > 0
          /\ style'.accepted => StandTogether(style.facts)
      BY <2>1 DEF SoundTexts, SoundStyle
    <3>3. style'.accepted => StandTogether(style.facts)'
      BY <2>1, <3>2 DEF StandTogether, Faithful
    <3>4. QED
      BY <2>3, <3>1, <3>2, <3>3 DEF SoundStyle
  <2>8. QED
    BY <2>1, <2>5, <2>6, <2>7, <2>9, PackageStays DEF SoundTexts
<1>4. CASE shadow_style_rewrite
  <2>1. /\ telling.step = "style" /\ telling'.step = "send" /\ telling'.posts = telling.posts /\ beneath' = beneath /\ tellings' = tellings
        /\ facts' = facts /\ package' = package
        /\ story' = story /\ related' = related /\ keptRelated' = keptRelated /\ drafts' = drafts
    BY <1>4 DEF shadow_style_rewrite, joined, held, TellingShape
  <2>2. PICK accepted : /\ accepted => FactsReady(facts)
                        /\ style' = [facts |-> facts.lines, accepted |-> accepted, of |-> tellings]
    <3>1. PICK applied, exemplified, locked, natural, alike \in BOOLEAN :
            style' = [facts |-> facts.lines,
                      accepted |-> FactsReady(facts) /\ rewrite_shadow_candidate(applied, exemplified, locked, natural, alike),
                      of |-> tellings]
      BY <1>4 DEF shadow_style_rewrite
    <3> DEFINE accepted == FactsReady(facts) /\ rewrite_shadow_candidate(applied, exemplified, locked, natural, alike)
    <3>3. accepted => FactsReady(facts)
      OBVIOUS
    <3>2. style' = [facts |-> facts.lines, accepted |-> accepted, of |-> tellings]
      BY <3>1
    <3> HIDE DEF accepted
    <3>4. QED
      BY <3>2, <3>3
  <2>3. style'.facts = facts.lines /\ style'.of = tellings /\ (style'.accepted => FactsReady(facts))
    BY <2>2
  <2>4. facts.of = tellings /\ tellings \in Nat /\ tellings # 0 /\ facts.status # "untold"
    BY <2>1 DEF TellingShape
  <2>5. TellingShape'
    BY <2>1, <2>3, <2>4 DEF TellingShape
  <2>6. SoundFacts(facts)'
    BY <2>1, SoundFactsStay DEF SoundTexts
  <2>7. SoundStyle(facts, style)'
    <3>1. FactsReady(facts) => StandTogether(facts.lines)
      BY DEF FactsReady, SoundTexts, SoundFacts
    <3>2. style'.accepted => StandTogether(style.facts)'
      BY <2>1, <2>3, <3>1 DEF StandTogether, Faithful
    <3>3. QED
      BY <2>1, <2>3, <2>4, <3>2 DEF SoundStyle, FactsReady
  <2>8. QED
    BY <2>1, <2>5, <2>6, <2>7, PackageStays, ElsewhereNothing DEF SoundTexts
<1>5. CASE AnalysisFails
  <2>1. /\ telling'.step = "send" /\ telling'.posts = telling.posts /\ UNCHANGED <<story, related, keptRelated, facts, style, drafts, package, beneath, tellings>>
    BY <1>5 DEF AnalysisFails, joined, wordings, held, TellingShape
  <2>2. QED
    BY <2>1, TextsStay, PackageStays, ElsewhereNothing DEF TellingShape
<1>6. CASE SendDrafts
  <2>1. /\ drafts' = drafts \cup {Earliest(telling.posts \ drafts)} /\ keptRelated' = related
        /\ UNCHANGED <<story, related, facts, style, package, telling, beneath, tellings>>
    BY <1>6 DEF SendDrafts, wordings, visits
  <2> DEFINE P == telling.posts \ drafts
             e == Earliest(P)
  <2>2. P # {} /\ P \in SUBSET Voices
    BY <1>6 DEF SendDrafts, TellingShape
  <2>3. P \subseteq Nat
    <3>1. Voices \subseteq Nat
      BY SegmentAssumption
    <3> HIDE DEF P
    <3>2. QED
      BY <2>2, <3>1
  <2> HIDE DEF P
  <2>4. e \in P
    BY <2>2, <2>3, LeastExists DEF Earliest
  <2>5. drafts' \in SUBSET Voices
    <3> HIDE DEF e
    <3>1. drafts' = drafts \cup {e}
      BY <2>1 DEF e, P
    <3>2. QED
      BY <2>2, <2>4, <3>1
  <2>7. HeardTakenIn'
    BY <1>6, <2>1, ElsewhereNothing DEF SendDrafts
  <2>6. QED
    BY <2>1, <2>5, <2>7, TextsStay, PackageStays DEF TellingShape
<1>7. CASE SendFails
  <2>1. /\ telling' = beneath /\ beneath' = NoTelling
        /\ UNCHANGED <<story, related, keptRelated, facts, style, drafts, package, tellings>>
    BY <1>7 DEF SendFails, LeaveTelling, joined, wordings, held
  <2>3. HeardTakenIn'
    BY <2>1, ElsewhereNothing DEF TellingShape
  <2>2. QED
    BY <2>1, <2>3, TextsStay, PackageStays DEF NoTelling, TellingShape
<1>8. CASE PlanPackage
  <2>1. /\ telling' = beneath /\ beneath' = NoTelling
        /\ UNCHANGED <<story, related, keptRelated, facts, style, drafts, tellings>>
    BY <1>8 DEF PlanPackage, LeaveTelling, joined, wordings
  <2>2. \/ \E p, edited : package' = _text_plan(p, edited, facts, style)
        \/ \E p, edited : package' = _text_plan(p, edited, NoFacts, NoStyle)
    BY <1>8 DEF PlanPackage
  <2>3. SoundTexts(NoFacts, NoStyle)
    BY NothingIsSound DEF SoundTexts
  <2>4. PackageRests(package')
    BY <2>2, <2>3, PlannedRests
  <2>5. PackageRests(package)'
    BY <2>1, <2>4 DEF PackageRests, StandTogether, Faithful
  <2>9. HeardTakenIn'
    BY <2>1, ElsewhereNothing DEF TellingShape
  <2>7. PackageShape(package')
    BY <2>2, PlannedInOrder
  <2>8. PackageShape(package)'
    BY <2>7 DEF PackageShape
  <2>6. QED
    BY <2>1, <2>5, <2>8, <2>9, TextsStay DEF NoTelling, TellingShape
<1>9. CASE SegmentPruned
  <2>1. /\ related' = [u \in Voices |-> Outside] /\ keptRelated' = related'
        /\ UNCHANGED <<story, facts, style, drafts, package, telling, beneath, tellings>>
    BY <1>9 DEF SegmentPruned, wordings, held, visits
  <2>3. HeardTakenIn'
    BY <1>9, <2>1, ElsewhereNothing DEF SegmentPruned
  <2>2. QED
    BY <2>1, <2>3, TextsStay, PackageStays DEF TellingShape
<1>10. CASE ProcessEnds
  <2>1. /\ related' = keptRelated /\ facts' = NoFacts /\ style' = NoStyle
        /\ telling' = NoTelling /\ beneath' = NoTelling
        /\ UNCHANGED <<story, keptRelated, drafts, package, tellings>>
    BY <1>10 DEF ProcessEnds, held
  <2>2. SoundTexts(facts, style)'
    BY <2>1, TextsForgotten
  <2>3. TellingShape'
    BY <2>1, NothingIsSound DEF TellingShape, NoTelling
  <2>5. HeardTakenIn'
    BY <2>1, ElsewhereNothing DEF NoTelling
  <2>4. QED
    BY <2>1, <2>2, <2>3, <2>5, PackageStays
<1>11. \A posts \in {{u, v} : u, v \in Voices} : posts \in SUBSET Voices
  OBVIOUS
<1>12. QED
  BY <1>1, <1>2, <1>3, <1>4, <1>5, <1>6, <1>7, <1>8, <1>9, <1>10, <1>11 DEF SegmentNext

LEMMA TextsAlways == SegmentSpec => []TextInv
<1>1. QED
  BY InitTexts, NextTexts, PTL DEF SegmentSpec

(* The segment, the deliveries and the drafts keep their types over        *)
(* deliveries inside deliveries, failures and restarts.                    *)
THEOREM SegmentTypesHold == SegmentSpec => []SegmentTypes
BY TextsAlways, TextInvGives, PTL

(* A text called faithful is of faithful lines, none said twice or against *)
(* the first, and leaves out no post in silence; a style that is accepted  *)
(* and a package offered for review with such a text are of such lines,    *)
(* for any posts and any number of deliveries.                             *)
THEOREM TextsStayGrounded == SegmentSpec => []TextsRestOnFacts
BY TextsAlways, TextInvGives, PTL

-----------------------------------------------------------------------------
(* Plans (PackagePlans): the media.                                        *)

(* The media that a list shows, and those of some posts.                   *)
MediaIn(list) == {list[i].media : i \in DOMAIN list}
MediaOfPosts(P) == UNION {{Shows[u][i].media : i \in DOMAIN Shows[u]} : u \in P}

LEMMA MediaJoined ==
  ASSUME NEW S, NEW a \in Seq(S), NEW b \in Seq(S)
  PROVE  MediaIn(a \o b) = MediaIn(a) \cup MediaIn(b)
<1> DEFINE c == a \o b
           m == Len(a)
           n == Len(b)
<1>1. /\ m \in Nat /\ n \in Nat /\ DOMAIN a = 1 .. m /\ DOMAIN b = 1 .. n /\ DOMAIN c = 1 .. m + n
      /\ \A i \in 1 .. m : c[i] = a[i]
      /\ \A i \in 1 .. n : c[m + i] = b[i]
  OBVIOUS
<1> HIDE DEF c, m, n
<1>2. \A i \in 1 .. m + n : i \in 1 .. m \/ (i - m \in 1 .. n /\ m + (i - m) = i)
  BY <1>1
<1>3. (\A i \in 1 .. m : i \in 1 .. m + n) /\ \A i \in 1 .. n : m + i \in 1 .. m + n
  BY <1>1
<1>4. ASSUME NEW x \in MediaIn(c) PROVE x \in MediaIn(a) \cup MediaIn(b)
  <2>1. PICK i \in 1 .. m + n : x = c[i].media
    BY <1>1 DEF MediaIn
  <2>2. CASE i \in 1 .. m
    BY <1>1, <2>1, <2>2 DEF MediaIn
  <2>3. CASE i - m \in 1 .. n /\ m + (i - m) = i
    <3>1. c[i] = b[i - m]
      BY <1>1, <2>3
    <3>2. QED
      BY <1>1, <2>1, <2>3, <3>1 DEF MediaIn
  <2>4. QED
    BY <1>2, <2>2, <2>3
<1>5. MediaIn(a) \subseteq MediaIn(c)
  BY <1>1, <1>3 DEF MediaIn
<1>6. MediaIn(b) \subseteq MediaIn(c)
  <2>1. ASSUME NEW i \in 1 .. n PROVE b[i].media \in MediaIn(c)
    <3>1. c[m + i] = b[i] /\ m + i \in DOMAIN c
      BY <1>1, <1>3
    <3>2. QED
      BY <3>1 DEF MediaIn
  <2>2. QED
    BY <1>1, <2>1 DEF MediaIn
<1>7. QED
  BY <1>4, <1>5, <1>6 DEF c

(* The media of the posts one after another.                               *)
GatheredBy(posts, f) ==
  f = [n \in 0 .. Len(posts) |-> IF n = 0 THEN <<>> ELSE f[n - 1] \o Shows[posts[n]]]

LEMMA GatheredExists ==
  ASSUME NEW posts \in Seq(Told)
  PROVE  \E f : GatheredBy(posts, f)
<1> DEFINE N == Len(posts)
           S == Seq(Shown)
           pass == [q \in S \X (1 .. N) |-> q[1] \o Shows[posts[q[2]]]]
<1>1. N \in Nat /\ \A n \in 1 .. N : Shows[posts[n]] \in S
  BY PlansAssumption
<1>2. <<>> \in S /\ \A x, y \in S : x \o y \in S
  OBVIOUS
<1> HIDE DEF S, N
<1>3. ASSUME NEW x \in S, NEW n \in 1 .. N PROVE pass[<<x, n>>] = x \o Shows[posts[n]]
  <2> DEFINE p == <<x, n>>
  <2>1. p \in S \X (1 .. N)
    OBVIOUS
  <2>2. p[1] = x /\ p[2] = n
    OBVIOUS
  <2> HIDE DEF p
  <2>3. pass[p] = p[1] \o Shows[posts[p[2]]]
    BY <2>1
  <2>4. QED
    BY <2>2, <2>3 DEF p
<1> HIDE DEF pass
<1>4. StaysIn(S, N, pass)
  BY <1>1, <1>2, <1>3 DEF StaysIn
<1>5. PICK f : GoesThrough(S, N, <<>>, pass, f)
  BY <1>1, <1>2, <1>4, Recursion
<1>6. ASSUME NEW n \in 0 .. N PROVE f[n] = IF n = 0 THEN <<>> ELSE f[n - 1] \o Shows[posts[n]]
  <2>1. CASE n = 0
    BY <1>5, <2>1 DEF GoesThrough
  <2>2. CASE n # 0
    <3>1. n \in 1 .. N /\ n - 1 \in 0 .. N
      BY <1>1, <2>2
    <3>2. f[n - 1] \in S /\ f[n] = pass[<<f[n - 1], n>>]
      BY <1>5, <3>1 DEF GoesThrough
    <3>3. f[n] = f[n - 1] \o Shows[posts[n]]
      BY <1>3, <3>1, <3>2
    <3>4. QED
      BY <2>2, <3>3
  <2>3. QED
    BY <2>1, <2>2
<1>7. f = [n \in 0 .. N |-> f[n]]
  BY <1>5 DEF GoesThrough
<1>8. f = [n \in 0 .. N |-> IF n = 0 THEN <<>> ELSE f[n - 1] \o Shows[posts[n]]]
  BY <1>6, <1>7
<1>9. QED
  BY <1>8 DEF GatheredBy, N

LEMMA GatheredIs ==
  ASSUME NEW posts \in Seq(Told), NEW f, GatheredBy(posts, f)
  PROVE  /\ f[Len(posts)] \in Seq(Shown)
         /\ MediaIn(f[Len(posts)]) = MediaOfPosts({posts[k] : k \in DOMAIN posts})
<1> DEFINE N == Len(posts)
           S == Seq(Shown)
           First(n) == {posts[k] : k \in 1 .. n}
           G == {n \in 0 .. N : f[n] \in S /\ MediaIn(f[n]) = MediaOfPosts(First(n))}
<1>1. N \in Nat /\ DOMAIN posts = 1 .. N /\ \A n \in 1 .. N : Shows[posts[n]] \in S
  BY PlansAssumption
<1>2. f = [n \in 0 .. N |-> IF n = 0 THEN <<>> ELSE f[n - 1] \o Shows[posts[n]]]
  BY DEF GatheredBy
<1>3. <<>> \in S /\ \A x, y \in S : x \o y \in S /\ MediaIn(x \o y) = MediaIn(x) \cup MediaIn(y)
  BY MediaJoined
<1> HIDE DEF N, S
<1>4. 0 \in G
  <2>1. f[0] = <<>> /\ 0 \in 0 .. N
    BY <1>1, <1>2
  <2>2. First(0) = {} /\ DOMAIN <<>> = {}
    OBVIOUS
  <2> HIDE DEF First
  <2>3. MediaIn(<<>>) = {} /\ MediaOfPosts(First(0)) = {}
    BY <2>2 DEF MediaIn, MediaOfPosts
  <2>4. QED
    BY <1>3, <2>1, <2>3
<1>5. ASSUME NEW n \in 1 .. N, n - 1 \in G PROVE n \in G
  <2>0. n \in 0 .. N /\ n # 0
    BY <1>1
  <2>1. n \in 0 .. N /\ n # 0 /\ f[n] = f[n - 1] \o Shows[posts[n]]
    BY <1>2, <2>0, Zenon
  <2>2. f[n] \in S /\ MediaIn(f[n]) = MediaIn(f[n - 1]) \cup MediaIn(Shows[posts[n]])
    BY <1>1, <1>3, <1>5, <2>1
  <2>3. First(n) = First(n - 1) \cup {posts[n]}
    <3>1. \A k \in 1 .. n : k \in 1 .. n - 1 \/ k = n
      BY <1>1
    <3>2. n \in 1 .. n /\ \A k \in 1 .. n - 1 : k \in 1 .. n
      BY <1>1
    <3>3. QED
      BY <3>1, <3>2
  <2> HIDE DEF First
  <2>4. MediaOfPosts(First(n)) = MediaOfPosts(First(n - 1)) \cup MediaIn(Shows[posts[n]])
    BY <2>3 DEF MediaOfPosts, MediaIn
  <2>5. QED
    BY <1>5, <2>1, <2>2, <2>4
<1>6. N \in 0 .. N /\ 0 .. N \subseteq G
  <2> HIDE DEF G
  <2>1. N \in Nat /\ N \in 0 .. N
    BY <1>1
  <2>2. 0 .. N \subseteq G
    BY <1>4, <1>5, <2>1, UpTo
  <2>3. QED
    BY <2>1, <2>2
<1>7. N \in G
  BY <1>6
<1>8. QED
  BY <1>1, <1>7 DEF N, S

(* The media of a package are those of its posts.                          *)
LEMMA MediaOfIs ==
  ASSUME NEW p, p.posts \in SUBSET Told
  PROVE  MediaOf(p) \in Seq(Shown) /\ MediaIn(MediaOf(p)) = MediaOfPosts(p.posts)
<1> DEFINE P == p.posts
           posts == InOrder(P)
           f == CHOOSE h : GatheredBy(posts, h)
<1>1. P \subseteq Told /\ Told \subseteq Nat /\ IsFiniteSet(Told) /\ P \in SUBSET Told
  BY PlansAssumption, Bounds
<1>2. MediaOf(p) = f[Len(posts)]
  BY DEF MediaOf, GatheredBy
<1> HIDE DEF P
<1>3. IsFiniteSet(P) /\ P \subseteq Int
  <2>1. IsFiniteSet(P)
    BY <1>1, FS_Subset
  <2>2. Nat \subseteq Int
    OBVIOUS
  <2>3. P \subseteq Int
    BY <1>1, <2>2, Zenon
  <2>4. QED
    BY <2>1, <2>3
<1>4. posts \in Seq(P) /\ \A i \in P : \E n \in DOMAIN posts : posts[n] = i
  BY <1>3, InOrderIs
<1> HIDE DEF posts
<1>5. posts \in Seq(Told) /\ {posts[k] : k \in DOMAIN posts} = P
  <2>1. DOMAIN posts = 1 .. Len(posts) /\ Len(posts) \in Nat /\ \A n \in DOMAIN posts : posts[n] \in P
    BY <1>4
  <2>2. \A n \in DOMAIN posts : posts[n] \in Told
    BY <1>1, <2>1, Zenon
  <2>3. posts \in Seq(Told)
    BY <1>4, <2>1, <2>2
  <2>4. {posts[k] : k \in DOMAIN posts} = P
    BY <1>4, <2>1, Zenon
  <2>5. QED
    BY <2>3, <2>4
<1>6. GatheredBy(posts, f)
  BY <1>5, GatheredExists
<1> HIDE DEF f
<1>7. QED
  BY <1>2, <1>5, <1>6, GatheredIs DEF P

(* Of those each is taken where it stands first.                           *)
LEMMA EligibleIs ==
  ASSUME NEW p, p.posts \in SUBSET Told
  PROVE  LET list == _eligible_media(p) IN
         /\ list \in Seq(Shown) /\ MediaIn(list) = MediaOfPosts(p.posts)
         /\ \A m, n \in DOMAIN list : m < n => list[m].media # list[n].media
<1> DEFINE all == MediaOf(p)
           F == {i \in DOMAIN all : \A j \in 1 .. i - 1 : all[j].media # all[i].media}
           o == InOrder(F)
           list == Chosen(all, F)
           S == Shown
<1>1. all \in Seq(S) /\ MediaIn(all) = MediaOfPosts(p.posts) /\ _eligible_media(p) = list
  BY MediaOfIs DEF _eligible_media
<1> HIDE DEF all, S
<1>2. DOMAIN all = 1 .. Len(all) /\ Len(all) \in Nat
  BY <1>1
<1>3. /\ list \in Seq(S)
      /\ \A n \in DOMAIN list : o[n] \in F /\ list[n] = all[o[n]]
      /\ \A m, n \in DOMAIN list : m < n => o[m] < o[n]
      /\ \A i \in F : \E n \in DOMAIN list : o[n] = i
  <2>1. F \subseteq DOMAIN all
    OBVIOUS
  <2> HIDE DEF F
  <2>2. QED
    BY <1>1, <2>1, ChosenIs
<1> HIDE DEF o, list
<1>4. ASSUME NEW m \in DOMAIN list, NEW n \in DOMAIN list, m < n PROVE list[m].media # list[n].media
  <2>1. o[m] \in F /\ o[n] \in F /\ o[m] < o[n]
    BY <1>3, <1>4
  <2>2. o[m] \in 1 .. o[n] - 1
    BY <1>2, <2>1
  <2>3. QED
    BY <1>3, <2>1, <2>2
<1>5. MediaIn(list) \subseteq MediaIn(all)
  BY <1>3 DEF MediaIn
<1>6. ASSUME NEW x \in MediaIn(all) PROVE x \in MediaIn(list)
  <2> DEFINE T == {j \in DOMAIN all : all[j].media = x}
  <2>1. T # {} /\ T \subseteq Nat
    BY <1>2 DEF MediaIn
  <2> HIDE DEF T
  <2>2. PICK i \in T : \A j \in T : i <= j
    BY <2>1, LeastExists
  <2> USE DEF T
  <2>3. ASSUME NEW j \in 1 .. i - 1 PROVE all[j].media # all[i].media
    <3>1. j \in DOMAIN all /\ ~(i <= j)
      BY <1>2
    <3>2. QED
      BY <2>2, <3>1
  <2>4. i \in F
    BY <2>3
  <2>5. PICK n \in DOMAIN list : o[n] = i
    BY <1>3, <2>4
  <2>6. list[n].media = x
    BY <1>3, <2>5
  <2>7. QED
    BY <2>6 DEF MediaIn
<1>7. MediaIn(list) = MediaIn(all)
  BY <1>5, <1>6
<1>8. QED
  BY <1>1, <1>3, <1>4, <1>7 DEF S, list

(* Messages that Telegram takes, and media that stand in one place of them. *)
TakenUnits(units) ==
  \A i \in DOMAIN units :
    /\ units[i] # <<>> /\ Len(units[i]) <= Album
    /\ Len(units[i]) > 1 => \A n \in DOMAIN units[i] : units[i][n].kind \in AlbumKinds

ShownOnce(units) ==
  \A i, j \in DOMAIN units : \A n \in DOMAIN units[i], k \in DOMAIN units[j] :
    units[i][n].media = units[j][k].media => i = j /\ n = k

InUnits(units) == UNION {{units[i][n].media : n \in DOMAIN units[i]} : i \in DOMAIN units}

MediaUnits(units, M) ==
  units \in Seq(Seq(Shown)) /\ TakenUnits(units) /\ ShownOnce(units) /\ InUnits(units) = M

(* A medium that gets a place of its own keeps the others in theirs.       *)
LEMMA OneMorePlace ==
  ASSUME NEW U, NEW W, NEW m, NEW x, NEW y, ShownOnce(U), m.media \notin InUnits(U),
         x \in DOMAIN W, y \in DOMAIN W[x], W[x][y] = m,
         \A i \in DOMAIN W : \A a \in DOMAIN W[i] :
           (i = x /\ a = y) \/ (i \in DOMAIN U /\ a \in DOMAIN U[i] /\ W[i][a] = U[i][a]),
         \A i \in DOMAIN U : \A a \in DOMAIN U[i] : i \in DOMAIN W /\ a \in DOMAIN W[i] /\ W[i][a] = U[i][a]
  PROVE  ShownOnce(W) /\ InUnits(W) = InUnits(U) \cup {m.media}
<1>1. ASSUME NEW i \in DOMAIN U, NEW a \in DOMAIN U[i] PROVE U[i][a].media \in InUnits(U)
  BY DEF InUnits
<1>2. ASSUME NEW i \in DOMAIN W, NEW j \in DOMAIN W, NEW a \in DOMAIN W[i], NEW c \in DOMAIN W[j],
             W[i][a].media = W[j][c].media
      PROVE  i = j /\ a = c
  <2>1. CASE i = x /\ a = y /\ j = x /\ c = y
    BY <2>1
  <2>2. CASE i = x /\ a = y /\ ~(j = x /\ c = y)
    <3>1. j \in DOMAIN U /\ c \in DOMAIN U[j] /\ W[j][c] = U[j][c]
      BY <2>2
    <3>2. U[j][c].media = m.media
      BY <1>2, <2>2, <3>1
    <3>3. QED
      BY <1>1, <3>1, <3>2
  <2>3. CASE ~(i = x /\ a = y) /\ j = x /\ c = y
    <3>1. i \in DOMAIN U /\ a \in DOMAIN U[i] /\ W[i][a] = U[i][a]
      BY <2>3
    <3>2. U[i][a].media = m.media
      BY <1>2, <2>3, <3>1
    <3>3. QED
      BY <1>1, <3>1, <3>2
  <2>4. CASE ~(i = x /\ a = y) /\ ~(j = x /\ c = y)
    <3>1. /\ i \in DOMAIN U /\ a \in DOMAIN U[i] /\ W[i][a] = U[i][a]
          /\ j \in DOMAIN U /\ c \in DOMAIN U[j] /\ W[j][c] = U[j][c]
      BY <2>4
    <3>2. U[i][a].media = U[j][c].media
      BY <1>2, <3>1
    <3>3. QED
      BY <3>1, <3>2 DEF ShownOnce
  <2>5. QED
    BY <2>1, <2>2, <2>3, <2>4
<1>3. ASSUME NEW z \in InUnits(W) PROVE z \in InUnits(U) \cup {m.media}
  <2>1. PICK i \in DOMAIN W : z \in {W[i][n].media : n \in DOMAIN W[i]}
    BY DEF InUnits
  <2>2. PICK a \in DOMAIN W[i] : z = W[i][a].media
    BY <2>1
  <2>3. QED
    BY <1>1, <2>2
<1>4. ASSUME NEW i \in DOMAIN W, NEW a \in DOMAIN W[i] PROVE W[i][a].media \in InUnits(W)
  BY DEF InUnits
<1>5. ASSUME NEW z \in InUnits(U) PROVE z \in InUnits(W)
  <2>1. PICK i \in DOMAIN U : z \in {U[i][n].media : n \in DOMAIN U[i]}
    BY DEF InUnits
  <2>2. PICK a \in DOMAIN U[i] : z = U[i][a].media
    BY <2>1
  <2>3. QED
    BY <1>4, <2>2
<1>6. m.media \in InUnits(W)
  BY <1>4
<1>7. QED
  BY <1>2, <1>3, <1>5, <1>6 DEF ShownOnce

LEMMA PlacedIs ==
  ASSUME NEW U, NEW M, MediaUnits(U, M), NEW m \in Shown, m.media \notin M
  PROVE  MediaUnits(Placed(U, m), M \cup {m.media})
<1> DEFINE k == Len(U)
           S == Shown
<1>0. k \in Nat /\ DOMAIN U = 1 .. k /\ U \in Seq(Seq(S)) /\ Album \in Nat /\ Album # 0 /\ m \in S
      /\ \A i \in 1 .. k : U[i] \in Seq(S)
  BY PlansAssumption DEF MediaUnits
<1>1. ShownOnce(U) /\ TakenUnits(U) /\ InUnits(U) = M
  BY DEF MediaUnits
<1> HIDE DEF S
<1>2. CASE k # 0 /\ Fits(U[k], m)
  <2> DEFINE u == U[k]
             l == Len(u)
             v == Append(u, m)
             W == [U EXCEPT ![k] = v]
  <2>1. Placed(U, m) = W
    BY <1>2 DEF Placed
  <2>2. k \in 1 .. k /\ u \in Seq(S) /\ u # <<>>
    BY <1>0, <1>1, <1>2 DEF TakenUnits
  <2>3. /\ l \in Nat /\ DOMAIN u = 1 .. l /\ v \in Seq(S) /\ Len(v) = l + 1 /\ DOMAIN v = 1 .. l + 1
        /\ v[l + 1] = m /\ \A a \in 1 .. l : v[a] = u[a]
    BY <1>0, <2>2
  <2>4. l < Album /\ u[1].kind \in AlbumKinds /\ m.kind \in AlbumKinds /\ l # 0
    BY <1>2, <2>2, <2>3 DEF Fits
  <2>5. \A a \in 1 .. l : u[a].kind \in AlbumKinds
    <3>1. CASE l = 1
      BY <2>4, <3>1
    <3>2. CASE l > 1
      BY <1>0, <1>1, <2>2, <2>3, <3>2 DEF TakenUnits
    <3>3. QED
      BY <2>3, <2>4, <3>1, <3>2
  <2> HIDE DEF v, l, u
  <2>6. /\ DOMAIN W = 1 .. k /\ W[k] = v /\ Len(W) = k /\ W \in Seq(Seq(S))
        /\ \A i \in 1 .. k : i # k => W[i] = U[i]
    BY <1>0, <2>2, <2>3
  <2> HIDE DEF W
  <2>7. TakenUnits(W)
    <3>1. ASSUME NEW i \in 1 .. k
          PROVE  /\ W[i] # <<>> /\ Len(W[i]) <= Album
                 /\ Len(W[i]) > 1 => \A n \in DOMAIN W[i] : W[i][n].kind \in AlbumKinds
      <4>1. CASE i = k
        <5>1. v # <<>> /\ Len(v) <= Album
          BY <1>0, <2>3, <2>4
        <5>2. \A a \in 1 .. l + 1 : v[a].kind \in AlbumKinds
          <6>1. \A a \in 1 .. l + 1 : a \in 1 .. l \/ a = l + 1
            BY <2>3
          <6>2. QED
            BY <2>3, <2>4, <2>5, <6>1
        <5>3. QED
          BY <2>3, <2>6, <4>1, <5>1, <5>2
      <4>2. CASE i # k
        BY <1>0, <1>1, <2>6, <4>2 DEF TakenUnits
      <4>3. QED
        BY <4>1, <4>2
    <3>2. QED
      BY <2>6, <3>1 DEF TakenUnits
  <2>8. \A i \in DOMAIN W : \A a \in DOMAIN W[i] :
          (i = k /\ a = l + 1) \/ (i \in DOMAIN U /\ a \in DOMAIN U[i] /\ W[i][a] = U[i][a])
    <3>1. \A a \in 1 .. l + 1 : a = l + 1 \/ a \in 1 .. l
      BY <2>3
    <3>2. QED
      BY <1>0, <2>2, <2>3, <2>6, <3>1 DEF u
  <2>9. \A i \in DOMAIN U : \A a \in DOMAIN U[i] : i \in DOMAIN W /\ a \in DOMAIN W[i] /\ W[i][a] = U[i][a]
    <3>1. \A a \in 1 .. l : a \in 1 .. l + 1
      BY <2>3
    <3>2. QED
      BY <1>0, <2>2, <2>3, <2>6, <3>1 DEF u
  <2>10. k \in DOMAIN W /\ l + 1 \in DOMAIN W[k] /\ W[k][l + 1] = m
    <3>1. l + 1 \in 1 .. l + 1
      BY <2>3
    <3>2. QED
      BY <2>2, <2>3, <2>6, <3>1
  <2>11. ShownOnce(W) /\ InUnits(W) = InUnits(U) \cup {m.media}
    BY <1>1, <2>8, <2>9, <2>10, OneMorePlace
  <2>12. QED
    BY <1>1, <2>1, <2>6, <2>7, <2>11 DEF MediaUnits, S
<1>3. CASE ~(k # 0 /\ Fits(U[k], m))
  <2> DEFINE v == <<m>>
             W == Append(U, v)
  <2>1. Placed(U, m) = W
    BY <1>3 DEF Placed
  <2>2. v \in Seq(S) /\ Len(v) = 1 /\ DOMAIN v = {1} /\ v[1] = m /\ v # <<>>
    BY <1>0
  <2> HIDE DEF v
  <2>3. /\ W \in Seq(Seq(S)) /\ DOMAIN W = 1 .. k + 1 /\ W[k + 1] = v
        /\ \A i \in 1 .. k : W[i] = U[i]
    BY <1>0, <2>2
  <2> HIDE DEF W
  <2>4. (\A i \in 1 .. k + 1 : i \in 1 .. k \/ i = k + 1) /\ (\A i \in 1 .. k : i \in 1 .. k + 1) /\ k + 1 \in 1 .. k + 1
    BY <1>0
  <2>5. 1 <= Album /\ ~(1 > 1)
    BY <1>0
  <2> HIDE DEF k
  <2>6. TakenUnits(W)
    BY <1>0, <1>1, <2>2, <2>3, <2>4, <2>5 DEF TakenUnits
  <2>7. \A i \in DOMAIN W : \A a \in DOMAIN W[i] :
          (i = k + 1 /\ a = 1) \/ (i \in DOMAIN U /\ a \in DOMAIN U[i] /\ W[i][a] = U[i][a])
    BY <1>0, <2>2, <2>3, <2>4
  <2>8. \A i \in DOMAIN U : \A a \in DOMAIN U[i] : i \in DOMAIN W /\ a \in DOMAIN W[i] /\ W[i][a] = U[i][a]
    BY <1>0, <2>3, <2>4
  <2>9. k + 1 \in DOMAIN W /\ 1 \in DOMAIN W[k + 1] /\ W[k + 1][1] = m
    BY <2>2, <2>3, <2>4
  <2>10. ShownOnce(W) /\ InUnits(W) = InUnits(U) \cup {m.media}
    BY <1>1, <2>7, <2>8, <2>9, OneMorePlace
  <2>11. QED
    BY <1>1, <2>1, <2>3, <2>6, <2>10 DEF MediaUnits, S
<1>4. QED
  BY <1>2, <1>3

LEMMA PlacedFits ==
  ASSUME NEW S, NEW U \in Seq(Seq(S)), NEW m \in S
  PROVE  Placed(U, m) \in Seq(Seq(S))
<1> DEFINE k == Len(U)
<1>1. k \in Nat /\ DOMAIN U = 1 .. k /\ <<m>> \in Seq(S) /\ \A i \in 1 .. k : U[i] \in Seq(S)
  OBVIOUS
<1>2. CASE k # 0 /\ Fits(U[k], m)
  <2> DEFINE v == Append(U[k], m)
  <2>1. Placed(U, m) = [U EXCEPT ![k] = v]
    BY <1>2 DEF Placed
  <2>2. v \in Seq(S) /\ k \in 1 .. k
    BY <1>1, <1>2
  <2> HIDE DEF v, k
  <2>3. [U EXCEPT ![k] = v] \in Seq(Seq(S))
    BY <1>1, <2>2
  <2>4. QED
    BY <2>1, <2>3
<1>3. CASE ~(k # 0 /\ Fits(U[k], m))
  <2>1. Placed(U, m) = Append(U, <<m>>)
    BY <1>3 DEF Placed
  <2>2. QED
    BY <1>1, <2>1
<1>4. QED
  BY <1>2, <1>3

(* The media placed one after another.                                     *)
PlannedBy(list, f) ==
  f = [n \in 0 .. Len(list) |-> IF n = 0 THEN <<>> ELSE Placed(f[n - 1], list[n])]

LEMMA PlannedExists ==
  ASSUME NEW list \in Seq(Shown)
  PROVE  \E f : PlannedBy(list, f)
<1> DEFINE N == Len(list)
           S == Seq(Seq(Shown))
           pass == [q \in S \X (1 .. N) |-> Placed(q[1], list[q[2]])]
<1>1. N \in Nat /\ \A n \in 1 .. N : list[n] \in Shown
  OBVIOUS
<1>2. <<>> \in S /\ \A x \in S, m \in Shown : Placed(x, m) \in S
  BY PlacedFits
<1> HIDE DEF S, N
<1>3. ASSUME NEW x \in S, NEW n \in 1 .. N PROVE pass[<<x, n>>] = Placed(x, list[n])
  <2> DEFINE p == <<x, n>>
  <2>1. p \in S \X (1 .. N)
    OBVIOUS
  <2>2. p[1] = x /\ p[2] = n
    OBVIOUS
  <2> HIDE DEF p
  <2>3. pass[p] = Placed(p[1], list[p[2]])
    BY <2>1
  <2>4. QED
    BY <2>2, <2>3 DEF p
<1> HIDE DEF pass
<1>4. StaysIn(S, N, pass)
  BY <1>1, <1>2, <1>3 DEF StaysIn
<1>5. PICK f : GoesThrough(S, N, <<>>, pass, f)
  BY <1>1, <1>2, <1>4, Recursion
<1>6. ASSUME NEW n \in 0 .. N PROVE f[n] = IF n = 0 THEN <<>> ELSE Placed(f[n - 1], list[n])
  <2>1. CASE n = 0
    BY <1>5, <2>1 DEF GoesThrough
  <2>2. CASE n # 0
    <3>1. n \in 1 .. N /\ n - 1 \in 0 .. N
      BY <1>1, <2>2
    <3>2. f[n - 1] \in S /\ f[n] = pass[<<f[n - 1], n>>]
      BY <1>5, <3>1 DEF GoesThrough
    <3>3. f[n] = Placed(f[n - 1], list[n])
      BY <1>3, <3>1, <3>2
    <3>4. QED
      BY <2>2, <3>3
  <2>3. QED
    BY <2>1, <2>2
<1>7. f = [n \in 0 .. N |-> f[n]]
  BY <1>5 DEF GoesThrough
<1>8. f = [n \in 0 .. N |-> IF n = 0 THEN <<>> ELSE Placed(f[n - 1], list[n])]
  BY <1>6, <1>7
<1>9. QED
  BY <1>8 DEF PlannedBy, N

LEMMA PlannedIs ==
  ASSUME NEW list \in Seq(Shown), NEW f, PlannedBy(list, f),
         \A m, n \in DOMAIN list : m < n => list[m].media # list[n].media
  PROVE  MediaUnits(f[Len(list)], MediaIn(list))
<1> DEFINE N == Len(list)
           First(n) == {list[i].media : i \in 1 .. n}
           G == {n \in 0 .. N : MediaUnits(f[n], First(n))}
<1>1. N \in Nat /\ DOMAIN list = 1 .. N /\ \A n \in 1 .. N : list[n] \in Shown
  OBVIOUS
<1>2. f = [n \in 0 .. N |-> IF n = 0 THEN <<>> ELSE Placed(f[n - 1], list[n])]
  BY DEF PlannedBy
<1> HIDE DEF N
<1>3. 0 \in G
  <2>1. f[0] = <<>> /\ 0 \in 0 .. N
    BY <1>1, <1>2
  <2>2. First(0) = {} /\ DOMAIN <<>> = {} /\ <<>> \in Seq(Seq(Shown))
    OBVIOUS
  <2> HIDE DEF First
  <2>3. MediaUnits(<<>>, First(0))
    BY <2>2 DEF MediaUnits, TakenUnits, ShownOnce, InUnits
  <2>4. QED
    BY <2>1, <2>3
<1>4. ASSUME NEW n \in 1 .. N, n - 1 \in G PROVE n \in G
  <2>1. n \in 0 .. N /\ n # 0 /\ f[n] = Placed(f[n - 1], list[n]) /\ list[n] \in Shown
    BY <1>1, <1>2
  <2>2. First(n) = First(n - 1) \cup {list[n].media}
    <3>1. \A i \in 1 .. n : i \in 1 .. n - 1 \/ i = n
      BY <1>1
    <3>2. n \in 1 .. n /\ \A i \in 1 .. n - 1 : i \in 1 .. n
      BY <1>1
    <3>3. QED
      BY <3>1, <3>2
  <2>3. list[n].media \notin First(n - 1)
    <3>1. \A i \in 1 .. n - 1 : i \in 1 .. N /\ i < n
      BY <1>1
    <3>2. QED
      BY <1>1, <3>1
  <2> HIDE DEF First
  <2>4. MediaUnits(f[n - 1], First(n - 1))
    BY <1>4
  <2>5. MediaUnits(Placed(f[n - 1], list[n]), First(n - 1) \cup {list[n].media})
    BY <2>1, <2>3, <2>4, PlacedIs
  <2>6. QED
    BY <2>1, <2>2, <2>5
<1>5. N \in 0 .. N /\ 0 .. N \subseteq G
  <2> HIDE DEF G
  <2>1. N \in Nat /\ N \in 0 .. N
    BY <1>1
  <2>2. 0 .. N \subseteq G
    BY <1>3, <1>4, <2>1, UpTo
  <2>3. QED
    BY <2>1, <2>2
<1>6. MediaIn(list) = First(N)
  BY <1>1 DEF MediaIn
<1>7. MediaUnits(f[N], First(N))
  BY <1>5
<1>8. QED
  BY <1>6, <1>7 DEF N

(* The plan of a package's media is whole.                                 *)
PlanCarriesAll(p) ==
  LET units == _plan_media_units(p)
  IN /\ \A i, j \in DOMAIN units : \A n \in DOMAIN units[i], k \in DOMAIN units[j] :
          units[i][n].media = units[j][k].media => i = j /\ n = k
     /\ UNION {{units[i][n].media : n \in DOMAIN units[i]} : i \in DOMAIN units}
          = UNION {{Shows[u][i].media : i \in DOMAIN Shows[u]} : u \in p.posts}
     /\ \A i \in DOMAIN units :
          /\ Len(units[i]) <= Album
          /\ Len(units[i]) > 1 => \A n \in DOMAIN units[i] : units[i][n].kind \in AlbumKinds

LEMMA PlanIsWhole ==
  ASSUME NEW p, p.posts \in SUBSET Told
  PROVE  PlanCarriesAll(p)
<1> DEFINE list == _eligible_media(p)
           f == CHOOSE h : PlannedBy(list, h)
           units == _plan_media_units(p)
<1>1. /\ list \in Seq(Shown) /\ MediaIn(list) = MediaOfPosts(p.posts)
      /\ \A m, n \in DOMAIN list : m < n => list[m].media # list[n].media
  BY EligibleIs
<1>2. units = f[Len(list)]
  BY DEF _plan_media_units, PlannedBy
<1> HIDE DEF list, units
<1>3. PlannedBy(list, f)
  BY <1>1, PlannedExists
<1> HIDE DEF f
<1>4. MediaUnits(units, MediaOfPosts(p.posts))
  BY <1>1, <1>2, <1>3, PlannedIs
<1>5. ShownOnce(units) /\ TakenUnits(units) /\ InUnits(units) = MediaOfPosts(p.posts)
  BY <1>4 DEF MediaUnits
<1>6. QED
  BY <1>5 DEF PlanCarriesAll, ShownOnce, TakenUnits, InUnits, MediaOfPosts, units

(* The plan of a package shows every medium of its posts exactly once, and *)
(* asks for no album that Telegram would refuse, for any posts.            *)
THEOREM MediaShownOnce == FusionSpec => []PlansCarryAll
<1>1. FusionInv => PlansCarryAll
  <2> SUFFICES ASSUME FusionInv, NEW p \in fusion.packages PROVE PlanCarriesAll(p)
    BY DEF PlansCarryAll, PlanCarriesAll
  <2>1. p \in Package
    BY DEF FusionInv, Sound, Timeline
  <2>2. p.posts \in SUBSET Told
    BY <2>1 DEF Package
  <2>3. QED
    BY <2>2, PlanIsWhole
<1>2. QED
  BY <1>1, InitFusion, NextFusion, PTL DEF FusionSpec

-----------------------------------------------------------------------------
(* Plans: the drafts.                                                      *)

(* The messages of a plan.                                                 *)
Units == [kind : {"media", "caption", "text", "review_controls"}, post : Nat, part : Nat]

LEMMA UnitIs ==
  ASSUME NEW kind \in {"media", "caption", "text", "review_controls"}, NEW post \in Nat, NEW part \in Nat
  PROVE  /\ Unit(kind, post, part) \in Units /\ Unit(kind, post, part).kind = kind
         /\ Unit(kind, post, part).post = post /\ Unit(kind, post, part).part = part
BY DEF Unit, Units

LEMMA JoinedIs ==
  ASSUME NEW S, NEW a \in Seq(S), NEW b \in Seq(S)
  PROVE  /\ a \o b \in Seq(S) /\ Len(a \o b) = Len(a) + Len(b) /\ DOMAIN (a \o b) = 1 .. Len(a) + Len(b)
         /\ \A i \in DOMAIN a : i \in DOMAIN (a \o b) /\ (a \o b)[i] = a[i]
         /\ \A i \in DOMAIN b : Len(a) + i \in DOMAIN (a \o b) /\ (a \o b)[Len(a) + i] = b[i]
         /\ \A i \in DOMAIN (a \o b) : i \in DOMAIN a \/ i - Len(a) \in DOMAIN b
<1> DEFINE c == a \o b
           m == Len(a)
           n == Len(b)
<1>1. /\ m \in Nat /\ n \in Nat /\ DOMAIN a = 1 .. m /\ DOMAIN b = 1 .. n /\ DOMAIN c = 1 .. m + n
      /\ c \in Seq(S) /\ Len(c) = m + n
      /\ \A i \in 1 .. m : c[i] = a[i]
      /\ \A i \in 1 .. n : c[m + i] = b[i]
  OBVIOUS
<1> HIDE DEF c, m, n
<1>2. /\ \A i \in 1 .. m + n : i \in 1 .. m \/ i - m \in 1 .. n
      /\ \A i \in 1 .. m : i \in 1 .. m + n
      /\ \A i \in 1 .. n : m + i \in 1 .. m + n
  BY <1>1
<1>3. QED
  BY <1>1, <1>2 DEF c, m, n

ComesLater(x, y) == x.post < y.post \/ (x.post = y.post /\ x.part < y.part)

(* The messages of the first n of the drafts ds.                           *)
PartsSound(units, ds, n) ==
  /\ units \in Seq(Units)
  /\ \A i \in DOMAIN units : units[i].kind = "text" /\ \E k \in 1 .. n : units[i].post = ds[k]
  /\ \A k \in 1 .. n : \A x \in 1 .. PartsOf[ds[k]] :
       \E i \in DOMAIN units : units[i].post = ds[k] /\ units[i].part = x
  /\ \A i, j \in DOMAIN units : i < j => ComesLater(units[i], units[j])

PartsOfDraft(d) == [k \in 1 .. PartsOf[d] |-> Unit("text", d, k)]

LEMMA PartsOfDraftAre ==
  ASSUME NEW d \in Voices
  PROVE  /\ PartsOf[d] \in Nat /\ PartsOfDraft(d) \in Seq(Units)
         /\ DOMAIN PartsOfDraft(d) = 1 .. PartsOf[d]
         /\ \A k \in 1 .. PartsOf[d] : /\ PartsOfDraft(d)[k].kind = "text"
                                       /\ PartsOfDraft(d)[k].post = d /\ PartsOfDraft(d)[k].part = k
<1>1. PartsOf[d] \in Nat /\ d \in Nat
  BY SegmentAssumption
<1> DEFINE N == PartsOf[d]
           R == [k \in 1 .. N |-> Unit("text", d, k)]
<1>2. \A k \in 1 .. N : Unit("text", d, k) \in Units /\ R[k] = Unit("text", d, k)
  <2>1. \A k \in 1 .. N : k \in Nat
    BY <1>1
  <2>2. QED
    BY <1>1, <2>1, UnitIs
<1>3. \A k \in 1 .. N : R[k].kind = "text" /\ R[k].post = d /\ R[k].part = k
  <2>1. \A k \in 1 .. N : k \in Nat
    BY <1>1
  <2>2. QED
    BY <1>1, <1>2, <2>1, UnitIs
<1>4. PartsOfDraft(d) = R
  BY DEF PartsOfDraft
<1> HIDE DEF N
<1>5. R \in Seq(Units) /\ DOMAIN R = 1 .. N
  BY <1>1, <1>2 DEF N
<1>6. QED
  BY <1>1, <1>3, <1>4, <1>5 DEF N

LEMMA OneMoreDraft ==
  ASSUME NEW ds \in Seq(Voices), \A m, n \in DOMAIN ds : m < n => ds[m] < ds[n],
         NEW n \in DOMAIN ds, NEW U, PartsSound(U, ds, n - 1)
  PROVE  PartsSound(U \o PartsOfDraft(ds[n]), ds, n)
<1> DEFINE d == ds[n]
           R == PartsOfDraft(d)
           W == U \o R
           l == Len(U)
<1>0. n \in Nat /\ n # 0 /\ DOMAIN ds \subseteq Nat /\ \A k \in 1 .. n - 1 : k \in DOMAIN ds /\ k < n
  OBVIOUS
<1>1. d \in Voices /\ Voices \subseteq Nat
  BY SegmentAssumption
<1>2. /\ R \in Seq(Units) /\ DOMAIN R = 1 .. PartsOf[d] /\ PartsOf[d] \in Nat
      /\ \A k \in DOMAIN R : R[k].kind = "text" /\ R[k].post = d /\ R[k].part = k
  <2> HIDE DEF d
  <2>1. /\ PartsOf[d] \in Nat /\ R \in Seq(Units) /\ DOMAIN R = 1 .. PartsOf[d]
        /\ \A k \in 1 .. PartsOf[d] : R[k].kind = "text" /\ R[k].post = d /\ R[k].part = k
    BY <1>1, PartsOfDraftAre, Zenon
  <2>2. QED
    BY <2>1
<1>3. U \in Seq(Units)
  BY DEF PartsSound
<1>4. l \in Nat /\ DOMAIN U = 1 .. l
  BY <1>3
<1>5. /\ W \in Seq(Units)
      /\ \A i \in DOMAIN U : i \in DOMAIN W /\ W[i] = U[i]
      /\ \A i \in DOMAIN R : l + i \in DOMAIN W /\ W[l + i] = R[i]
      /\ \A i \in DOMAIN W : i \in DOMAIN U \/ i - l \in DOMAIN R
      /\ DOMAIN W \subseteq Nat
  <2> HIDE DEF R
  <2>1. R \in Seq(Units) /\ U \in Seq(Units)
    BY <1>2, <1>3
  <2>2. /\ U \o R \in Seq(Units)
        /\ Len(U \o R) = Len(U) + Len(R) /\ DOMAIN (U \o R) = 1 .. Len(U) + Len(R)
        /\ \A i \in DOMAIN U : i \in DOMAIN (U \o R) /\ (U \o R)[i] = U[i]
        /\ \A i \in DOMAIN R : Len(U) + i \in DOMAIN (U \o R) /\ (U \o R)[Len(U) + i] = R[i]
        /\ \A i \in DOMAIN (U \o R) : i \in DOMAIN U \/ i - Len(U) \in DOMAIN R
    BY <2>1, JoinedIs, SMTT(20)
  <2>3. DOMAIN (U \o R) \subseteq Nat
    BY <2>1, <2>2
  <2>4. QED
    BY <2>2, <2>3
<1> HIDE DEF W, R, l, d
<1>6. \A i \in DOMAIN W : i - l \in DOMAIN R => W[i] = R[i - l]
  <2>1. \A i \in DOMAIN W : l + (i - l) = i
    BY <1>4, <1>5
  <2>2. QED
    BY <1>5, <2>1
<1>7. ASSUME NEW i \in DOMAIN W
      PROVE  W[i].kind = "text" /\ \E k \in 1 .. n : W[i].post = ds[k]
  <2>1. n \in 1 .. n /\ \A k \in 1 .. n - 1 : k \in 1 .. n
    BY <1>0
  <2>2. CASE i \in DOMAIN U
    BY <1>5, <2>1, <2>2 DEF PartsSound
  <2>3. CASE i - l \in DOMAIN R
    BY <1>2, <1>6, <2>1, <2>3 DEF d
  <2>4. QED
    BY <1>5, <2>2, <2>3
<1>8. ASSUME NEW k \in 1 .. n, NEW x \in 1 .. PartsOf[ds[k]]
      PROVE  \E i \in DOMAIN W : W[i].post = ds[k] /\ W[i].part = x
  <2>1. CASE k = n
    <3>1. x \in DOMAIN R
      BY <1>2, <2>1 DEF d
    <3>2. W[l + x].post = ds[k] /\ W[l + x].part = x /\ l + x \in DOMAIN W
      BY <1>2, <1>5, <2>1, <3>1 DEF d
    <3>3. QED
      BY <3>2
  <2>2. CASE k # n
    <3>1. k \in 1 .. n - 1
      BY <1>0, <2>2
    <3>2. PICK i \in DOMAIN U : U[i].post = ds[k] /\ U[i].part = x
      BY <3>1 DEF PartsSound
    <3>3. QED
      BY <1>5, <3>2
  <2>3. QED
    BY <2>1, <2>2
<1>9. ASSUME NEW i \in DOMAIN W, NEW j \in DOMAIN W, i < j PROVE ComesLater(W[i], W[j])
  <2>1. CASE j \in DOMAIN U
    <3>1. i \in DOMAIN U
      BY <1>4, <1>5, <1>9, <1>2, <2>1
    <3>2. QED
      BY <1>5, <1>9, <2>1, <3>1 DEF PartsSound
  <2>2. CASE i \in DOMAIN U /\ j - l \in DOMAIN R
    <3>1. PICK k \in 1 .. n - 1 : U[i].post = ds[k]
      BY <2>2 DEF PartsSound
    <3>2. ds[k] < d
      BY <1>0 DEF d
    <3>3. W[i].post = ds[k] /\ W[j].post = d
      BY <1>2, <1>5, <1>6, <2>2, <3>1
    <3>4. QED
      BY <3>2, <3>3 DEF ComesLater
  <2>3. CASE i - l \in DOMAIN R /\ j - l \in DOMAIN R
    <3>1. W[i].post = d /\ W[j].post = d /\ W[i].part = i - l /\ W[j].part = j - l
      BY <1>2, <1>6, <2>3
    <3>2. i - l < j - l
      BY <1>4, <1>5, <1>9
    <3>3. QED
      BY <3>1, <3>2 DEF ComesLater
  <2>4. QED
    BY <1>5, <2>1, <2>2, <2>3
<1>10. PartsSound(W, ds, n)
  BY <1>5, <1>7, <1>8, <1>9 DEF PartsSound
<1>11. QED
  BY <1>10 DEF W, R, d

(* The messages of the drafts one after another.                           *)
SplitBy(ds, f) ==
  f = [n \in 0 .. Len(ds) |-> IF n = 0 THEN <<>> ELSE f[n - 1] \o PartsOfDraft(ds[n])]

LEMMA SplitExists ==
  ASSUME NEW ds \in Seq(Voices)
  PROVE  \E f : SplitBy(ds, f)
<1> DEFINE N == Len(ds)
           S == Seq(Units)
           pass == [q \in S \X (1 .. N) |-> q[1] \o PartsOfDraft(ds[q[2]])]
<1>1. N \in Nat /\ \A n \in 1 .. N : PartsOfDraft(ds[n]) \in S
  <2>1. N \in Nat /\ \A n \in 1 .. N : ds[n] \in Voices
    OBVIOUS
  <2>2. QED
    BY <2>1, PartsOfDraftAre
<1>2. <<>> \in S /\ \A x, y \in S : x \o y \in S
  OBVIOUS
<1> HIDE DEF S, N
<1>3. ASSUME NEW x \in S, NEW n \in 1 .. N PROVE pass[<<x, n>>] = x \o PartsOfDraft(ds[n])
  <2> DEFINE p == <<x, n>>
  <2>1. p \in S \X (1 .. N)
    OBVIOUS
  <2>2. p[1] = x /\ p[2] = n
    OBVIOUS
  <2> HIDE DEF p
  <2>3. pass[p] = p[1] \o PartsOfDraft(ds[p[2]])
    BY <2>1
  <2>4. QED
    BY <2>2, <2>3 DEF p
<1> HIDE DEF pass
<1>4. StaysIn(S, N, pass)
  BY <1>1, <1>2, <1>3 DEF StaysIn
<1>5. PICK f : GoesThrough(S, N, <<>>, pass, f)
  BY <1>1, <1>2, <1>4, Recursion
<1>6. ASSUME NEW n \in 0 .. N PROVE f[n] = IF n = 0 THEN <<>> ELSE f[n - 1] \o PartsOfDraft(ds[n])
  <2>1. CASE n = 0
    BY <1>5, <2>1 DEF GoesThrough
  <2>2. CASE n # 0
    <3>1. n \in 1 .. N /\ n - 1 \in 0 .. N
      BY <1>1, <2>2
    <3>2. f[n - 1] \in S /\ f[n] = pass[<<f[n - 1], n>>]
      BY <1>5, <3>1 DEF GoesThrough
    <3>3. f[n] = f[n - 1] \o PartsOfDraft(ds[n])
      BY <1>3, <3>1, <3>2
    <3>4. QED
      BY <2>2, <3>3
  <2>3. QED
    BY <2>1, <2>2
<1>7. f = [n \in 0 .. N |-> f[n]]
  BY <1>5 DEF GoesThrough
<1>8. f = [n \in 0 .. N |-> IF n = 0 THEN <<>> ELSE f[n - 1] \o PartsOfDraft(ds[n])]
  BY <1>6, <1>7
<1>9. QED
  BY <1>8 DEF SplitBy, N

LEMMA SplitIs ==
  ASSUME NEW ds \in Seq(Voices), \A m, n \in DOMAIN ds : m < n => ds[m] < ds[n]
  PROVE  PartsSound(_fallback_split_parts(ds), ds, Len(ds))
<1> DEFINE N == Len(ds)
           f == CHOOSE h : SplitBy(ds, h)
           G == {n \in 0 .. N : PartsSound(f[n], ds, n)}
<1>1. N \in Nat /\ DOMAIN ds = 1 .. N
  OBVIOUS
<1>2. _fallback_split_parts(ds) = f[N]
  BY DEF _fallback_split_parts, SplitBy, PartsOfDraft
<1>3. SplitBy(ds, f)
  BY SplitExists
<1>4. f = [n \in 0 .. N |-> IF n = 0 THEN <<>> ELSE f[n - 1] \o PartsOfDraft(ds[n])]
  BY <1>3 DEF SplitBy
<1> HIDE DEF f, N
<1>5. 0 \in G
  <2>1. f[0] = <<>> /\ 0 \in 0 .. N
    BY <1>1, <1>4
  <2>2. DOMAIN <<>> = {} /\ <<>> \in Seq(Units) /\ 1 .. 0 = {}
    OBVIOUS
  <2>3. PartsSound(<<>>, ds, 0)
    BY <2>2 DEF PartsSound
  <2>4. QED
    BY <2>1, <2>3
<1>6. ASSUME NEW n \in 1 .. N, n - 1 \in G PROVE n \in G
  <2>1. n \in 0 .. N /\ n # 0 /\ f[n] = f[n - 1] \o PartsOfDraft(ds[n])
    BY <1>1, <1>4
  <2>2. PartsSound(f[n - 1], ds, n - 1)
    BY <1>6
  <2>3. PartsSound(f[n - 1] \o PartsOfDraft(ds[n]), ds, n)
    BY <1>1, <2>2, OneMoreDraft
  <2>4. QED
    BY <2>1, <2>3
<1> HIDE DEF G
<1>7. N \in Nat /\ N \in 0 .. N
  BY <1>1
<1>8. 0 .. N \subseteq G
  BY <1>5, <1>6, <1>7, UpTo
<1>9. PartsSound(f[N], ds, N)
  BY <1>7, <1>8 DEF G
<1>10. QED
  BY <1>2, <1>9 DEF N

(* The texts of a plan: each message of each draft once and in order, or   *)
(* the one draft under its media.                                          *)
TextsKept(ds, units) ==
  /\ \A d \in DOMAIN ds : \A n \in 1 .. PartsOf[ds[d]] :
       \E i \in DOMAIN units : units[i].post = ds[d] /\ units[i].part = n
  /\ \A i, j \in DOMAIN units : i < j => ComesLater(units[i], units[j])
  /\ (\E i \in DOMAIN units : units[i].kind = "caption") => Len(ds) = 1 /\ ds[1] \in Brief

TextUnits(units) ==
  units \in Seq(Units) /\ \A i \in DOMAIN units : units[i].kind \in {"caption", "text"}

LEMMA OneUnit ==
  ASSUME NEW u \in Units
  PROVE  <<u>> \in Seq(Units) /\ DOMAIN <<u>> = {1} /\ <<u>>[1] = u /\ Len(<<u>>) = 1
OBVIOUS

LEMMA TextUnitsAre ==
  ASSUME NEW ds \in Seq(Voices), \A m, n \in DOMAIN ds : m < n => ds[m] < ds[n], NEW text, NEW posts
  PROVE  LET units == _plan_text_units(ds, text, posts) IN
         TextUnits(units) /\ (text = "draft" => TextsKept(ds, units))
<1> DEFINE units == _plan_text_units(ds, text, posts)
           captioned == posts \cap Pictured # {} /\ Len(ds) = 1 /\ ds[1] \in Brief
<1>1. CASE text # "draft"
  <2> DEFINE u == Unit("text", 0, 1)
  <2>1. u \in Units /\ u.kind = "text"
    BY UnitIs
  <2>2. units = <<u>>
    BY <1>1 DEF _plan_text_units
  <2> HIDE DEF u, units
  <2>3. TextUnits(units)
    BY <2>1, <2>2, OneUnit DEF TextUnits
  <2>4. QED
    BY <1>1, <2>3 DEF units
<1>2. CASE text = "draft" /\ captioned
  <2> DEFINE d == ds[1]
             u == Unit("caption", d, 1)
  <2>0. DOMAIN ds = {1} /\ d \in Voices
    BY <1>2
  <2>1. d \in Nat /\ PartsOf[d] = 1
    <3>1. Voices \subseteq Nat /\ \A v \in Brief : PartsOf[v] = 1
      BY SegmentAssumption
    <3>2. d \in Brief
      BY <1>2
    <3> HIDE DEF d
    <3>3. QED
      BY <2>0, <3>1, <3>2
  <2>2. units = <<u>>
    BY <1>2 DEF _plan_text_units
  <2>3. u \in Units /\ u.kind = "caption" /\ u.post = d /\ u.part = 1
    BY <2>1, UnitIs
  <2> HIDE DEF u, units
  <2>4. units \in Seq(Units) /\ DOMAIN units = {1} /\ units[1] = u
    BY <2>2, <2>3, OneUnit
  <2>5. TextUnits(units)
    BY <2>3, <2>4 DEF TextUnits
  <2>6. \A k \in DOMAIN ds : \A n \in 1 .. PartsOf[ds[k]] : units[1].post = ds[k] /\ units[1].part = n
    BY <2>0, <2>1, <2>3, <2>4
  <2>7. \A i, j \in DOMAIN units : ~(i < j)
    BY <2>4
  <2>8. TextsKept(ds, units)
    BY <1>2, <2>4, <2>6, <2>7 DEF TextsKept
  <2>9. QED
    BY <2>5, <2>8 DEF units
<1>3. CASE text = "draft" /\ ~captioned
  <2>1. units = _fallback_split_parts(ds)
    BY <1>3 DEF _plan_text_units
  <2>2. DOMAIN ds = 1 .. Len(ds)
    OBVIOUS
  <2> HIDE DEF units
  <2>3. PartsSound(units, ds, Len(ds))
    BY <2>1, SplitIs
  <2>4. TextUnits(units)
    BY <2>3 DEF PartsSound, TextUnits
  <2>5. TextsKept(ds, units)
    BY <2>2, <2>3 DEF PartsSound, TextsKept
  <2>6. QED
    BY <2>4, <2>5 DEF units
<1>4. QED
  BY <1>1, <1>2, <1>3

(* A plan is at most one message of media, its texts and at most one       *)
(* message of buttons.                                                     *)
LEMMA PlanIs ==
  ASSUME NEW p, p.drafts \in Seq(Voices), \A m, n \in DOMAIN p.drafts : m < n => p.drafts[m] < p.drafts[n]
  PROVE  LET units == plan_fused_private_review_delivery(p)
             saying == {i \in DOMAIN units : units[i].kind \in {"caption", "text"}}
         IN /\ \A i \in DOMAIN units :
                 /\ units[i].kind = "media" <=> i = 1 /\ p.posts \cap Pictured # {}
                 /\ units[i].kind = "review_controls" <=> i = Len(units) /\ p.drafts # <<>>
            /\ p.text = "draft" =>
                 /\ \A d \in DOMAIN p.drafts : \A n \in 1 .. PartsOf[p.drafts[d]] :
                      \E i \in saying : units[i].post = p.drafts[d] /\ units[i].part = n
                 /\ \A i, j \in saying : i < j => ComesLater(units[i], units[j])
                 /\ (\E i \in saying : units[i].kind = "caption") => Len(p.drafts) = 1 /\ p.drafts[1] \in Brief
<1> DEFINE ds == p.drafts
           pictured == p.posts \cap Pictured # {}
           head == IF pictured THEN <<Unit("media", 0, 1)>> ELSE <<>>
           body == _plan_text_units(ds, p.text, p.posts)
           tail == IF ds # <<>> THEN <<Unit("review_controls", 0, 1)>> ELSE <<>>
           units == (head \o body) \o tail
           a == Len(head)
           l == Len(body)
           z == Len(tail)
           saying == {i \in DOMAIN units : units[i].kind \in {"caption", "text"}}
<1>1. plan_fused_private_review_delivery(p) = units
  BY DEF plan_fused_private_review_delivery
<1>2. TextUnits(body) /\ (p.text = "draft" => TextsKept(ds, body))
  BY TextUnitsAre
<1> HIDE DEF body
<1>3. /\ head \in Seq(Units) /\ (a = 0 \/ a = 1) /\ (a = 1 <=> pictured)
      /\ \A i \in DOMAIN head : i = 1 /\ head[i].kind = "media"
      /\ DOMAIN head = 1 .. a
  <2> DEFINE u == Unit("media", 0, 1)
  <2>1. u \in Units /\ u.kind = "media"
    BY UnitIs
  <2> HIDE DEF u
  <2>2. CASE pictured
    <3>1. head = <<u>>
      BY <2>2 DEF u
    <3>2. QED
      BY <2>1, <2>2, <3>1
  <2>3. CASE ~pictured
    <3>1. head = <<>>
      BY <2>3
    <3>2. QED
      BY <2>3, <3>1
  <2>4. QED
    BY <2>2, <2>3
<1>4. /\ tail \in Seq(Units) /\ (z = 0 \/ z = 1) /\ (z = 1 <=> ds # <<>>)
      /\ \A i \in DOMAIN tail : i = 1 /\ tail[i].kind = "review_controls"
      /\ DOMAIN tail = 1 .. z
  <2> DEFINE u == Unit("review_controls", 0, 1)
  <2>1. u \in Units /\ u.kind = "review_controls"
    BY UnitIs
  <2> HIDE DEF u
  <2>2. CASE ds # <<>>
    <3>1. tail = <<u>>
      BY <2>2 DEF u
    <3>2. QED
      BY <2>1, <2>2, <3>1
  <2>3. CASE ~(ds # <<>>)
    <3>1. tail = <<>>
      BY <2>3
    <3>2. QED
      BY <2>3, <3>1
  <2>4. QED
    BY <2>2, <2>3
<1>5. body \in Seq(Units) /\ l \in Nat /\ DOMAIN body = 1 .. l
  BY <1>2 DEF TextUnits
<1> HIDE DEF head, tail
<1>6. /\ a \in Nat /\ z \in Nat /\ DOMAIN units = 1 .. a + l + z /\ Len(units) = a + l + z
      /\ \A i \in 1 .. a : units[i] = head[i]
      /\ \A i \in 1 .. l : units[a + i] = body[i]
      /\ \A i \in 1 .. z : units[a + l + i] = tail[i]
  <2> DEFINE front == head \o body
  <2>1. a \in Nat /\ z \in Nat
    BY <1>3, <1>4
  <2>2. /\ front \in Seq(Units) /\ Len(front) = a + l /\ DOMAIN front = 1 .. a + l
        /\ \A i \in DOMAIN head : i \in DOMAIN front /\ front[i] = head[i]
        /\ \A i \in DOMAIN body : a + i \in DOMAIN front /\ front[a + i] = body[i]
    BY <1>3, <1>5, JoinedIs
  <2> HIDE DEF front, a, l, z
  <2>3. /\ Len(front \o tail) = Len(front) + Len(tail) /\ DOMAIN (front \o tail) = 1 .. Len(front) + Len(tail)
        /\ \A i \in DOMAIN front : i \in DOMAIN (front \o tail) /\ (front \o tail)[i] = front[i]
        /\ \A i \in DOMAIN tail : Len(front) + i \in DOMAIN (front \o tail) /\ (front \o tail)[Len(front) + i] = tail[i]
    BY <1>4, <2>2, JoinedIs
  <2>4. units = front \o tail /\ Len(tail) = z
    BY DEF front, z
  <2> HIDE DEF units
  <2>5. QED
    BY <1>3, <1>4, <1>5, <2>1, <2>2, <2>3, <2>4
<1> HIDE DEF units, a, l, z
<1>7. ASSUME NEW i \in DOMAIN units
      PROVE  \/ i \in 1 .. a \/ i - a \in 1 .. l \/ i - a - l \in 1 .. z
  BY <1>5, <1>6
<1>8. ASSUME NEW i \in DOMAIN units, i \in 1 .. a
      PROVE  units[i].kind = "media" /\ i = 1 /\ a = 1 /\ (i = a + l + z => z = 0)
  BY <1>3, <1>5, <1>6, <1>8
<1>9. ASSUME NEW i \in DOMAIN units, i - a \in 1 .. l
      PROVE  /\ units[i] = body[i - a] /\ units[i].kind \in {"caption", "text"}
             /\ (i = 1 => a = 0) /\ (i = a + l + z => z = 0)
  <2>1. a + (i - a) = i /\ (i = 1 => a = 0) /\ (i = a + l + z => z = 0)
    BY <1>5, <1>6, <1>9
  <2>2. units[a + (i - a)] = body[i - a]
    BY <1>6, <1>9
  <2>3. QED
    BY <1>2, <1>5, <1>9, <2>1, <2>2 DEF TextUnits
<1>10. ASSUME NEW i \in DOMAIN units, i - a - l \in 1 .. z
       PROVE  units[i].kind = "review_controls" /\ i = a + l + z /\ z = 1 /\ (i = 1 => a = 0)
  <2>1. a + l + (i - a - l) = i /\ (i = 1 => a = 0) /\ z = 1 /\ i - a - l = 1 /\ i = a + l + z
    BY <1>4, <1>5, <1>6, <1>10
  <2>2. units[a + l + (i - a - l)] = tail[i - a - l]
    BY <1>6, <1>10
  <2>3. QED
    BY <1>4, <1>10, <2>1, <2>2
<1>11. ASSUME NEW i \in DOMAIN units
       PROVE  /\ units[i].kind = "media" <=> i = 1 /\ pictured
              /\ units[i].kind = "review_controls" <=> i = Len(units) /\ ds # <<>>
  <2>0. Len(units) = a + l + z
    BY <1>6
  <2>1. CASE i \in 1 .. a
    <3>1. units[i].kind = "media" /\ i = 1 /\ a = 1 /\ (i = a + l + z => z = 0)
      BY <1>8, <2>1
    <3>2. QED
      BY <1>3, <1>4, <2>0, <3>1
  <2>2. CASE i - a \in 1 .. l
    <3>1. units[i].kind \in {"caption", "text"} /\ (i = 1 => a = 0) /\ (i = a + l + z => z = 0)
      BY <1>9, <2>2
    <3>2. QED
      BY <1>3, <1>4, <2>0, <3>1
  <2>3. CASE i - a - l \in 1 .. z
    <3>1. units[i].kind = "review_controls" /\ i = a + l + z /\ z = 1 /\ (i = 1 => a = 0)
      BY <1>10, <2>3
    <3>2. QED
      BY <1>3, <1>4, <2>0, <3>1
  <2>4. QED
    BY <1>7, <2>1, <2>2, <2>3
<1>12. ASSUME NEW i \in saying PROVE i - a \in DOMAIN body /\ units[i] = body[i - a] /\ i \in Nat
  <2>1. i \in DOMAIN units /\ units[i].kind \in {"caption", "text"}
    OBVIOUS
  <2>2. ~(i \in 1 .. a) /\ ~(i - a - l \in 1 .. z)
    BY <1>8, <1>10, <2>1
  <2>3. i - a \in 1 .. l
    BY <1>7, <2>1, <2>2
  <2>4. i \in Nat
    BY <1>6, <2>1
  <2>5. QED
    BY <1>5, <1>9, <2>1, <2>3, <2>4
<1>13. ASSUME NEW k \in DOMAIN body PROVE a + k \in saying /\ units[a + k] = body[k]
  <2>1. a + k \in DOMAIN units /\ units[a + k] = body[k]
    BY <1>5, <1>6
  <2>2. QED
    BY <1>2, <2>1 DEF TextUnits
<1> HIDE DEF saying
<1>14. CASE p.text = "draft"
  <2>1. TextsKept(ds, body)
    BY <1>2, <1>14
  <2>2. \A d \in DOMAIN ds : \A n \in 1 .. PartsOf[ds[d]] :
          \E i \in saying : units[i].post = ds[d] /\ units[i].part = n
    BY <1>13, <2>1 DEF TextsKept
  <2>3. ASSUME NEW i \in saying, NEW j \in saying, i < j PROVE ComesLater(units[i], units[j])
    <3>1. i - a < j - a /\ i - a \in DOMAIN body /\ j - a \in DOMAIN body
      BY <1>6, <1>12, <2>3
    <3>2. ComesLater(body[i - a], body[j - a])
      BY <2>1, <3>1 DEF TextsKept
    <3>3. QED
      BY <1>12, <3>2
  <2>4. (\E i \in saying : units[i].kind = "caption") => Len(ds) = 1 /\ ds[1] \in Brief
    BY <1>12, <2>1 DEF TextsKept
  <2>5. QED
    BY <1>1, <1>11, <2>2, <2>3, <2>4 DEF saying
<1>15. CASE p.text # "draft"
  BY <1>1, <1>11, <1>15
<1>16. QED
  BY <1>14, <1>15

(* A segment's plan shows the media first, holds each message of each      *)
(* draft once and in order, and the buttons come last, for any drafts.     *)
THEOREM DraftsKeptWhole == SegmentSpec => []PlansKeepDrafts
<1>1. TextInv => PlansKeepDrafts
  BY PlanIs DEF TextInv, PackageShape, PlansKeepDrafts, ComesLater
<1>2. QED
  BY <1>1, TextsAlways, PTL

-----------------------------------------------------------------------------
(* Summaries: the models still to be asked.                                *)

(* The models asked for a summary.                                         *)
ModelNames == {Models[n] : n \in DOMAIN Models}

(* The models still to be asked, and the bounds.                           *)
ModelsInHand ==
  /\ asking.models \in Seq(ModelNames) /\ Len(asking.models) <= Len(Models)
  /\ calls \in 0 .. max_calls /\ unavailable \subseteq ModelNames /\ errors \in 0 .. GeminiFaults

(* No model is asked.                                                      *)
LEMMA InitModels == SummaryInit => ModelsInHand
<1> SUFFICES ASSUME SummaryInit PROVE ModelsInHand
  OBVIOUS
<1>1. NotAsking.models = <<>> /\ Len(Models) \in Nat /\ GeminiFaults \in Nat /\ max_calls \in Nat
  BY SummariesAssumption, SummaryNumbers DEF NotAsking
<1>2. asking = NotAsking /\ calls = 0 /\ unavailable = {} /\ errors = 0
  BY DEF SummaryInit
<1>3. <<>> \in Seq(ModelNames) /\ Len(<<>>) = 0
  OBVIOUS
<1>4. asking.models \in Seq(ModelNames) /\ Len(asking.models) = 0
  BY <1>1, <1>2, <1>3
<1>5. Len(asking.models) <= Len(Models) /\ calls \in 0 .. max_calls /\ errors \in 0 .. GeminiFaults
  BY <1>1, <1>2, <1>4
<1>6. QED
  BY <1>2, <1>4, <1>5 DEF ModelsInHand

(* One step per action.                                                    *)
LEMMA NextModels == SummaryInv /\ ModelsInHand /\ [SummaryNext]_summaryVars => ModelsInHand'
<1> SUFFICES ASSUME SummaryInv, ModelsInHand, [SummaryNext]_summaryVars PROVE ModelsInHand'
  OBVIOUS
<1> DEFINE L == Len(Models)
           B == max_calls
           Left(M) == M \in Seq(ModelNames) /\ Len(M) <= L
           Numbered(c, u, e) == c \in 0 .. B /\ u \subseteq ModelNames /\ e \in 0 .. GeminiFaults
<1>0. L \in Nat /\ B \in Nat /\ GeminiFaults \in Nat /\ Models \in Seq(ModelNames) /\ B' = B
  BY SummariesAssumption, SummaryNumbers DEF ModelNames, max_calls, Batches
<1>1. /\ Left(asking.models) /\ Left(<<>>) /\ NotAsking.models = <<>> /\ IsAsking(asking)
      /\ Numbered(calls, unavailable, errors)
  BY <1>0 DEF ModelsInHand, SummaryInv, SummaryShape, NotAsking
<1>2. SUFFICES Left(asking'.models) /\ Numbered(calls', unavailable', errors')
  BY <1>0 DEF ModelsInHand
<1>3. ASSUME asking.models # <<>> PROVE Left(Tail(asking.models)) /\ Model \in ModelNames
  BY <1>0, <1>1, <1>3 DEF Model
<1>4. \A M, Q, A : Turned(asking, M, Q, A).models = M
  BY <1>1 DEF IsAsking, AskingWith, Turned
<1>5. ASSUME pace_request PROVE calls' \in 0 .. B
  BY <1>0, <1>1, <1>5 DEF pace_request
<1>6. ASSUME Erring \/ UNCHANGED errors PROVE errors' \in 0 .. GeminiFaults
  BY <1>0, <1>1, <1>6 DEF Erring
<1> HIDE DEF L, B, Left
<1>7. CASE translate_subset
  <2>1. UNCHANGED <<calls, unavailable, errors>>
    BY <1>7 DEF translate_subset
  <2>2. CASE calls >= max_calls
    BY <1>1, <1>7, <2>1, <2>2 DEF translate_subset
  <2>3. CASE ~(calls >= max_calls)
    <3> DEFINE S == Head(agenda)
               M == active_candidates
               C == Len(active_candidates)
    <3>1. asking' = [NotAsking EXCEPT !.subset = S, !.models = M, !.candidates = C]
      BY <1>7, <2>3 DEF translate_subset
    <3>2. Left(M)
      <4> DEFINE P == {n \in DOMAIN Models : Models[n] \notin unavailable}
      <4>1. P \subseteq DOMAIN Models /\ M = Chosen(Models, P)
        BY DEF active_candidates
      <4> HIDE DEF P, M
      <4>2. QED
        BY <1>0, <4>1, ChosenIs DEF Left, L
    <3> HIDE DEF S, M, C
    <3>3. asking'.models = M
      BY <3>1 DEF NotAsking
    <3>4. QED
      BY <1>1, <2>1, <3>2, <3>3
  <2>4. QED
    BY <2>2, <2>3
<1>8. CASE AnswerTo
  <2>1. /\ asking' = NotAsking /\ pace_request /\ UNCHANGED unavailable /\ (Erring \/ UNCHANGED errors)
    BY <1>8 DEF AnswerTo
  <2>2. QED
    BY <1>1, <1>5, <1>6, <2>1
<1>9. CASE EmptyAnswer
  <2>1. /\ asking.models # <<>> /\ pace_request /\ UNCHANGED unavailable /\ (Erring \/ UNCHANGED errors)
        /\ asking' = [asking EXCEPT !.models = Tail(@), !.again = FALSE]
    BY <1>9 DEF EmptyAnswer, InHand, NextModel
  <2>2. asking'.models = Tail(asking.models)
    BY <1>1, <2>1 DEF IsAsking, AskingWith
  <2>3. QED
    BY <1>1, <1>3, <1>5, <1>6, <2>1, <2>2
<1>10. CASE Unavailable
  <2>1. /\ asking.models # <<>> /\ pace_request /\ UNCHANGED unavailable /\ (Erring \/ UNCHANGED errors)
        /\ \/ asking' = [asking EXCEPT !.models = Tail(@), !.again = FALSE]
           \/ asking' = [asking EXCEPT !.again = TRUE]
    BY <1>10 DEF Unavailable, InHand, NextModel
  <2>2. asking'.models \in {Tail(asking.models), asking.models}
    BY <1>1, <2>1 DEF IsAsking, AskingWith
  <2>3. QED
    BY <1>1, <1>3, <1>5, <1>6, <2>1, <2>2
<1>11. CASE QuotaError
  <2>1. /\ asking.models # <<>> /\ pace_request /\ unavailable' = unavailable \cup {Model} /\ (Erring \/ UNCHANGED errors)
        /\ asking' = Turned(asking, Tail(asking.models), asking.quotas + 1, FALSE)
    BY <1>11 DEF QuotaError, InHand, Turned
  <2>2. asking'.models = Tail(asking.models)
    BY <1>4, <2>1
  <2>3. QED
    BY <1>1, <1>3, <1>5, <1>6, <2>1, <2>2
<1>12. CASE SharedError
  <2>1. asking' = NotAsking /\ pace_request /\ UNCHANGED unavailable /\ (Erring \/ UNCHANGED errors)
    BY <1>12 DEF SharedError, Halt
  <2>2. QED
    BY <1>1, <1>5, <1>6, <2>1
<1>13. CASE OutOfRequests
  BY <1>1, <1>13 DEF OutOfRequests
<1>14. CASE NoAnswer
  <2>1. asking' = NotAsking /\ UNCHANGED <<calls, unavailable, errors>>
    BY <1>14 DEF NoAnswer, Halt
  <2>2. QED
    BY <1>1, <2>1
<1>15. CASE UNCHANGED summaryVars
  BY <1>1, <1>15 DEF summaryVars
<1>16. QED
  BY <1>7, <1>8, <1>9, <1>10, <1>11, <1>12, <1>13, <1>14, <1>15 DEF SummaryNext

(* The summaries of the digest (fic_summary.py) have their types: the models *)
(* asked are those of the policy, in a number of calls within the limit.   *)
LEMMA SummaryTypesHold == SummarySpec => []SummaryTypes
<1>1. ASSUME SummaryInv, ModelsInHand PROVE SummaryTypes
  <2>1. \A n \in DOMAIN agenda : agenda[n] \subseteq 1 .. Works
    BY <1>1 DEF SummaryInv, SummaryShape
  <2>2. QED
    BY <1>1, <2>1 DEF SummaryInv, SummaryShape, ModelsInHand, SummaryTypes, ModelNames
<1>2. QED
  BY <1>1, InitModels, NextModels, SummaryInvHolds, PTL DEF SummarySpec

-----------------------------------------------------------------------------
(* The machines of MCRecords beside each other.                            *)

(* The machine that is not running stands still.                           *)
LEMMA EvidenceBeside == BooksSpec => EvidenceInit /\ [][EvidenceNext]_evidenceVars
<1>1. BooksInit => EvidenceInit
  BY DEF BooksInit, ServicesInit
<1>2. [BooksNext]_records => [EvidenceNext]_evidenceVars
  BY DEF BooksNext, ServicesNext, Only, Alone, records, services
<1>3. QED
  BY <1>1, <1>2, PTL DEF BooksSpec

LEMMA FeedsBeside == BooksSpec => FeedSpec
<1>1. BooksInit => FeedInit
  BY DEF BooksInit
<1>2. [BooksNext]_records => [FeedNext]_feedVars
  BY DEF BooksNext, Only, records, books
<1>3. QED
  BY <1>1, <1>2, PTL DEF BooksSpec, FeedSpec

LEMMA EditsBeside == BooksSpec => EditSpec
<1>1. BooksInit => EditInit
  BY DEF BooksInit
<1>2. [BooksNext]_records => [EditNext]_editVars
  BY DEF BooksNext, Only, records, books
<1>3. QED
  BY <1>1, <1>2, PTL DEF BooksSpec, EditSpec

LEMMA VoiceBeside == BooksSpec => VoiceSpec
<1>1. BooksInit => VoiceInit
  BY DEF BooksInit
<1>2. [BooksNext]_records => [VoiceNext]_voiceVars
  BY DEF BooksNext, Only, records, books
<1>3. QED
  BY <1>1, <1>2, PTL DEF BooksSpec, VoiceSpec

LEMMA CaptionsBeside == BooksSpec => TranslationSpec
<1>1. BooksInit => TranslationInit
  BY DEF BooksInit
<1>2. [BooksNext]_records => [TranslationNext]_translationVars
  BY DEF BooksNext, Only, records, books
<1>3. QED
  BY <1>1, <1>2, PTL DEF BooksSpec, TranslationSpec

-----------------------------------------------------------------------------
(* However an account was read (x_resumable_fetch.py, recovery.py,          *)
(* fast_path.py), the sources are read whole.                              *)
THEOREM SourcesStayRead == BooksSpec => []SourcesAreRead
<1>1. SegmentsAreWhole /\ NoSourceStarves /\ FeedsAreHonest => SourcesAreRead
  BY DEF SourcesAreRead
<1>2. QED
  BY <1>1, EvidenceBeside, FeedsBeside, SegmentsStayWhole, RotationIsFair, FeedsStayHonest, PTL

(* The editor's final texts (final_edit_capture.py, voice_profile.py):      *)
(* one chain of edits in force for each draft, no weight they have not     *)
(* earned.                                                                 *)
THEOREM FinalEditsStayInForce == BooksSpec => []FinalEditsHold
<1>1. EditsInForce /\ WeightsAreEarned => FinalEditsHold
  BY DEF FinalEditsHold
<1>2. QED
  BY <1>1, EditsBeside, VoiceBeside, OneEditInForce, WeightsStayEarned, PTL

(* The captions (gemini_structured.py, translation_review_pipeline.py): no  *)
(* text unchecked and unmarked, no outage without an end.                  *)
THEOREM CaptionsStaySafe == BooksSpec => []CaptionsAreSafe
<1>1. TextsAreVetted /\ OutageHasEnd => CaptionsAreSafe
  BY DEF CaptionsAreSafe
<1>2. QED
  BY <1>1, CaptionsBeside, TextsStayVetted, OutagesEnd, PTL

LEMMA EventsBeside == BooksSpec => FusionSpec
<1>1. BooksInit => FusionInit
  BY DEF BooksInit
<1>2. [BooksNext]_records => [FusionNext]_fusionVars
  BY DEF BooksNext, Only, records, books
<1>3. QED
  BY <1>1, <1>2, PTL DEF BooksSpec, FusionSpec

LEMMA SegmentsBeside == BooksSpec => SegmentSpec
<1>1. BooksInit => SegmentInit
  BY DEF BooksInit
<1>2. [BooksNext]_records => [SegmentNext]_segmentVars
  BY DEF BooksNext, Only, records, books
<1>3. QED
  BY <1>1, <1>2, PTL DEF BooksSpec, SegmentSpec

(* The plans of packages (fused_private_review_delivery.py): every medium  *)
(* of an event's posts once and in albums Telegram takes, every message of *)
(* a segment's drafts once and in order, the buttons last.                 *)
THEOREM PlansStayWhole == BooksSpec => []PlansAreWhole
<1>1. PlansCarryAll /\ PlansKeepDrafts => PlansAreWhole
  BY DEF PlansAreWhole
<1>2. QED
  BY <1>1, EventsBeside, SegmentsBeside, MediaShownOnce, DraftsKeptWhole, PTL

LEMMA ScanBeside == BooksSpec => ScanSpec
<1>1. BooksInit => ScanInit
  BY DEF BooksInit
<1>2. [BooksNext]_records => [ScanNext]_scanVars
  BY DEF BooksNext, Only, records, books
<1>3. QED
  BY <1>1, <1>2, PTL DEF BooksSpec, ScanSpec

LEMMA PostsBeside == BooksSpec => RecordsSpec
<1>1. BooksInit => RecordsInit
  BY DEF BooksInit
<1>2. [BooksNext]_records => [RecordsNext]_recordVars
  BY DEF BooksNext, Only, records, books
<1>3. QED
  BY <1>1, <1>2, PTL DEF BooksSpec, RecordsSpec

LEMMA DigestBeside == BooksSpec => FicSpec
<1>1. BooksInit => FicInit
  BY DEF BooksInit
<1>2. [BooksNext]_records => [FicNext]_ficVars
  BY DEF BooksNext, Only, records, books
<1>3. QED
  BY <1>1, <1>2, PTL DEF BooksSpec, FicSpec

LEMMA SummariesBeside == BooksSpec => SummarySpec
<1>1. BooksInit => SummaryInit
  BY DEF BooksInit
<1>2. [BooksNext]_records => [SummaryNext]_summaryVars
  BY DEF BooksNext, Only, records, books
<1>3. QED
  BY <1>1, <1>2, PTL DEF BooksSpec, SummarySpec

LEMMA DeskBeside == BooksSpec => DeskSpec
<1>1. BooksInit => DeskInit
  BY DEF BooksInit
<1>2. [BooksNext]_records => [DeskNext]_deskVars
  BY DEF BooksNext, Only, records, books
<1>3. QED
  BY <1>1, <1>2, PTL DEF BooksSpec, DeskSpec

LEMMA AsksBeside == BooksSpec => AskSpec
<1>1. BooksInit => AskInit
  BY DEF BooksInit
<1>2. [BooksNext]_records => [AskNext]_askVars
  BY DEF BooksNext, Only, records, books
<1>3. QED
  BY <1>1, <1>2, PTL DEF BooksSpec, AskSpec

LEMMA WatchBeside == BooksSpec => WatchSpec
<1>1. BooksInit => WatchInit
  BY DEF BooksInit
<1>2. [BooksNext]_records => [WatchNext]_watchVars
  BY DEF BooksNext, Only, records, books
<1>3. QED
  BY <1>1, <1>2, PTL DEF BooksSpec, WatchSpec

LEMMA HostBeside == BooksSpec => HostInit /\ [][HostNext]_hostVars
<1>1. BooksInit => HostInit
  BY DEF BooksInit, ServicesInit
<1>2. [BooksNext]_records => [HostNext]_hostVars
  BY DEF BooksNext, ServicesNext, Only, Alone, records, services
<1>3. QED
  BY <1>1, <1>2, PTL DEF BooksSpec

LEMMA DaysBeside == BooksSpec => RequestInit /\ [][RequestNext]_requestVars
<1>1. BooksInit => RequestInit
  BY DEF BooksInit, ServicesInit
<1>2. [BooksNext]_records => [RequestNext]_requestVars
  BY DEF BooksNext, ServicesNext, Only, Alone, records, services
<1>3. QED
  BY <1>1, <1>2, PTL DEF BooksSpec

(* Whichever machine runs, every variable of every machine has its type.   *)
THEOREM BooksTypesHold == BooksSpec => []BooksTypes
<1>1. /\ ScanTypes /\ RecordsTypes /\ FicTypes /\ SummaryTypes /\ EditTypes /\ FusionTypes
      /\ TranslationTypes /\ SegmentTypes /\ DeskTypes /\ AskTypes /\ WatchTypes /\ FeedTypes
      /\ VoiceTypes /\ HostTypes /\ RequestTypes /\ EvidenceTypes
      => BooksTypes
  BY Zenon DEF BooksTypes, ServicesTypes
<1>2. BooksSpec => [](ScanTypes /\ RecordsTypes /\ FicTypes /\ SummaryTypes)
  BY ScanBeside, PostsBeside, DigestBeside, SummariesBeside,
     ScanTypesHold, RecordsTypesHold, FicTypesHold, SummaryTypesHold, PTL
<1>3. BooksSpec => [](EditTypes /\ FusionTypes /\ TranslationTypes /\ SegmentTypes)
  BY EditsBeside, EventsBeside, CaptionsBeside, SegmentsBeside,
     EditTypesHold, FusionTypesHold, CaptionTypesHold, SegmentTypesHold, PTL
<1>4. BooksSpec => [](DeskTypes /\ AskTypes /\ WatchTypes /\ FeedTypes /\ VoiceTypes)
  BY DeskBeside, AsksBeside, WatchBeside, FeedsBeside, VoiceBeside,
     DeskTypesHold, AskTypesHold, WatchTypesHold, FeedTypesHold, VoiceTypesHold, PTL
<1>5. BooksSpec => [](HostTypes /\ RequestTypes /\ EvidenceTypes)
  BY HostBeside, DaysBeside, EvidenceBeside, HostTypesAlways, RequestTypesHold, EvidenceTypesHold, PTL
<1>6. QED
  BY <1>1, <1>2, <1>3, <1>4, <1>5, PTL
=============================================================================
