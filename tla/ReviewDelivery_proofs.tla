----------------------- MODULE ReviewDelivery_proofs -----------------------
(***************************************************************************)
(* Theorems about ReviewDelivery, for every set of posts, every grouping,  *)
(* every message length and every number of failures.                      *)
(***************************************************************************)
EXTENDS ReviewDelivery, FunctionTheorems, FiniteSetTheorems, TLAPS

USE UpdateAssumption, GroupAssumption, MediaAssumption, BoundAssumption, CustodyAssumption

(* A cluster index never exceeds the number of standalone lives.           *)
LEMMA ClusterRange ==
  ASSUME NEW S \in SUBSET Update, NEW u \in Update
  PROVE  Cluster(S, u) \in 0 .. Cardinality(Live)
<1> DEFINE W == {w \in S \cap Live :
                   /\ \E x \in S \cap Live : At[x] < At[w]
                   /\ \A x \in S \cap Live : At[x] < At[w] => At[w] - At[x] > 4}
           C == {t \in ClusterStarts(S) : t <= At[u]}
           f == [w \in W |-> At[w]]
<1>1. IsFiniteSet(Live) /\ IsFiniteSet(W)
  BY FS_Subset
<1>2. Cardinality(W) <= Cardinality(Live)
  BY <1>1, FS_Subset
<1>3. f \in Surjection(W, ClusterStarts(S))
  BY DEF Surjection, ClusterStarts
<1>4. IsFiniteSet(ClusterStarts(S)) /\ Cardinality(ClusterStarts(S)) <= Cardinality(W)
  BY <1>1, <1>3, FS_Surjection
<1>5. IsFiniteSet(C) /\ Cardinality(C) <= Cardinality(ClusterStarts(S))
  BY <1>4, FS_Subset
<1>6. /\ Cardinality(C) \in Nat /\ Cardinality(ClusterStarts(S)) \in Nat
      /\ Cardinality(W) \in Nat /\ Cardinality(Live) \in Nat
  BY <1>1, <1>4, <1>5, FS_CardinalityType
<1> QED
  BY <1>2, <1>4, <1>5, <1>6 DEF Cluster

(* Every key send_message is called with is a delivery key of an update.   *)
LEMMA KeyType ==
  ASSUME NEW S \in SUBSET Update, NEW u \in Update, NEW j \in {"warn", "text"}
  PROVE  /\ Key(S, j, u) \in Keys
         /\ j = "text" => Key(S, j, u) \in DraftKeys /\ Key(S, j, u)[3] = u
<1>1. GroupKey(S, u) \in GroupKeys
  BY ClusterRange DEF GroupKey, GroupKeys
<1> QED
  BY <1>1 DEF Key, Keys, DraftKeys, WarnKeys
-----------------------------------------------------------------------------
(* What the control point says about the message being sent.               *)
Control ==
  /\ pc \in {"open", "send", "confirm", "mark"} => \E u \in prepared : cur = <<u>>
  /\ pc \in {"send", "confirm"} => part >= 1 /\ ThePlan # NoCaption
  /\ pc = "confirm" => part <= ThePlan.len
  /\ pc \in {"update", "open", "send", "confirm", "mark"} =>
       \A u \in prepared : DraftOf(u) # NoCaption
  /\ pc \notin {"update", "open", "send", "confirm", "mark"} => prepared = {}

(* A caption that is there has between one and MaxParts parts, and the     *)
(* message that is about to be sent is a message.                          *)
LEMMA CurrentMessage ==
  ASSUME TypeOK, Control, pc \in {"send", "confirm"}, part <= ThePlan.len
  PROVE  /\ TheKey \in Keys /\ ThePlan \in Caption
         /\ part \in 1 .. MaxParts
         /\ TheMessage \in Message
         /\ <<TheKey, part>> \in Slot
<1>1. PICK u \in prepared : cur = <<u>>
  BY DEF Control
<1>2. TheKey \in Keys
  BY <1>1, KeyType DEF TypeOK, TheKey
<1>3. ThePlan \in Caption
  BY <1>2 DEF TypeOK, Control, ThePlan, Db
<1>4. part \in 1 .. MaxParts
  BY <1>3 DEF TypeOK, Control, Caption
<1> QED
  BY <1>2, <1>3, <1>4 DEF TheMessage, Message, Slot

LEMMA InitControl == Init => TypeOK /\ Control
<1> SUFFICES ASSUME Init PROVE TypeOK /\ Control
  OBVIOUS
<1>1. EmptyJson \in Json
  BY DEF EmptyJson, Json
<1>2. EmptyDb \in Db
  BY DEF EmptyDb, Db
<1>3. mem \in Json /\ disk \in Json /\ cache \in Json /\ db \in Db /\ dbCache \in Db
  BY <1>1, <1>2 DEF Init
<1>4. copies \in [Slot -> Nat] /\ unacked \in [Slot -> Nat]
  BY DEF Init
<1>5. /\ scope \subseteq Update /\ todo \subseteq scope /\ prepared \subseteq scope
      /\ cur = <<>> /\ job \in {"warn", "text"} /\ part \in 0 .. MaxParts + 1
      /\ deferred \subseteq Update
  BY BoundAssumption DEF Init, Idle
<1>6. TypeOK
  BY <1>3, <1>4, <1>5, BoundAssumption DEF Init, TypeOK
<1>7. Control
  BY DEF Init, Idle, Control
<1> QED
  BY <1>6, <1>7

(* A peek at the queue or a purge leaves the types and the drafts alone.   *)
LEMMA PurgeType ==
  ASSUME TypeOK
  PROVE  /\ Purged \in Json
         /\ \A batch \in SUBSET Update : AfterPeek(batch) \in Json
  BY DEF TypeOK, Json, Purged, AfterPeek, PeekedQueue

(* The failure budget is never exceeded.                                   *)
LEMMA FaultBound ==
  ASSUME TypeOK, Fault \/ UNCHANGED faults
  PROVE  faults' \in 0 .. MaxFaults
  BY BoundAssumption DEF Fault, TypeOK

(* A counter per slot stays one when a slot is counted up.                 *)
LEMMA CountUp ==
  ASSUME NEW f \in [Slot -> Nat], NEW s, NEW n \in Nat
  PROVE  [f EXCEPT ![s] = @ + n] \in [Slot -> Nat]
<1>1. \A x \in Slot : f[x] + n \in Nat
  OBVIOUS
<1> QED
  BY <1>1, Zenon

LEMMA NextControl == TypeOK /\ Control /\ [Next]_vars => TypeOK' /\ Control'
<1> SUFFICES ASSUME TypeOK, Control, [Next]_vars PROVE TypeOK' /\ Control'
  OBVIOUS
<1> USE DEF stores, process, history, Goto
<1>1. CASE StartRun
  BY <1>1 DEF StartRun, TypeOK, Control
<1>2. ASSUME NEW S \in SUBSET Update, FreshStart(S) PROVE TypeOK' /\ Control'
  <2>1. mem' \in Json /\ disk' \in Json
    BY <1>2 DEF FreshStart, Save, TypeOK, Json
  <2>2. dropped' \subseteq Update
    BY <1>2 DEF FreshStart, TypeOK, Json
  <2>3. faults' \in 0 .. MaxFaults
    BY <1>2, FaultBound DEF FreshStart
  <2> QED
    BY <1>2, <2>1, <2>2, <2>3 DEF FreshStart, TypeOK, Control
<1>3. ASSUME NEW S \in SUBSET Update, ScanComplete(S) PROVE TypeOK' /\ Control'
  <2>1. mem' \in Json
    BY <1>3 DEF ScanComplete, TypeOK, Json
  <2> QED
    BY <1>3, <2>1 DEF ScanComplete, TypeOK, Control
<1>4. ASSUME NEW S \in SUBSET Update, ScanPartial(S) PROVE TypeOK' /\ Control'
  <2>1. mem' \in Json
    BY <1>4 DEF ScanPartial, TypeOK, Json
  <2>2. faults' \in 0 .. MaxFaults
    BY <1>4, FaultBound DEF ScanPartial
  <2> QED
    BY <1>4, <2>1, <2>2 DEF ScanPartial, TypeOK, Control
<1>5. ASSUME NEW r, DeliveryGated(r) PROVE TypeOK' /\ Control'
  <2>1. faults' \in 0 .. MaxFaults
    BY <1>5, FaultBound DEF DeliveryGated
  <2> QED
    BY <1>5, <2>1, PurgeType DEF DeliveryGated, TypeOK, Control
<1>6. ASSUME NEW S \in SUBSET Update, DeliverPending(S) PROVE TypeOK' /\ Control'
  <2>1. faults' \in 0 .. MaxFaults
    BY <1>6, FaultBound DEF DeliverPending
  <2>2. mem' \in Json
    BY <1>6, PurgeType DEF DeliverPending
  <2>3. scope' \subseteq Update /\ todo' \subseteq scope' /\ prepared' \subseteq scope'
    <3>1. CASE scope' = S /\ todo' = S /\ UNCHANGED prepared
      BY <1>6, <3>1 DEF DeliverPending, TypeOK, Control
    <3>2. CASE UNCHANGED process
      BY <3>2 DEF TypeOK
    <3> QED
      BY <1>6, <3>1, <3>2 DEF DeliverPending
  <2> QED
    BY <1>6, <2>1, <2>2, <2>3 DEF DeliverPending, TypeOK, Control
<1>7. CASE ExitRun
  BY <1>7 DEF ExitRun, Save, TypeOK, Control
<1>8. CASE Crash
  <2>1. faults' \in 0 .. MaxFaults
    BY <1>8, FaultBound DEF Crash
  <2>2. unacked' \in [Slot -> Nat]
    <3> DEFINE s == <<Key(scope, job, cur[1]), part>>
    <3>1. [unacked EXCEPT ![s] = @ + 1] \in [Slot -> Nat]
      BY CountUp, 1 \in Nat DEF TypeOK
    <3> QED
      BY <1>8, <3>1 DEF Crash, TypeOK
  <2>3. /\ scope' \subseteq Update /\ todo' \subseteq scope' /\ prepared' = {}
        /\ cur' = <<>> /\ job' = "text" /\ part' \in 0 .. MaxParts + 1 /\ deferred' \subseteq Update
    BY <1>8, BoundAssumption DEF Crash, ResetProcess
  <2> QED
    BY <1>8, <2>1, <2>2, <2>3 DEF Crash, TypeOK, Control
<1>9. ASSUME NEW L \in SUBSET CustodyLoss, CloseRun(L) PROVE TypeOK' /\ Control'
  <2>1. faults' \in 0 .. MaxFaults
    BY <1>9, FaultBound DEF CloseRun
  <2> QED
    BY <1>9, <2>1 DEF CloseRun, TypeOK, Control
<1>10. ASSUME NEW u \in Update, RetireSource(u) PROVE TypeOK' /\ Control'
  <2>1. faults' \in 0 .. MaxFaults
    BY <1>10, FaultBound DEF RetireSource
  <2> QED
    BY <1>10, <2>1 DEF RetireSource, TypeOK, Control, DraftOf, ThePlan, TheKey
<1>11. ASSUME NEW u \in Update, NEW S \in SUBSET Update, NEW n \in 1 .. MaxParts,
              PrepareGroup(u, S, n)
       PROVE TypeOK' /\ Control'
  <2> DEFINE members == GroupOf(u)
             missing == members \ Drafted(members)
             text    == [gen |-> gen + 1, len |-> n]
             draft   == [k \in DraftKeys |->
                           IF k[3] \in S /\ k = Key(scope, "text", k[3])
                           THEN text ELSE mem.draft[k]]
  <2>1. faults' \in 0 .. MaxFaults
    BY <1>11, FaultBound DEF PrepareGroup
  <2>2. /\ members \subseteq todo /\ S \subseteq missing
        /\ S \subseteq Update /\ members \subseteq Update
    BY <1>11 DEF PrepareGroup, GroupOf, TypeOK
  <2>3. text \in Caption /\ text # NoCaption /\ gen + 1 \in Nat
    BY DEF TypeOK, Caption, NoCaption
  <2>4. draft \in [DraftKeys -> Caption \cup {NoCaption}]
    BY <2>3 DEF TypeOK, Json
  <2>5. mem' = [mem EXCEPT !.draft = draft] /\ disk' = mem'
    BY <1>11 DEF PrepareGroup, Save
  <2>6. mem' \in Json /\ disk' \in Json /\ mem'.draft = draft
    BY <2>4, <2>5 DEF TypeOK, Json
  <2>7. /\ prepared' = Drafted(members) \cup S
        /\ todo' \subseteq scope' /\ prepared' \subseteq scope' /\ scope' \subseteq Update
        /\ deferred' \subseteq Update
    BY <1>11, <2>2 DEF PrepareGroup, TypeOK, Drafted
  <2>8. gen' \in Nat
    BY <1>11, <2>3 DEF PrepareGroup, TypeOK
  <2>9. \A v \in prepared' : DraftOf(v)' # NoCaption
    <3> SUFFICES ASSUME NEW v \in prepared' PROVE DraftOf(v)' # NoCaption
      OBVIOUS
    <3>1. v \in Update /\ scope' = scope /\ scope \in SUBSET Update
      BY <1>11, <2>2, <2>7 DEF PrepareGroup, TypeOK, Drafted
    <3>2. Key(scope, "text", v) \in DraftKeys /\ Key(scope, "text", v)[3] = v
      BY <3>1, KeyType
    <3>3. DraftOf(v)' = draft[Key(scope, "text", v)]
      BY <3>1, <2>6 DEF DraftOf, Key, GroupKey, Cluster, ClusterStarts
    <3>4. v \in S \/ mem.draft[Key(scope, "text", v)] # NoCaption
      BY <2>7 DEF Drafted, DraftOf
    <3> QED
      BY <3>2, <3>3, <3>4, <2>3
  <2> QED
    BY <1>11, <2>1, <2>6, <2>7, <2>8, <2>9 DEF PrepareGroup, TypeOK, Control
<1>12. CASE EndBatch
  <2>1. mem' \in Json
    BY <1>12 DEF EndBatch, TypeOK, Json
  <2> QED
    BY <1>12, <2>1, BoundAssumption DEF EndBatch, AbortBatch, ResetProcess, TypeOK, Control
<1>13. ASSUME NEW u \in Update, NEW first \in {"warn", "text"}, BeginUpdate(u, first)
       PROVE TypeOK' /\ Control'
  <2>1. faults' \in 0 .. MaxFaults
    BY <1>13, FaultBound DEF BeginUpdate
  <2>2. u \in prepared /\ cur' = <<u>>
    BY <1>13 DEF BeginUpdate, Oldest
  <2> QED
    BY <1>13, <2>1, <2>2 DEF BeginUpdate, TypeOK, Control, DraftOf
<1>14. ASSUME NEW u \in Update, MediaFails(u) PROVE TypeOK' /\ Control'
  <2>1. faults' \in 0 .. MaxFaults
    BY <1>14, FaultBound DEF MediaFails
  <2> QED
    BY <1>14, <2>1, BoundAssumption DEF MediaFails, AbortBatch, ResetProcess, TypeOK, Control
<1>15. CASE OpenPlan
  <2>1. PICK u \in prepared : cur = <<u>>
    BY <1>15 DEF OpenPlan, Control
  <2>2. TheKey \in Keys /\ TheKey' = TheKey
    BY <1>15, <2>1, KeyType
    DEF OpenPlan, TypeOK, TheKey, Key, GroupKey, Cluster, ClusterStarts
  <2>3. TheText \in Caption
    <3>1. WarnText \in Caption
      BY BoundAssumption DEF WarnText, Caption
    <3>2. Key(scope, "text", u) \in DraftKeys /\ DraftOf(u) # NoCaption
      BY <1>15, <2>1, KeyType DEF OpenPlan, TypeOK, Control
    <3>3. DraftOf(u) \in Caption
      BY <3>2 DEF TypeOK, Json, DraftOf
    <3> QED
      BY <2>1, <3>1, <3>3 DEF TheText
  <2>4. PlanToSend \in Caption
    BY <2>2, <2>3 DEF PlanToSend, ThePlan, TypeOK, Db
  <2>5. db' = [db EXCEPT !.plan[TheKey] = PlanToSend]
    BY <1>15 DEF OpenPlan
  <2>6. db' \in Db /\ db'.plan[TheKey] = PlanToSend
    BY <2>2, <2>4, <2>5 DEF TypeOK, Db
  <2>7. ThePlan' # NoCaption
    BY <2>2, <2>4, <2>6 DEF ThePlan, Caption, NoCaption
  <2>8. part' = 1 /\ part' \in 0 .. MaxParts + 1 /\ part' >= 1
    BY <1>15, BoundAssumption DEF OpenPlan
  <2> QED
    BY <1>15, <2>1, <2>6, <2>7, <2>8 DEF OpenPlan, TypeOK, Control, DraftOf
<1>16. CASE SkipPart
  <2>1. part \in 1 .. MaxParts
    BY <1>16, CurrentMessage DEF SkipPart
  <2>2. part' \in 0 .. MaxParts + 1 /\ part' >= 1
    BY <1>16, <2>1, BoundAssumption DEF SkipPart
  <2> QED
    BY <1>16, <2>2 DEF SkipPart, TypeOK, Control, DraftOf, ThePlan, TheKey
<1>17. ASSUME NEW n \in 0 .. 2, SendPart(n) PROVE TypeOK' /\ Control'
  <2>1. TheMessage \in Message
    BY <1>17, CurrentMessage DEF SendPart
  <2>2. faults' \in 0 .. MaxFaults
    BY <1>17, FaultBound DEF SendPart
  <2>3. unacked' \in [Slot -> Nat] /\ copies' \in [Slot -> Nat]
    <3>1. n \in Nat /\ n + 1 \in Nat
      OBVIOUS
    <3>2. /\ [unacked EXCEPT ![<<TheKey, part>>] = @ + n] \in [Slot -> Nat]
          /\ [copies EXCEPT ![<<TheKey, part>>] = @ + (n + 1)] \in [Slot -> Nat]
      BY <3>1, CountUp DEF TypeOK
    <3> QED
      BY <1>17, <3>2 DEF SendPart, Accept
  <2>4. chat' \subseteq Message
    BY <1>17, <2>1 DEF SendPart, Accept, TypeOK
  <2> QED
    BY <1>17, <2>2, <2>3, <2>4 DEF SendPart, TypeOK, Control, DraftOf, ThePlan, TheKey
<1>18. ASSUME NEW n \in 0 .. 3, SendFails(n) PROVE TypeOK' /\ Control'
  <2>1. TheMessage \in Message
    BY <1>18, CurrentMessage DEF SendFails
  <2>2. faults' \in 0 .. MaxFaults
    BY <1>18, FaultBound DEF SendFails
  <2>3. unacked' \in [Slot -> Nat] /\ copies' \in [Slot -> Nat]
    <3>1. /\ [unacked EXCEPT ![<<TheKey, part>>] = @ + n] \in [Slot -> Nat]
          /\ [copies EXCEPT ![<<TheKey, part>>] = @ + n] \in [Slot -> Nat]
      BY n \in Nat, CountUp DEF TypeOK
    <3> QED
      BY <1>18, <3>1 DEF SendFails, Accept
  <2>4. chat' \subseteq Message
    BY <1>18, <2>1 DEF SendFails, Accept, TypeOK
  <2>5. /\ scope' = {} /\ todo' = {} /\ prepared' = {} /\ cur' = <<>>
        /\ job' = "text" /\ part' \in 0 .. MaxParts + 1 /\ deferred' = {}
    BY <1>18, BoundAssumption DEF SendFails, AbortBatch, ResetProcess
  <2> QED
    BY <1>18, <2>2, <2>3, <2>4, <2>5 DEF SendFails, AbortBatch, TypeOK, Control
<1>19. CASE Confirm
  <2>1. part \in 1 .. MaxParts /\ TheMessage \in Message
    BY <1>19, CurrentMessage DEF Confirm, Control
  <2>2. part' \in 0 .. MaxParts + 1 /\ part' >= 1
    BY <1>19, <2>1, BoundAssumption DEF Confirm
  <2>3. db' = [db EXCEPT !.receipt = WithReceipt(TheMessage)]
    BY <1>19 DEF Confirm
  <2>4. db' \in Db /\ db'.plan = db.plan
    BY <2>1, <2>3 DEF TypeOK, Db, WithReceipt
  <2> QED
    BY <1>19, <2>2, <2>4 DEF Confirm, TypeOK, Control, DraftOf, ThePlan, TheKey
<1>20. CASE WarningSent
  <2>1. part' \in 0 .. MaxParts + 1
    BY <1>20, BoundAssumption DEF WarningSent
  <2> QED
    BY <1>20, <2>1 DEF WarningSent, AllPartsSent, TypeOK, Control, DraftOf
<1>21. CASE RecordInbox
  <2>1. PICK u \in prepared : cur = <<u>>
    BY <1>21 DEF RecordInbox, AllPartsSent, Control
  <2>2. db' \in Db
    BY <1>21, <2>1 DEF RecordInbox, TypeOK, Db
  <2> QED
    BY <1>21, <2>1, <2>2 DEF RecordInbox, AllPartsSent, TypeOK, Control, DraftOf
<1>22. CASE MarkSeen
  <2>1. PICK u \in prepared : cur = <<u>>
    BY <1>22 DEF MarkSeen, Control
  <2>2. /\ mem' \in Json /\ disk' \in Json /\ mem'.draft = mem.draft
    BY <1>22, <2>1 DEF MarkSeen, Save, TypeOK, Json
  <2>3. part' \in 0 .. MaxParts + 1
    BY <1>22, BoundAssumption DEF MarkSeen
  <2> QED
    BY <1>22, <2>1, <2>2, <2>3 DEF MarkSeen, TypeOK, Control, DraftOf
<1>23. CASE UNCHANGED vars
  BY <1>23 DEF vars, TypeOK, Control, DraftOf, ThePlan, TheKey
<1> QED
  BY <1>1, <1>2, <1>3, <1>4, <1>5, <1>6, <1>7, <1>8, <1>9, <1>10, <1>11, <1>12,
     <1>13, <1>14, <1>15, <1>16, <1>17, <1>18, <1>19, <1>20, <1>21, <1>22, <1>23
  DEF Next, Scan, Gate, Deliver, Close, Prepare, Begin, Send

(* Every reachable state is well typed, and the control point agrees with  *)
(* the message being sent.                                                 *)
THEOREM TypeCorrect == Spec => []TypeOK
<1>1. Spec => [](TypeOK /\ Control)
  BY InitControl, NextControl, PTL DEF Spec
<1> QED
  BY <1>1, PTL
-----------------------------------------------------------------------------
(* SeenMeansShown and PartsInOrder: receipts are only written for parts    *)
(* that are in the chat, so skipping a confirmed part never leaves a hole, *)
(* and the loop counter knows which parts are there.                       *)
Sent(k, p, c) == [key |-> k, part |-> p, cap |-> c] \in chat

Progress ==
  /\ db.receipt \subseteq chat /\ dbCache.receipt \subseteq chat
  /\ pc \in {"send", "confirm"} => \A p \in 1 .. part - 1 : Sent(TheKey, p, ThePlan)
  /\ pc = "confirm" => TheMessage \in chat
  /\ pc = "mark" => Shown(cur[1])

(* The chat and the record of discarded posts only grow.                   *)
LEMMA Monotone == [Next]_vars => chat \subseteq chat' /\ dropped \subseteq dropped'
<1> SUFFICES ASSUME [Next]_vars PROVE chat \subseteq chat' /\ dropped \subseteq dropped'
  OBVIOUS
<1> USE DEF stores, process, history
<1>1. CASE StartRun \/ Scan \/ Gate \/ Deliver \/ ExitRun \/ Crash \/ Close
  BY <1>1 DEF StartRun, Scan, ScanComplete, ScanPartial, Gate, DeliveryGated, Deliver,
     DeliverPending, ExitRun, Crash, Close, CloseRun
<1>2. ASSUME NEW S \in SUBSET Update, FreshStart(S)
      PROVE chat \subseteq chat' /\ dropped \subseteq dropped'
  BY <1>2 DEF FreshStart
<1>3. ASSUME NEW u \in Update, RetireSource(u) \/ MediaFails(u)
      PROVE chat \subseteq chat' /\ dropped \subseteq dropped'
  BY <1>3 DEF RetireSource, MediaFails
<1>4. CASE Prepare \/ EndBatch \/ Begin \/ OpenPlan \/ SkipPart
  BY <1>4 DEF Prepare, PrepareGroup, EndBatch, Begin, BeginUpdate, OpenPlan, SkipPart
<1>5. CASE Send \/ \E n \in 0 .. 3 : SendFails(n)
  BY <1>5 DEF Send, SendPart, SendFails, Accept
<1>6. CASE Confirm \/ WarningSent \/ RecordInbox \/ MarkSeen
  BY <1>6 DEF Confirm, WarningSent, RecordInbox, MarkSeen
<1>7. CASE UNCHANGED vars
  BY <1>7 DEF vars
<1> QED
  BY <1>1, <1>2, <1>3, <1>4, <1>5, <1>6, <1>7 DEF Next

(* What was shown stays shown.                                             *)
LEMMA ShownStays ==
  ASSUME chat \subseteq chat', NEW u, Shown(u)
  PROVE  Shown(u)'
  BY DEF Shown

(* Where a seen mark of the next state comes from: an older copy of the    *)
(* state, a fresh start, or mark_seen of the update that was just sent.    *)
LEMMA SeenOrigin ==
  ASSUME TypeOK, [Next]_vars, NEW j \in JsonCopies', NEW u \in j.seen
  PROVE  \/ u \in dropped'
         \/ \E i \in JsonCopies : u \in i.seen
         \/ MarkSeen /\ u = cur[1]
<1> USE DEF stores, process, history, JsonCopies
<1>1. CASE StartRun
  BY <1>1 DEF StartRun
<1>2. ASSUME NEW S \in SUBSET Update, FreshStart(S)
      PROVE u \in dropped' \/ \E i \in JsonCopies : u \in i.seen
  <2>1. mem'.seen = mem.seen \cup mem.pending /\ disk' = mem' /\ cache' = cache
    BY <1>2 DEF FreshStart, Save, TypeOK, Json
  <2>2. mem.pending \ mem.seen \subseteq dropped'
    BY <1>2 DEF FreshStart
  <2> QED
    BY <2>1, <2>2
<1>3. ASSUME NEW S \in SUBSET Update, ScanComplete(S) \/ ScanPartial(S)
      PROVE \E i \in JsonCopies : u \in i.seen
  BY <1>3 DEF ScanComplete, ScanPartial, TypeOK, Json
<1>4. CASE Gate
  BY <1>4 DEF Gate, DeliveryGated, Purged, TypeOK, Json
<1>5. ASSUME NEW S \in SUBSET Update, DeliverPending(S)
      PROVE \E i \in JsonCopies : u \in i.seen
  BY <1>5 DEF DeliverPending, AfterPeek, Purged, TypeOK, Json
<1>6. CASE ExitRun \/ Crash \/ EndBatch
  <2>1. mem'.seen \in {mem.seen, disk.seen} /\ disk'.seen \in {mem.seen, disk.seen}
        /\ cache' = cache
    BY <1>6 DEF ExitRun, Save, Crash, EndBatch, TypeOK, Json
  <2> QED
    BY <2>1
<1>7. CASE Close
  BY <1>7 DEF Close, CloseRun
<1>8. ASSUME NEW v \in Update, RetireSource(v) \/ MediaFails(v)
      PROVE \E i \in JsonCopies : u \in i.seen
  BY <1>8 DEF RetireSource, MediaFails
<1>9. ASSUME NEW v \in Update, NEW S \in SUBSET Update, NEW n \in 1 .. MaxParts,
             PrepareGroup(v, S, n)
      PROVE \E i \in JsonCopies : u \in i.seen
  <2>1. PICK d : mem' = [mem EXCEPT !.draft = d] /\ disk' = mem' /\ cache' = cache
    BY <1>9 DEF PrepareGroup, Save
  <2>2. mem'.seen = mem.seen
    BY <2>1 DEF TypeOK, Json
  <2> QED
    BY <2>1, <2>2
<1>10. CASE Begin \/ OpenPlan \/ SkipPart \/ Send \/ \E n \in 0 .. 3 : SendFails(n)
  BY <1>10 DEF Begin, BeginUpdate, OpenPlan, SkipPart, Send, SendPart, SendFails
<1>11. CASE Confirm \/ WarningSent \/ RecordInbox
  BY <1>11 DEF Confirm, WarningSent, RecordInbox
<1>12. CASE MarkSeen
  BY <1>12 DEF MarkSeen, Save, TypeOK, Json
<1>13. CASE UNCHANGED vars
  BY <1>13 DEF vars
<1> QED
  BY <1>1, <1>2, <1>3, <1>4, <1>5, <1>6, <1>7, <1>8, <1>9, <1>10, <1>11, <1>12, <1>13
  DEF Next, Scan, Deliver, Prepare

(* The loop counter, the receipts and the chat agree after every step.     *)
LEMMA NextProgress ==
  ASSUME TypeOK, Control, Progress, PartsInOrder, [Next]_vars
  PROVE  Progress' /\ PartsInOrder'
<1> USE DEF stores, process, history, Goto
<1>1. CASE UNCHANGED <<chat, db, dbCache>> /\ pc' \notin {"send", "confirm", "mark"}
  BY <1>1 DEF Progress, PartsInOrder
<1>2. CASE StartRun \/ Scan \/ Gate \/ Deliver \/ ExitRun \/ Crash
  <2>1. UNCHANGED <<chat, db, dbCache>> /\ pc' \notin {"send", "confirm", "mark"}
    BY <1>2 DEF StartRun, Scan, ScanComplete, ScanPartial, Gate, DeliveryGated, Deliver,
       DeliverPending, ExitRun, Crash
  <2> QED
    BY <2>1, <1>1
<1>3. CASE Prepare \/ EndBatch \/ Begin
  <2>1. UNCHANGED <<chat, db, dbCache>> /\ pc' \notin {"send", "confirm", "mark"}
    BY <1>3 DEF Prepare, PrepareGroup, EndBatch, AbortBatch, Begin, BeginUpdate
  <2> QED
    BY <2>1, <1>1
<1>4. CASE \/ \E S \in SUBSET Update : FreshStart(S)
           \/ \E u \in Update : RetireSource(u) \/ MediaFails(u)
  <2>1. UNCHANGED <<chat, db, dbCache>> /\ pc' \notin {"send", "confirm", "mark"}
    BY <1>4 DEF FreshStart, RetireSource, MediaFails, AbortBatch
  <2> QED
    BY <2>1, <1>1
<1>5. CASE Close
  BY <1>5 DEF Close, CloseRun, Progress, PartsInOrder
<1>6. CASE OpenPlan
  <2>1. part' = 1 /\ pc' = "send" /\ chat' = chat /\ dbCache' = dbCache
    BY <1>6 DEF OpenPlan
  <2>2. db'.receipt = db.receipt
    BY <1>6 DEF OpenPlan, TypeOK, Db
  <2> QED
    BY <2>1, <2>2 DEF Progress, PartsInOrder
<1>7. CASE SkipPart
  <2>1. /\ part \in 1 .. MaxParts /\ TheMessage \in chat
    BY <1>7, CurrentMessage DEF SkipPart, Progress
  <2>2. \A p \in 1 .. part : Sent(TheKey, p, ThePlan)
    BY <1>7, <2>1 DEF SkipPart, Progress, Sent, TheMessage
  <2>3. /\ part' - 1 = part /\ TheKey' = TheKey /\ ThePlan' = ThePlan
    BY <1>7, <2>1 DEF SkipPart, TheKey, ThePlan
  <2>4. \A p \in 1 .. part' - 1 : Sent(TheKey', p, ThePlan')
    BY <2>2, <2>3
  <2> QED
    BY <1>7, <2>4 DEF SkipPart, Progress, PartsInOrder, Sent
<1>8. ASSUME chat' = chat \cup {TheMessage} \/ chat' = chat,
             pc = "send", part <= ThePlan.len
      PROVE PartsInOrder'
  <2>1. \A p \in 1 .. part - 1 : Sent(TheKey, p, ThePlan)
    BY <1>8 DEF Progress
  <2>2. TheMessage \in Message /\ part \in 1 .. MaxParts
    BY <1>8, CurrentMessage
  <2>3. \A p \in 1 .. part : [TheMessage EXCEPT !.part = p] \in chat \cup {TheMessage}
    BY <2>1, <2>2 DEF Sent, TheMessage
  <2>4. TheMessage.part = part
    BY DEF TheMessage
  <2> QED
    BY <1>8, <2>3, <2>4 DEF PartsInOrder
<1>9. ASSUME NEW n \in 0 .. 2, SendPart(n) PROVE Progress' /\ PartsInOrder'
  <2>1. chat' = chat \cup {TheMessage}
    BY <1>9 DEF SendPart, Accept
  <2>2. PartsInOrder'
    BY <1>8, <1>9, <2>1 DEF SendPart
  <2>3. part' = part /\ TheKey' = TheKey /\ ThePlan' = ThePlan /\ TheMessage' = TheMessage
    BY <1>9 DEF SendPart, TheKey, ThePlan, TheMessage
  <2>4. \A p \in 1 .. part' - 1 : Sent(TheKey, p, ThePlan)'
    BY <1>9, <2>1, <2>3 DEF SendPart, Progress, Sent
  <2> QED
    BY <1>9, <2>1, <2>2, <2>3, <2>4 DEF SendPart, Progress
<1>10. ASSUME NEW n \in 0 .. 3, SendFails(n) PROVE Progress' /\ PartsInOrder'
  <2>1. chat' = chat \cup {TheMessage} \/ chat' = chat
    BY <1>10 DEF SendFails, Accept
  <2>2. PartsInOrder'
    BY <1>8, <1>10, <2>1 DEF SendFails
  <2> QED
    BY <1>10, <2>1, <2>2 DEF SendFails, AbortBatch, Progress
<1>11. CASE Confirm
  <2>1. part \in 1 .. MaxParts /\ TheMessage \in chat
    BY <1>11, CurrentMessage DEF Confirm, Control, Progress
  <2>2. db' = [db EXCEPT !.receipt = WithReceipt(TheMessage)]
    BY <1>11 DEF Confirm
  <2>3. db'.receipt = WithReceipt(TheMessage) /\ db'.plan = db.plan
    BY <2>2 DEF TypeOK, Db
  <2>4. db'.receipt \subseteq chat
    BY <2>1, <2>3 DEF WithReceipt, Progress
  <2>5. part' = part + 1 /\ TheKey' = TheKey /\ ThePlan' = ThePlan
    BY <1>11, <2>3 DEF Confirm, TheKey, ThePlan
  <2>6. \A p \in 1 .. part : Sent(TheKey, p, ThePlan)
    BY <1>11, <2>1 DEF Confirm, Progress, Sent, TheMessage
  <2>7. \A p \in 1 .. part' - 1 : Sent(TheKey', p, ThePlan')
    BY <2>1, <2>5, <2>6
  <2> QED
    BY <1>11, <2>4, <2>7 DEF Confirm, Progress, PartsInOrder, Sent
<1>12. CASE WarningSent
  <2>1. UNCHANGED <<chat, db, dbCache>> /\ pc' = "open"
    BY <1>12 DEF WarningSent
  <2> QED
    BY <2>1, <1>1
<1>13. CASE RecordInbox
  <2>1. PICK u \in prepared : cur = <<u>>
    BY <1>13 DEF RecordInbox, AllPartsSent, Control
  <2>2. TheKey \in DraftKeys /\ TheKey[3] = u /\ TheKey \in Keys
    BY <1>13, <2>1, KeyType DEF RecordInbox, TheKey, TypeOK
  <2>3. ThePlan \in Caption
    BY <1>13, <2>2 DEF RecordInbox, AllPartsSent, Control, ThePlan, TypeOK, Db
  <2>4. \A p \in 1 .. ThePlan.len : Sent(TheKey, p, ThePlan)
    BY <1>13, <2>3 DEF RecordInbox, AllPartsSent, Progress, TypeOK, Caption
  <2> DEFINE m == [key |-> TheKey, part |-> 1, cap |-> ThePlan]
  <2>5. m \in chat
    BY <2>3, <2>4 DEF Sent, Caption
  <2>6. \A p \in 1 .. m.cap.len : [m EXCEPT !.part = p] \in chat
    BY <2>4 DEF Sent
  <2>7. Shown(u)
    BY <2>2, <2>5, <2>6 DEF Shown
  <2>8. db'.receipt = db.receipt
    BY <1>13 DEF RecordInbox, TypeOK, Db
  <2> QED
    BY <1>13, <2>1, <2>7, <2>8 DEF RecordInbox, Progress, PartsInOrder, Shown
<1>14. CASE MarkSeen
  <2>1. UNCHANGED <<chat, db, dbCache>> /\ pc' \notin {"send", "confirm", "mark"}
    BY <1>14 DEF MarkSeen
  <2> QED
    BY <2>1, <1>1
<1>15. CASE UNCHANGED vars
  BY <1>15 DEF vars, Progress, PartsInOrder, Sent, TheKey, ThePlan, TheMessage, Shown
<1> QED
  BY <1>2, <1>3, <1>4, <1>5, <1>6, <1>7, <1>9, <1>10, <1>11, <1>12, <1>13, <1>14, <1>15
  DEF Next, Send

LEMMA NextSeenMeansShown ==
  ASSUME TypeOK, Progress, SeenMeansShown, [Next]_vars
  PROVE  SeenMeansShown'
<1> SUFFICES ASSUME NEW j \in JsonCopies', NEW u \in j.seen \ dropped'
             PROVE  Shown(u)'
  BY DEF SeenMeansShown
<1>1. chat \subseteq chat' /\ dropped \subseteq dropped'
  BY Monotone
<1>2. CASE \E i \in JsonCopies : u \in i.seen
  BY <1>1, <1>2, ShownStays DEF SeenMeansShown
<1>3. CASE MarkSeen /\ u = cur[1]
  BY <1>1, <1>3, ShownStays DEF MarkSeen, Progress
<1> QED
  BY <1>2, <1>3, SeenOrigin

(* No copy of the state calls a post seen before all parts of its review   *)
(* message were in the chat; and the parts of every message appeared in    *)
(* order.  Both hold whatever is interrupted, lost or replayed.            *)
THEOREM DeliverySound == Spec => []SeenMeansShown /\ []PartsInOrder
<1> DEFINE IInv == TypeOK /\ Control /\ Progress /\ PartsInOrder /\ SeenMeansShown
<1>1. Init => IInv
  <2> SUFFICES ASSUME Init PROVE Progress /\ PartsInOrder /\ SeenMeansShown
    BY InitControl
  <2> QED
    BY DEF Init, EmptyDb, EmptyJson, Progress, PartsInOrder, SeenMeansShown, JsonCopies
<1>2. IInv /\ [Next]_vars => IInv'
  BY NextControl, NextProgress, NextSeenMeansShown
<1> QED
  BY <1>1, <1>2, PTL DEF Spec
-----------------------------------------------------------------------------
(* NoSilentMiss, one copy of the state at a time.                          *)
Accounted(j) == j.covered \subseteq j.pending \cup j.seen \cup j.quarantined \cup dropped

(* A step that gives no copy of the state a new content keeps the balance. *)
LEMMA CopiesKeepBalance ==
  ASSUME NoSilentMiss, dropped \subseteq dropped', JsonCopies' \subseteq JsonCopies
  PROVE  NoSilentMiss'
  BY DEF NoSilentMiss

LEMMA NextNoSilentMiss ==
  ASSUME TypeOK, NoSilentMiss, [Next]_vars
  PROVE  NoSilentMiss'
<1> USE DEF stores, process, history
<1>a. dropped \subseteq dropped'
  BY Monotone
<1>b. Accounted(mem) /\ Accounted(disk) /\ Accounted(cache)
  BY DEF NoSilentMiss, JsonCopies, Accounted
<1>c. ASSUME Accounted(mem)', disk' \in {disk, mem'}, cache' = cache
      PROVE NoSilentMiss'
  BY <1>a, <1>b, <1>c DEF NoSilentMiss, JsonCopies, Accounted
<1>1. CASE StartRun \/ ExitRun \/ Crash \/ Close
  <2>1. JsonCopies' \subseteq JsonCopies
    BY <1>1 DEF StartRun, ExitRun, Save, Crash, Close, CloseRun, JsonCopies
  <2> QED
    BY <1>a, <2>1, CopiesKeepBalance
<1>2. ASSUME NEW S \in SUBSET Update, FreshStart(S) PROVE NoSilentMiss'
  <2>1. /\ mem'.covered = mem.covered \cup S /\ mem'.seen = mem.seen \cup mem.pending
        /\ mem'.quarantined = mem.quarantined /\ disk' = mem' /\ cache' = cache
    BY <1>2 DEF FreshStart, Save, TypeOK, Json
  <2>2. S \ (mem.seen \cup mem.quarantined) \subseteq dropped'
    BY <1>2 DEF FreshStart
  <2> QED
    BY <1>a, <1>b, <1>c, <2>1, <2>2 DEF Accounted
<1>3. ASSUME NEW S \in SUBSET Update, ScanComplete(S) \/ ScanPartial(S) PROVE NoSilentMiss'
  <2>1. /\ mem'.covered \subseteq mem.covered \cup (S \ retired)
        /\ mem'.pending = mem.pending \cup ((S \ mem.seen) \ retired)
        /\ mem'.seen = mem.seen /\ mem'.quarantined = mem.quarantined
        /\ mem'.covered = mem.covered \/ mem'.covered = mem.covered \cup (S \ retired)
        /\ disk' = disk /\ cache' = cache
    BY <1>3 DEF ScanComplete, ScanPartial, TypeOK, Json
  <2> QED
    BY <1>a, <1>b, <1>c, <2>1 DEF Accounted
<1>4. CASE Gate \/ Deliver
  <2>1. /\ mem'.covered = mem.covered /\ mem'.seen = mem.seen
        /\ mem'.quarantined = mem.quarantined \cup (mem.pending \cap retired)
        /\ mem'.pending = mem.pending \ retired
           \/ mem'.pending = (mem.pending \ retired) \ mem.seen
        /\ disk' = disk /\ cache' = cache
    BY <1>4 DEF Gate, DeliveryGated, Deliver, DeliverPending, AfterPeek, Purged,
       PeekedQueue, TypeOK, Json
  <2> QED
    BY <1>a, <1>b, <1>c, <2>1 DEF Accounted
<1>5. CASE Prepare
  <2>1. PICK d : mem' = [mem EXCEPT !.draft = d] /\ disk' = mem' /\ cache' = cache
    BY <1>5 DEF Prepare, PrepareGroup, Save
  <2>2. /\ mem'.covered = mem.covered /\ mem'.pending = mem.pending
        /\ mem'.seen = mem.seen /\ mem'.quarantined = mem.quarantined
    BY <2>1 DEF TypeOK, Json
  <2> QED
    BY <1>a, <1>b, <1>c, <2>1, <2>2 DEF Accounted
<1>6. CASE EndBatch
  <2>1. /\ mem'.covered = mem.covered /\ mem'.pending = mem.pending
        /\ mem'.seen = mem.seen /\ mem'.quarantined = mem.quarantined
        /\ disk' = disk /\ cache' = cache
    BY <1>6 DEF EndBatch, TypeOK, Json
  <2> QED
    BY <1>a, <1>b, <1>c, <2>1 DEF Accounted
<1>7. CASE MarkSeen
  <2>1. /\ mem'.covered = mem.covered /\ mem'.pending = mem.pending
        /\ mem'.seen = mem.seen \cup {cur[1]} /\ mem'.quarantined = mem.quarantined
        /\ disk' = mem' /\ cache' = cache
    BY <1>7 DEF MarkSeen, Save, TypeOK, Json
  <2> QED
    BY <1>a, <1>b, <1>c, <2>1 DEF Accounted
<1>8. ASSUME UNCHANGED <<mem, disk, cache>> PROVE NoSilentMiss'
  BY <1>a, <1>8, CopiesKeepBalance DEF JsonCopies
<1>9. CASE \/ \E u \in Update : RetireSource(u) \/ MediaFails(u)
           \/ Begin \/ OpenPlan \/ SkipPart \/ Send \/ \E n \in 0 .. 3 : SendFails(n)
  BY <1>8, <1>9 DEF RetireSource, MediaFails, Begin, BeginUpdate, OpenPlan, SkipPart,
     Send, SendPart, SendFails
<1>10. CASE Confirm \/ WarningSent \/ RecordInbox \/ UNCHANGED vars
  BY <1>8, <1>10 DEF Confirm, WarningSent, RecordInbox, vars
<1> QED
  BY <1>1, <1>2, <1>3, <1>4, <1>5, <1>6, <1>7, <1>9, <1>10 DEF Next, Scan

(* A post of a configured source that the scan cursor passed is queued,    *)
(* seen, quarantined or deliberately discarded in every copy of the state. *)
THEOREM NothingMissed == Spec => []NoSilentMiss
<1>1. Init => NoSilentMiss
  BY DEF Init, EmptyJson, NoSilentMiss, JsonCopies
<1>2. TypeOK /\ NoSilentMiss /\ [Next]_vars => NoSilentMiss'
  BY NextNoSilentMiss
<1> QED
  BY <1>1, <1>2, TypeCorrect, PTL DEF Spec
-----------------------------------------------------------------------------
(***************************************************************************)
(* What the persisted plans, receipts and inbox rows are good for, as long *)
(* as the SQLite file of a finished run is never lost: one text per key,   *)
(* no repetition of a confirmed part, and an inbox row for every seen      *)
(* mark.  state.json may still fall back to an older copy at any time.     *)
(* The last part asks the opposite: while state.json is never lost, the    *)
(* module implements ReviewPromise, whatever becomes of the SQLite file.   *)
(***************************************************************************)

USE DEF stores, process, history

(* The steps that write to the SQLite file.                                *)
LEMMA DbWrites ==
  ASSUME TypeOK, [Next]_vars, "db" \notin CustodyLoss
  PROVE  \/ db' = db
         \/ OpenPlan /\ chat' = chat
         \/ Confirm /\ chat' = chat
         \/ RecordInbox /\ chat' = chat
<1>1. CASE StartRun \/ Scan \/ Gate \/ Deliver \/ ExitRun \/ Crash
  BY <1>1 DEF StartRun, Scan, ScanComplete, ScanPartial, Gate, DeliveryGated, Deliver,
     DeliverPending, ExitRun, Crash
<1>2. CASE Close
  <2>1. PICK lost \in SUBSET CustodyLoss : CloseRun(lost)
    BY <1>2 DEF Close
  <2>2. "db" \notin lost
    BY <2>1
  <2>3. QED
    BY <2>1, <2>2 DEF CloseRun
<1>3. ASSUME NEW S \in SUBSET Update, FreshStart(S) PROVE db' = db
  BY <1>3 DEF FreshStart
<1>4. ASSUME NEW u \in Update, RetireSource(u) \/ MediaFails(u) PROVE db' = db
  BY <1>4 DEF RetireSource, MediaFails
<1>5. CASE Prepare \/ EndBatch \/ Begin \/ SkipPart
  BY <1>5 DEF Prepare, PrepareGroup, EndBatch, Begin, BeginUpdate, SkipPart
<1>6. CASE Send \/ \E n \in 0 .. 3 : SendFails(n)
  BY <1>6 DEF Send, SendPart, SendFails
<1>7. CASE WarningSent \/ MarkSeen \/ UNCHANGED vars
  BY <1>7 DEF WarningSent, MarkSeen, vars
<1>8. CASE OpenPlan \/ Confirm \/ RecordInbox
  BY <1>8 DEF OpenPlan, Confirm, RecordInbox
<1>9. QED
  BY <1>1, <1>2, <1>3, <1>4, <1>5, <1>6, <1>7, <1>8 DEF Next

(* The steps that add to the chat, and what they add.                      *)
LEMMA ChatWrites ==
  ASSUME [Next]_vars
  PROVE  \/ chat' = chat
         \/ /\ pc = "send" /\ part <= ThePlan.len
            /\ chat' = chat \cup {TheMessage} /\ db' = db
<1>1. CASE StartRun \/ Scan \/ Gate \/ Deliver \/ ExitRun \/ Crash \/ Close
  BY <1>1 DEF StartRun, Scan, ScanComplete, ScanPartial, Gate, DeliveryGated, Deliver,
     DeliverPending, ExitRun, Crash, Close, CloseRun
<1>2. ASSUME NEW S \in SUBSET Update, FreshStart(S) PROVE chat' = chat
  BY <1>2 DEF FreshStart
<1>3. ASSUME NEW u \in Update, RetireSource(u) \/ MediaFails(u) PROVE chat' = chat
  BY <1>3 DEF RetireSource, MediaFails
<1>4. CASE Prepare \/ EndBatch \/ Begin \/ OpenPlan \/ SkipPart
  BY <1>4 DEF Prepare, PrepareGroup, EndBatch, Begin, BeginUpdate, OpenPlan, SkipPart
<1>5. CASE Send \/ \E n \in 0 .. 3 : SendFails(n)
  BY <1>5 DEF Send, SendPart, SendFails, Accept
<1>6. CASE Confirm \/ WarningSent \/ RecordInbox \/ MarkSeen \/ UNCHANGED vars
  BY <1>6 DEF Confirm, WarningSent, RecordInbox, MarkSeen, vars
<1>7. QED
  BY <1>1, <1>2, <1>3, <1>4, <1>5, <1>6 DEF Next
-----------------------------------------------------------------------------
(* OneTextPerKey: whatever is in the chat carries the persisted plan.      *)
PlanWins == \A m \in chat : m.cap = db.plan[m.key]

LEMMA NextPlanWins ==
  ASSUME TypeOK, Control, PlanWins, [Next]_vars, "db" \notin CustodyLoss
  PROVE  PlanWins'
<1>1. ASSUME db' = db, chat' = chat PROVE PlanWins'
  BY <1>1 DEF PlanWins
<1>2. CASE pc = "send" /\ part <= ThePlan.len /\ chat' = chat \cup {TheMessage} /\ db' = db
  BY <1>2 DEF PlanWins, TheMessage, ThePlan
<1>3. CASE OpenPlan /\ chat' = chat
  <2>1. db' = [db EXCEPT !.plan[TheKey] = PlanToSend] /\ db \in Db
    BY <1>3 DEF OpenPlan, TypeOK
  <2>2. ASSUME NEW m \in chat PROVE m.cap = db'.plan[m.key]
    <3>1. m.key \in Keys /\ m.cap \in Caption /\ m.cap = db.plan[m.key]
      BY <2>2 DEF PlanWins, TypeOK, Message
    <3>2. m.cap # NoCaption
      BY <3>1 DEF Caption, NoCaption
    <3>3. CASE m.key = TheKey
      <4>1. PlanToSend = db.plan[TheKey]
        BY <3>1, <3>2, <3>3 DEF PlanToSend, ThePlan
      <4>2. db'.plan[m.key] = PlanToSend
        BY <2>1, <3>1, <3>3 DEF Db
      <4>3. QED
        BY <3>1, <3>3, <4>1, <4>2
    <3>4. CASE m.key # TheKey
      <4>1. db'.plan[m.key] = db.plan[m.key]
        BY <2>1, <3>1, <3>4 DEF Db
      <4>2. QED
        BY <3>1, <4>1
    <3>5. QED
      BY <3>3, <3>4
  <2>3. QED
    BY <1>3, <2>2 DEF PlanWins
<1>4. CASE (Confirm \/ RecordInbox) /\ chat' = chat
  <2>1. db'.plan = db.plan
    BY <1>4 DEF Confirm, RecordInbox, TypeOK, Db
  <2>2. QED
    BY <1>4, <2>1 DEF PlanWins
<1>5. QED
  BY <1>1, <1>2, <1>3, <1>4, DbWrites, ChatWrites
-----------------------------------------------------------------------------
(* InboxBeforeSeen, for all copies of the state.                           *)
Listed ==
  /\ \A j \in JsonCopies : j.seen \ dropped \subseteq db.inbox
  /\ pc = "mark" => cur[1] \in db.inbox

LEMMA NextListed ==
  ASSUME TypeOK, Listed, [Next]_vars, "db" \notin CustodyLoss
  PROVE  Listed'
<1>1. dropped \subseteq dropped'
  BY Monotone
<1>2. db.inbox \subseteq db'.inbox
  <2>1. CASE OpenPlan
    BY <2>1 DEF OpenPlan, TypeOK, Db
  <2>2. CASE Confirm
    BY <2>2 DEF Confirm, TypeOK, Db
  <2>3. CASE RecordInbox
    BY <2>3 DEF RecordInbox, TypeOK, Db
  <2>4. QED
    BY <2>1, <2>2, <2>3, DbWrites
<1>3. ASSUME NEW j \in JsonCopies', NEW u \in j.seen, u \notin dropped' PROVE u \in db'.inbox
  <2>1. CASE \E i \in JsonCopies : u \in i.seen
    BY <1>1, <1>2, <1>3, <2>1 DEF Listed
  <2>2. CASE MarkSeen /\ u = cur[1]
    BY <1>2, <2>2 DEF MarkSeen, Listed
  <2>3. QED
    BY <1>3, <2>1, <2>2, SeenOrigin
<1>4. ASSUME pc' = "mark" PROVE RecordInbox \/ (pc = "mark" /\ cur' = cur)
  <2>1. CASE StartRun \/ Scan \/ Gate \/ Deliver \/ ExitRun \/ Crash \/ Close
    BY <1>4, <2>1 DEF StartRun, Scan, ScanComplete, ScanPartial, Gate, DeliveryGated, Deliver,
       DeliverPending, ExitRun, Crash, Close, CloseRun, Goto
  <2>2. ASSUME NEW S \in SUBSET Update, FreshStart(S) PROVE pc = "mark" /\ cur' = cur
    BY <1>4, <2>2 DEF FreshStart
  <2>3. ASSUME NEW u \in Update, RetireSource(u) \/ MediaFails(u) PROVE FALSE
    BY <1>4, <2>3 DEF RetireSource, MediaFails, AbortBatch, Goto
  <2>4. CASE Prepare \/ EndBatch \/ Begin \/ OpenPlan \/ SkipPart
    BY <1>4, <2>4 DEF Prepare, PrepareGroup, EndBatch, Begin, BeginUpdate, OpenPlan, SkipPart,
       AbortBatch, Goto
  <2>5. CASE Send \/ \E n \in 0 .. 3 : SendFails(n)
    BY <1>4, <2>5 DEF Send, SendPart, SendFails, AbortBatch, Goto
  <2>6. CASE Confirm \/ WarningSent \/ MarkSeen \/ UNCHANGED vars
    BY <1>4, <2>6 DEF Confirm, WarningSent, MarkSeen, Goto, vars
  <2>7. QED
    BY <1>4, <2>1, <2>2, <2>3, <2>4, <2>5, <2>6 DEF Next
<1>5. ASSUME pc' = "mark" PROVE cur'[1] \in db'.inbox
  <2>1. CASE RecordInbox
    BY <2>1 DEF RecordInbox, TypeOK, Db
  <2>2. CASE pc = "mark" /\ cur' = cur
    BY <1>2, <2>2 DEF Listed
  <2>3. QED
    BY <1>4, <1>5, <2>1, <2>2
<1>6. QED
  BY <1>3, <1>5 DEF Listed
-----------------------------------------------------------------------------
(* BoundedDuplicates: an accept is either owed to a receipt, or about to   *)
(* get one, or counted as unacknowledged.                                  *)
Receipted(s) == \E m \in db.receipt : m.key = s[1] /\ m.part = s[2]

InFlight(s) == pc = "confirm" /\ s = <<TheKey, part>>

Counted == \A s \in Slot :
  copies[s] <= unacked[s] + (IF Receipted(s) \/ InFlight(s) THEN 1 ELSE 0)

LEMMA Numbers ==
  ASSUME TypeOK
  PROVE  \A s \in Slot : copies[s] \in Nat /\ unacked[s] \in Nat
BY DEF TypeOK

(* The slot of the part being sent, which has no receipt of another text.  *)
LEMMA CurrentSlot ==
  ASSUME TypeOK, Control, Progress, PlanWins, pc \in {"send", "confirm"}, part <= ThePlan.len
  PROVE  /\ <<TheKey, part>> \in Slot
         /\ TheMessage \notin db.receipt => ~Receipted(<<TheKey, part>>)
<1>1. TheKey \in Keys /\ part \in 1 .. MaxParts
  BY CurrentMessage
<1>2. ASSUME NEW m \in db.receipt, m.key = TheKey, m.part = part PROVE m = TheMessage
  <2>1. m \in Message /\ m.cap = ThePlan
    BY <1>2 DEF Progress, PlanWins, ThePlan, TypeOK, Db
  <2>2. QED
    BY <1>2, <2>1 DEF TheMessage, Message
<1>3. QED
  BY <1>1, <1>2 DEF Slot, Receipted

LEMMA NextCounted ==
  ASSUME TypeOK, Control, Progress, PlanWins, Counted, [Next]_vars, "db" \notin CustodyLoss
  PROVE  Counted'
<1>1. ASSUME NEW n \in 0 .. 2, SendPart(n) PROVE Counted'
  <2> DEFINE s0 == <<TheKey, part>>
  <2>1. s0 \in Slot /\ ~Receipted(s0)
    BY <1>1, CurrentSlot DEF SendPart
  <2>2. /\ copies' = [copies EXCEPT ![s0] = @ + (n + 1)] /\ unacked' = [unacked EXCEPT ![s0] = @ + n]
        /\ pc = "send" /\ pc' = "confirm" /\ UNCHANGED <<db, scope, job, cur, part>>
    BY <1>1 DEF SendPart, Accept, Goto
  <2>3. \A s \in Slot : (Receipted(s)' <=> Receipted(s)) /\ ~InFlight(s)
    BY <2>2 DEF Receipted, InFlight
  <2>7. \A s \in Slot : InFlight(s)' <=> (s = s0)
    BY <2>2 DEF InFlight, TheKey
  <2> HIDE DEF s0
  <2>4. ASSUME NEW s \in Slot, s = s0
        PROVE  copies'[s] <= unacked'[s] + (IF Receipted(s)' \/ InFlight(s)' THEN 1 ELSE 0)
    <3>1. ~Receipted(s) /\ ~InFlight(s) /\ InFlight(s)'
      BY <2>1, <2>3, <2>4, <2>7
    <3>2. copies'[s] = copies[s] + (n + 1) /\ unacked'[s] = unacked[s] + n
      BY <2>1, <2>2, <2>4 DEF TypeOK
    <3>3. copies[s] \in Nat /\ unacked[s] \in Nat
      BY Numbers
    <3>4. copies[s] <= unacked[s] + 0
      BY <3>1 DEF Counted
    <3>5. QED
      BY <3>1, <3>2, <3>3, <3>4
  <2>5. ASSUME NEW s \in Slot, s # s0
        PROVE  copies'[s] <= unacked'[s] + (IF Receipted(s)' \/ InFlight(s)' THEN 1 ELSE 0)
    <3>1. copies'[s] = copies[s] /\ unacked'[s] = unacked[s]
      BY <2>1, <2>2, <2>5 DEF TypeOK
    <3>2. (Receipted(s)' <=> Receipted(s)) /\ ~InFlight(s)' /\ ~InFlight(s)
      BY <2>3, <2>5, <2>7
    <3>3. QED
      BY <3>1, <3>2 DEF Counted
  <2>6. QED
    BY <2>4, <2>5 DEF Counted
<1>2. ASSUME NEW n \in 0 .. 3, SendFails(n) PROVE Counted'
  <2> DEFINE s0 == <<TheKey, part>>
  <2>1. s0 \in Slot /\ ~Receipted(s0)
    BY <1>2, CurrentSlot DEF SendFails
  <2>2. /\ copies' = [copies EXCEPT ![s0] = @ + n] /\ unacked' = [unacked EXCEPT ![s0] = @ + n]
        /\ pc = "send" /\ pc' = "wait" /\ db' = db
    BY <1>2 DEF SendFails, Accept, AbortBatch, Goto
  <2>3. \A s \in Slot : (Receipted(s)' <=> Receipted(s)) /\ ~InFlight(s)' /\ ~InFlight(s)
    BY <2>2 DEF Receipted, InFlight
  <2> HIDE DEF s0
  <2>4. ASSUME NEW s \in Slot
        PROVE  copies'[s] <= unacked'[s] + (IF Receipted(s)' \/ InFlight(s)' THEN 1 ELSE 0)
    <3>1. copies[s] <= unacked[s] + (IF Receipted(s) \/ InFlight(s) THEN 1 ELSE 0)
      BY DEF Counted
    <3>2. \E k \in Nat : copies'[s] = copies[s] + k /\ unacked'[s] = unacked[s] + k
      <4>1. CASE s = s0
        BY <2>1, <2>2, <4>1 DEF TypeOK
      <4>2. CASE s # s0
        <5>1. copies'[s] = copies[s] + 0 /\ unacked'[s] = unacked[s] + 0
          BY <2>1, <2>2, <4>2, Numbers DEF TypeOK
        <5>2. QED
          BY <5>1
      <4>3. QED
        BY <4>1, <4>2
    <3>3. copies[s] \in Nat /\ unacked[s] \in Nat
      BY Numbers
    <3>4. QED
      BY <2>3, <3>1, <3>2, <3>3
  <2>5. QED
    BY <2>4 DEF Counted
<1>3. ASSUME Confirm PROVE Counted'
  <2> DEFINE s0 == <<TheKey, part>>
  <2>1. s0 \in Slot
    BY <1>3, CurrentSlot DEF Confirm, Control
  <2>2. /\ copies' = copies /\ unacked' = unacked /\ pc = "confirm" /\ pc' = "send"
        /\ db' = [db EXCEPT !.receipt = WithReceipt(TheMessage)]
    BY <1>3 DEF Confirm, Goto
  <2>3. db'.receipt = WithReceipt(TheMessage)
    BY <2>2 DEF TypeOK, Db
  <2>4. TheMessage.key = TheKey /\ TheMessage.part = part
    BY DEF TheMessage
  <2>5. \A s \in Slot : Receipted(s) \/ InFlight(s) => Receipted(s)'
    BY <2>3, <2>4 DEF Receipted, InFlight, WithReceipt
  <2>6. \A s \in Slot : ~InFlight(s)'
    BY <2>2 DEF InFlight
  <2>7. QED
    BY <2>2, <2>5, <2>6, Numbers DEF Counted
<1>4. ASSUME Crash PROVE Counted'
  <2>1. copies' = copies /\ db' = db /\ pc' = "closing"
    BY <1>4 DEF Crash, Goto
  <2>2. \A s \in Slot : (Receipted(s)' <=> Receipted(s)) /\ ~InFlight(s)'
    BY <2>1 DEF Receipted, InFlight
  <2>3. CASE pc # "confirm"
    <3>1. unacked' = unacked /\ \A s \in Slot : ~InFlight(s)
      BY <1>4, <2>3 DEF Crash, InFlight
    <3>2. QED
      BY <2>1, <2>2, <3>1 DEF Counted
  <2>4. CASE pc = "confirm"
    <3> DEFINE s0 == <<TheKey, part>>
    <3>1. s0 \in Slot
      BY <2>4, CurrentSlot DEF Control
    <3>2. unacked' = [unacked EXCEPT ![s0] = @ + 1]
      BY <1>4, <2>4 DEF Crash, TheKey
    <3>3. \A s \in Slot : InFlight(s) <=> s = s0
      BY <2>4 DEF InFlight
    <3> HIDE DEF s0
    <3>4. \A s \in Slot : unacked'[s] = unacked[s] + (IF s = s0 THEN 1 ELSE 0)
      BY <3>1, <3>2, Numbers DEF TypeOK
    <3>5. QED
      BY <2>1, <2>2, <3>3, <3>4, Numbers DEF Counted
  <2>5. QED
    BY <2>3, <2>4
<1>5. ASSUME UNCHANGED <<copies, unacked>>, db'.receipt = db.receipt, pc # "confirm", pc' # "confirm"
      PROVE  Counted'
  BY <1>5 DEF Counted, Receipted, InFlight
<1>6. CASE StartRun \/ Scan \/ Gate \/ Deliver \/ ExitRun \/ Close
  <2>1. UNCHANGED <<copies, unacked>> /\ db' = db /\ pc # "confirm" /\ pc' # "confirm"
    BY <1>6, DbWrites DEF StartRun, Scan, ScanComplete, ScanPartial, Gate, DeliveryGated, Deliver,
       DeliverPending, ExitRun, Close, CloseRun, OpenPlan, Confirm, RecordInbox, Goto
  <2>2. QED
    BY <1>5, <2>1
<1>7. ASSUME NEW S \in SUBSET Update, FreshStart(S) PROVE Counted'
  BY <1>5, <1>7 DEF FreshStart
<1>8. ASSUME NEW u \in Update, RetireSource(u) \/ MediaFails(u) PROVE Counted'
  BY <1>5, <1>8 DEF RetireSource, MediaFails, AbortBatch, Goto
<1>9. CASE Prepare \/ EndBatch \/ Begin \/ SkipPart
  BY <1>5, <1>9 DEF Prepare, PrepareGroup, EndBatch, Begin, BeginUpdate, SkipPart, AbortBatch, Goto
<1>10. CASE OpenPlan \/ RecordInbox
  <2>1. db'.receipt = db.receipt
    BY <1>10 DEF OpenPlan, RecordInbox, TypeOK, Db
  <2>2. QED
    BY <1>5, <1>10, <2>1 DEF OpenPlan, RecordInbox, AllPartsSent, Goto
<1>11. CASE WarningSent \/ MarkSeen
  BY <1>5, <1>11 DEF WarningSent, MarkSeen, AllPartsSent, Goto
<1>12. CASE UNCHANGED vars
  BY <1>12 DEF vars, Counted, Receipted, InFlight, TheKey
<1>13. QED
  BY <1>1, <1>2, <1>3, <1>4, <1>6, <1>7, <1>8, <1>9, <1>10, <1>11, <1>12 DEF Next, Send
-----------------------------------------------------------------------------
IInv ==
  /\ TypeOK /\ Control /\ Progress /\ PartsInOrder
  /\ "db" \notin CustodyLoss => PlanWins /\ Listed /\ Counted

LEMMA InitIInv == Init => IInv
<1> SUFFICES ASSUME Init PROVE IInv
  OBVIOUS
<1>1. Progress /\ PartsInOrder
  BY DEF Init, EmptyDb, Progress, PartsInOrder
<1>2. PlanWins /\ Listed
  BY DEF Init, EmptyJson, PlanWins, Listed, JsonCopies
<1>3. Counted
  <2>1. ASSUME NEW s \in Slot PROVE copies[s] = 0 /\ unacked[s] = 0
    BY <2>1 DEF Init
  <2>2. QED
    BY <2>1 DEF Counted
<1>4. QED
  BY <1>1, <1>2, <1>3, InitControl DEF IInv

LEMMA Inductive == Spec => []IInv
<1>1. IInv /\ [Next]_vars => IInv'
  BY NextControl, NextProgress, NextPlanWins, NextListed, NextCounted DEF IInv
<1>2. QED
  BY <1>1, InitIInv, PTL DEF Spec

(* All parts sent under one delivery key belong to one text: a caption     *)
(* that was written again never mixes with the one already sent.           *)
THEOREM TextsNeverMix == Spec => []OneTextPerKey
<1>1. IInv => OneTextPerKey
  BY DEF IInv, PlanWins, OneTextPerKey
<1>2. QED
  BY <1>1, Inductive, PTL

(* A part is sent again only to make up for an accept without a receipt.   *)
THEOREM NoNeedlessCopies == Spec => []BoundedDuplicates
<1>1. IInv => BoundedDuplicates
  <2>1. ASSUME IInv, "db" \notin CustodyLoss, NEW s \in Slot PROVE copies[s] <= unacked[s] + 1
    <3>1. copies[s] <= unacked[s] + (IF Receipted(s) \/ InFlight(s) THEN 1 ELSE 0)
      BY <2>1 DEF IInv, Counted
    <3>2. copies[s] \in Nat /\ unacked[s] \in Nat
      BY <2>1, Numbers DEF IInv
    <3>3. QED
      BY <3>1, <3>2
  <2>2. QED
    BY <2>1 DEF BoundedDuplicates
<1>2. QED
  BY <1>1, Inductive, PTL

(* A post that state.json calls seen is listed in the review inbox.        *)
THEOREM SeenIsListed == Spec => []InboxBeforeSeen
<1>1. IInv => InboxBeforeSeen
  BY DEF IInv, Listed, InboxBeforeSeen, JsonCopies
<1>2. QED
  BY <1>1, Inductive, PTL

(* Whatever is marked seen was shown in full and stands in the inbox.      *)
THEOREM SeenEarned == Spec => []SeenIsEarned
<1>1. Spec => []SeenMeansShown /\ []InboxBeforeSeen
  BY DeliverySound, SeenIsListed
<1>2. SeenMeansShown /\ InboxBeforeSeen => SeenIsEarned
  BY DEF SeenIsEarned
<1>3. QED
  BY <1>1, <1>2, PTL
-----------------------------------------------------------------------------
(* KeepsPromise: the process is never behind the file it will replace, so  *)
(* each replacement of state.json is a checkpoint of the promise, and each *)
(* last part of a message shows a post.                                    *)
Ahead ==
  /\ disk.seen \subseteq mem.seen /\ disk.quarantined \subseteq mem.quarantined
  /\ disk.pending \subseteq mem.pending \cup mem.seen \cup mem.quarantined

(* What a step does to the rows of the process and of state.json: nothing, *)
(* a move forward in memory, a fall back to the file, or a move forward    *)
(* that is written at once, which only a fresh start uses to give up posts.*)
Forward ==
  /\ mem.seen \subseteq mem'.seen /\ mem.quarantined \subseteq mem'.quarantined
  /\ mem.pending \subseteq mem'.pending \cup mem'.seen \cup mem'.quarantined

LEMMA RowsMove ==
  ASSUME TypeOK, Control, [Next]_vars, "json" \notin CustodyLoss
  PROVE  \/ disk' = disk /\ dropped' = dropped /\ (Forward \/ mem' = disk)
         \/ /\ disk' = mem' /\ Forward /\ chat' = chat
            /\ dropped' = dropped \/ Outstanding(mem') = {}
<1>1. CASE StartRun \/ Crash
  BY <1>1 DEF StartRun, Crash
<1>2. CASE Close
  <2>1. PICK lost \in SUBSET CustodyLoss : CloseRun(lost)
    BY <1>2 DEF Close
  <2>2. "json" \notin lost
    BY <2>1
  <2>3. QED
    BY <2>1, <2>2 DEF CloseRun
<1>3. ASSUME NEW S \in SUBSET Update, FreshStart(S)
      PROVE  disk' = mem' /\ Forward /\ chat' = chat /\ Outstanding(mem') = {}
  <2>1. /\ mem'.seen = mem.seen \cup mem.pending /\ mem'.pending = {}
        /\ mem'.quarantined = mem.quarantined /\ disk' = mem'
    BY <1>3 DEF FreshStart, Save, TypeOK, Json
  <2>2. QED
    BY <1>3, <2>1 DEF FreshStart, Forward, Outstanding
<1>4. ASSUME NEW S \in SUBSET Update, ScanComplete(S) \/ ScanPartial(S)
      PROVE  disk' = disk /\ dropped' = dropped /\ Forward
  <2>1. /\ mem'.pending = mem.pending \cup ((S \ mem.seen) \ retired)
        /\ mem'.seen = mem.seen /\ mem'.quarantined = mem.quarantined
        /\ disk' = disk /\ dropped' = dropped
    BY <1>4 DEF ScanComplete, ScanPartial, TypeOK, Json
  <2>2. QED
    BY <2>1 DEF Forward
<1>5. CASE Gate \/ Deliver
  <2>1. /\ mem'.seen = mem.seen
        /\ mem'.quarantined = mem.quarantined \cup (mem.pending \cap retired)
        /\ mem'.pending = mem.pending \ retired
           \/ mem'.pending = (mem.pending \ retired) \ mem.seen
        /\ disk' = disk /\ dropped' = dropped
    BY <1>5 DEF Gate, DeliveryGated, Deliver, DeliverPending, AfterPeek, Purged,
       PeekedQueue, TypeOK, Json
  <2>2. QED
    BY <2>1 DEF Forward
<1>6. CASE ExitRun
  BY <1>6 DEF ExitRun, Save, Forward
<1>7. CASE Prepare
  <2>1. PICK d : mem' = [mem EXCEPT !.draft = d] /\ disk' = mem'
    BY <1>7 DEF Prepare, PrepareGroup, Save
  <2>2. mem'.pending = mem.pending /\ mem'.seen = mem.seen /\ mem'.quarantined = mem.quarantined
    BY <2>1 DEF TypeOK, Json
  <2>3. QED
    BY <1>7, <2>1, <2>2 DEF Forward, Prepare, PrepareGroup
<1>8. CASE EndBatch
  <2>1. /\ mem'.pending = mem.pending /\ mem'.seen = mem.seen
        /\ mem'.quarantined = mem.quarantined /\ disk' = disk /\ dropped' = dropped
    BY <1>8 DEF EndBatch, TypeOK, Json
  <2>2. QED
    BY <2>1 DEF Forward
<1>9. CASE MarkSeen
  <2>1. /\ mem'.pending = mem.pending /\ mem'.seen = mem.seen \cup {cur[1]}
        /\ mem'.quarantined = mem.quarantined /\ disk' = mem'
    BY <1>9 DEF MarkSeen, Save, TypeOK, Json
  <2>2. QED
    BY <1>9, <2>1 DEF MarkSeen, Forward
<1>10. ASSUME UNCHANGED <<mem, disk, dropped>>
       PROVE  disk' = disk /\ dropped' = dropped /\ Forward
  BY <1>10 DEF Forward
<1>11. CASE \/ \E u \in Update : RetireSource(u) \/ MediaFails(u)
            \/ Begin \/ OpenPlan \/ SkipPart \/ Send \/ \E n \in 0 .. 3 : SendFails(n)
  BY <1>10, <1>11 DEF RetireSource, MediaFails, Begin, BeginUpdate, OpenPlan, SkipPart,
     Send, SendPart, SendFails
<1>12. CASE Confirm \/ WarningSent \/ RecordInbox \/ UNCHANGED vars
  BY <1>10, <1>12 DEF Confirm, WarningSent, RecordInbox, vars
<1>13. QED
  BY <1>1, <1>2, <1>3, <1>4, <1>5, <1>6, <1>7, <1>8, <1>9, <1>11, <1>12 DEF Next, Scan

LEMMA NextAhead ==
  ASSUME TypeOK, Control, Ahead, [Next]_vars, "json" \notin CustodyLoss
  PROVE  Ahead'
<1>1. CASE disk' = disk /\ Forward
  BY <1>1 DEF Ahead, Forward
<1>2. CASE disk' = mem'
  BY <1>2 DEF Ahead
<1>3. QED
  BY <1>1, <1>2, RowsMove DEF Ahead

(* A part that reaches the chat completes the message of at most one post. *)
LEMMA OneIsShown ==
  ASSUME NEW m \in Message, chat' = chat \cup {m}
  PROVE  \A u, v \in Update : Shown(u)' /\ ~Shown(u) /\ Shown(v)' /\ ~Shown(v) => u = v
<1>1. ASSUME NEW u \in Update, Shown(u)', ~Shown(u) PROVE u = m.key[3]
  <2>1. PICK n \in chat' : /\ n.key \in DraftKeys /\ n.key[3] = u
                          /\ \A p \in 1 .. n.cap.len : [n EXCEPT !.part = p] \in chat'
    BY <1>1 DEF Shown
  <2>2. CASE n = m
    BY <2>1, <2>2
  <2>3. CASE n \in chat
    <3>1. PICK p \in 1 .. n.cap.len : [n EXCEPT !.part = p] \notin chat
      BY <1>1, <2>1, <2>3 DEF Shown
    <3>2. [n EXCEPT !.part = p] = m
      BY <2>1, <3>1
    <3>3. [n EXCEPT !.part = p].key = n.key
      OBVIOUS
    <3>4. QED
      BY <2>1, <3>2, <3>3
  <2>4. QED
    BY <2>1, <2>2, <2>3
<1>2. QED
  BY <1>1

AbstractShown == {u \in Update : Shown(u)}

(* A replacement of the file is a checkpoint: what it calls seen is done,  *)
(* what it quarantines or a fresh start discards is given up.              *)
LEMMA WriteIsCheckpoint ==
  ASSUME TypeOK, TypeOK', Ahead, SeenMeansShown', disk' = mem', Forward, chat' = chat,
         dropped \subseteq dropped', dropped' = dropped \/ Outstanding(mem') = {}
  PROVE  \E add, done, give \in SUBSET Update : Promise!Checkpoint(add, done, give)
<1> DEFINE give == (dropped' \ dropped) \cup (disk'.quarantined \ disk.quarantined)
           add  == Outstanding(disk')
           done == disk'.seen
<1>1. add \in SUBSET Update /\ done \in SUBSET Update /\ give \in SUBSET Update
  BY DEF TypeOK, Json, Outstanding
<1>2. \A u \in Update : Shown(u)' <=> Shown(u)
  BY DEF Shown
<1>3. done \subseteq {u \in Update : Shown(u)} \cup (dropped \cup disk.quarantined) \cup give
  BY <1>1, <1>2 DEF SeenMeansShown, JsonCopies
<1>4. Outstanding(disk') = ((Outstanding(disk) \cup add) \ done) \ give
  <2>1. add \cap done = {} /\ add \cap give = {}
    BY DEF Outstanding
  <2>2. Outstanding(disk) \subseteq disk'.pending \cup disk'.seen \cup disk'.quarantined
    BY DEF Ahead, Forward, Outstanding
  <2>3. Outstanding(disk) \subseteq add \cup done \cup give
    BY <2>2 DEF Outstanding
  <2>4. QED
    BY <2>1, <2>3
<1>5. disk'.seen = disk.seen \cup done
  BY DEF Ahead, Forward
<1>6. dropped' \cup disk'.quarantined = (dropped \cup disk.quarantined) \cup give
  BY DEF Ahead, Forward
<1>7. {u \in Update : Shown(u)}' = {u \in Update : Shown(u)}
  BY <1>2
<1>8. Promise!Checkpoint(add, done, give)
  BY <1>3, <1>4, <1>5, <1>6, <1>7 DEF Promise!Checkpoint
<1>9. QED
  BY <1>1, <1>8

LEMMA StepsKeepPromise ==
  ASSUME TypeOK, TypeOK', Control, Ahead, SeenMeansShown', [Next]_vars,
         "json" \notin CustodyLoss
  PROVE  [Promise!PNext]_(Promise!pvars)
<1>1. CASE disk' = mem' /\ Forward /\ chat' = chat
           /\ (dropped' = dropped \/ Outstanding(mem') = {})
  BY <1>1, Monotone, WriteIsCheckpoint DEF Promise!PNext
<1>2. CASE disk' = disk /\ dropped' = dropped
  <2>1. Outstanding(disk') = Outstanding(disk)
    BY <1>2
  <2>2. CASE AbstractShown' = AbstractShown
    BY <1>2, <2>1, <2>2 DEF Promise!pvars, AbstractShown
  <2>3. CASE AbstractShown' # AbstractShown
    <3>1. chat' # chat
      BY <2>3 DEF AbstractShown, Shown
    <3>2. chat' = chat \cup {TheMessage} /\ TheMessage \in Message
      BY <3>1, ChatWrites, CurrentMessage
    <3>3. AbstractShown \subseteq AbstractShown'
      BY <3>2, ShownStays DEF AbstractShown
    <3>4. PICK u \in Update : Shown(u)' /\ ~Shown(u)
      BY <2>3, <3>3 DEF AbstractShown
    <3>5. AbstractShown' = AbstractShown \cup {u}
      BY <3>2, <3>3, <3>4, OneIsShown DEF AbstractShown
    <3>6. Promise!Show(u)
      BY <1>2, <2>1, <3>5 DEF Promise!Show, AbstractShown
    <3>7. QED
      BY <3>6 DEF Promise!PNext
  <2>4. QED
    BY <2>2, <2>3
<1>3. QED
  BY <1>1, <1>2, RowsMove

(* The delivery machine implements the promise of the durable queue: as    *)
(* long as the cache of state.json is written after every run, each of its *)
(* steps shows a post, is one atomic checkpoint that settles only what was *)
(* shown or given up and forgets nothing else, or changes nothing of it.   *)
THEOREM PromiseKept ==
  ASSUME "json" \notin CustodyLoss
  PROVE  Spec => KeepsPromise
<1> DEFINE Inv == TypeOK /\ Control /\ Ahead
<1>1. Init => Inv
  BY InitControl DEF Init, Ahead
<1>2. Inv /\ [Next]_vars => Inv'
  BY NextControl, NextAhead
<1>3. Init => Promise!PInit
  BY DEF Init, Promise!PInit, EmptyJson, Outstanding, Shown
<1>4. Inv /\ Inv' /\ SeenMeansShown' /\ [Next]_vars => [Promise!PNext]_(Promise!pvars)
  BY StepsKeepPromise
<1>5. Spec => []SeenMeansShown
  BY DeliverySound, PTL
<1>6. QED
  BY <1>1, <1>2, <1>3, <1>4, <1>5, PTL DEF Spec, KeepsPromise, Promise!PSafety
=============================================================================
