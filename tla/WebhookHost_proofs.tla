-------------------------- MODULE WebhookHost_proofs --------------------------
(***************************************************************************)
(* Theorems about WebhookHost, for every number of commands and failures:  *)
(* nothing is done twice without a cause, and the copy in the chat keeps   *)
(* what it was given.  And about DateRequests, for any jobs, sources and   *)
(* posts: a bundle is what it says it is, and comes once.                  *)
(***************************************************************************)
EXTENDS WebhookHost, DateRequests, FiniteSetTheorems, WellFoundedInduction, TLAPS

USE HostConstants
USE DEF files, process, telegram, history, hostVars

Offsets == [next : 1 .. Commands + 1, tries : 0 .. Attempts - 1, posts : 0 .. 1]
ReminderStatuses == {"none", "pending", "told", "sent", "cancelled"}
Copy == [json : Offsets, rows : [Reminder -> ReminderStatuses]]
MaybeCopy == {<<>>} \cup {<<c>> : c \in Copy}

(* HostTypes, one variable at a time, with the types of the copies and of   *)
(* the history.                                                            *)
Places == {"down", "dead", "starting", "idle", "handling", "saving", "backing",
           "answering", "reminding", "scanning", "delivering"}

Typed ==
  /\ json \in Offsets /\ disk \in Copy /\ pinned \in MaybeCopy /\ backed \in MaybeCopy
  /\ left \in {"clean", "wal", "half"}
  /\ at \in Places /\ req \in 0 .. Commands /\ attempt \in 1 .. Attempts
  /\ due \subseteq Reminder
  /\ runner \in {"off", "polling"}
  /\ sent \in 0 .. Commands /\ acked \subseteq 1 .. sent /\ polled \subseteq 1 .. sent
  /\ hostFaults \in 0 .. HostFaults
  /\ finished \in [Command -> Nat] /\ forgot \in [Command -> Nat]
  /\ told \in [Reminder -> Nat] /\ unheard \in [Reminder -> Nat]
  /\ undone \in [Reminder -> Nat]
  /\ secured \subseteq Command

Flags ==
  /\ handled \in BOOLEAN /\ force \in BOOLEAN /\ lease \in BOOLEAN
  /\ wake \in BOOLEAN /\ hook \in BOOLEAN /\ wiped \in BOOLEAN

(* A command is handled only when the stored offset is not past it, and    *)
(* only one that was sent is answered.                                     *)
Turn ==
  /\ req <= sent
  /\ at = "answering" => req # 0
  /\ at = "handling" => req >= json.next

Basics == Typed /\ Turn

LEMMA CountedType ==
  ASSUME NEW D, NEW f \in [D -> Nat], NEW S
  PROVE  Counted(f, S) \in [D -> Nat]
BY DEF Counted

LEMMA MaybeLen == \A c \in MaybeCopy : Len(c) <= 1
<1> SUFFICES ASSUME NEW c \in MaybeCopy PROVE Len(c) <= 1
  OBVIOUS
<1>1. CASE c = <<>>
  BY <1>1
<1>2. ASSUME NEW d \in Copy, c = <<d>> PROVE Len(c) <= 1
  BY <1>2
<1>3. QED
  BY <1>1, <1>2 DEF MaybeCopy

LEMMA TypesFollow == Typed /\ Flags => HostTypes
<1> SUFFICES ASSUME Typed, Flags PROVE HostTypes
  OBVIOUS
<1>1. {handled, force, lease, wake, hook, wiped} \subseteq BOOLEAN
  BY DEF Flags
<1>2. Len(pinned) <= 1 /\ Len(backed) <= 1
  BY MaybeLen DEF Typed
<1>3. QED
  BY <1>1, <1>2 DEF Typed, HostTypes, Places, Copy, Offsets, ReminderStatuses

LEMMA FlagsHold == HostInit /\ [][HostNext]_hostVars => []Flags
<1>1. HostInit => Flags
  BY DEF HostInit, Flags
<1>2. ASSUME Flags, [HostNext]_hostVars PROVE Flags'
  <2> USE <1>2 DEF Flags
  <2>1. CASE Start \/ DieRestoring \/ Register \/ Crash \/ Stop
    BY <2>1 DEF Start, Load, DieRestoring, Register, Crash, Stop
  <2>2. CASE Save \/ Backup \/ SendCommand \/ Receive \/ Answer
    BY <2>2 DEF Save, Backup, BackedUp, SendCommand, Receive, Answer
  <2>3. CASE HandleDone \/ HandleRefused \/ HandleFailed \/ HandlePaused
    BY <2>3 DEF HandleDone, HandleRefused, HandleFailed, HandlePaused, HandledBy
  <2>4. CASE BeginPass \/ RemindNext \/ RemindFails \/ RemindedAll
    BY <2>4 DEF BeginPass, RemindNext, RemindFails, RemindedAll
  <2>5. CASE Scan \/ DeliverQueue \/ LeaseExpires \/ Wake \/ Inspect \/ Poll
    BY <2>5 DEF Scan, DeliverQueue, LeaseExpires, Wake, Inspect, Poll
  <2>6. CASE UNCHANGED hostVars
    BY <2>6
  <2>7. QED
    BY <2>1, <2>2, <2>3, <2>4, <2>5, <2>6 DEF HostNext
<1>3. QED
  BY <1>1, <1>2, PTL

LEMMA FaultType ==
  ASSUME hostFaults \in 0 .. HostFaults, Fault \/ NoFault
  PROVE  hostFaults' \in 0 .. HostFaults /\ hostFaults' >= hostFaults
BY DEF Fault, NoFault

LEMMA BlankType == Blank \in Copy
BY DEF Blank, Copy, Offsets, ReminderStatuses

LEMMA RowType ==
  ASSUME disk \in Copy, NEW r, NEW s \in ReminderStatuses
  PROVE  /\ WithRow(r, s) \in Copy /\ WithRow(r, s).json = disk.json
         /\ WithRow(r, s).rows = [disk.rows EXCEPT ![r] = s]
BY DEF WithRow, Copy

LEMMA RecordedType ==
  ASSUME disk \in Copy, NEW begun \in BOOLEAN
  PROVE  Recorded(begun) \in Copy /\ Recorded(begun).json = disk.json
BY RowType DEF Recorded, ReminderStatuses

LEMMA OffsetTypes ==
  ASSUME Typed, Turn, at = "handling"
  PROVE  /\ req \in Command /\ PastCommand \in Offsets
         /\ PastCommand.next = req + 1
         /\ json.tries + 1 < Attempts =>
              /\ [json EXCEPT !.tries = @ + 1] \in Offsets
              /\ [json EXCEPT !.tries = @ + 1].next = json.next
<1>1. json \in Offsets /\ req \in 0 .. Commands
  BY DEF Typed
<1>2. req \in Command
  BY <1>1 DEF Turn, Offsets, Command
<1>3. PastCommand \in Offsets /\ PastCommand.next = req + 1
  <2>1. req + 1 \in 1 .. Commands + 1 /\ 0 \in 0 .. Attempts - 1
    BY <1>2 DEF Command
  <2>2. QED
    BY <1>1, <2>1 DEF PastCommand, Offsets
<1>4. ASSUME json.tries + 1 < Attempts
      PROVE  /\ [json EXCEPT !.tries = @ + 1] \in Offsets
             /\ [json EXCEPT !.tries = @ + 1].next = json.next
  BY <1>1, <1>4 DEF Offsets
<1>5. QED
  BY <1>2, <1>3, <1>4

LEMMA InitBasics == HostInit => Basics
<1> SUFFICES ASSUME HostInit PROVE Basics
  OBVIOUS
<1>1. Blank \in Copy /\ Blank.json \in Offsets
  BY BlankType DEF Copy
<1>2. <<>> \in MaybeCopy
  BY DEF MaybeCopy
<1>3. Typed
  BY <1>1, <1>2 DEF HostInit, Typed, Places
<1>4. Turn
  BY DEF HostInit, Turn
<1>5. QED
  BY <1>3, <1>4 DEF Basics

LEMMA CopyOf ==
  ASSUME pinned \in MaybeCopy, pinned # <<>>
  PROVE  pinned[1] \in Copy /\ pinned = <<pinned[1]>>
BY DEF MaybeCopy

LEMMA NextBasics == Basics /\ [HostNext]_hostVars => Basics'
<1> SUFFICES ASSUME Basics, [HostNext]_hostVars PROVE Typed' /\ Turn'
  BY DEF Basics
<1> USE DEF Basics
<1>a. json \in Offsets /\ disk.json \in Offsets /\ disk.rows \in [Reminder -> ReminderStatuses]
  BY DEF Typed, Copy
<1>1. ASSUME NEW now \in Copy, Load(now), Fault \/ NoFault,
             backed' = <<>>, lease' = FALSE, wake' = FALSE,
             UNCHANGED <<pinned, req, attempt, handled, force, due, telegram,
                         finished, told, unheard, secured>>
      PROVE  Typed' /\ Turn'
  <2>1. hostFaults' \in 0 .. HostFaults
    BY <1>1, FaultType DEF Typed
  <2>2. forgot' \in [Command -> Nat] /\ undone' \in [Reminder -> Nat]
    BY <1>1, CountedType DEF Load, Typed
  <2>3. json' \in Offsets /\ disk' \in Copy /\ at' = "starting" /\ left' = "clean"
    BY <1>1 DEF Load, Copy
  <2>4. backed' \in MaybeCopy
    BY <1>1 DEF MaybeCopy
  <2>5. QED
    BY <1>1, <2>1, <2>2, <2>3, <2>4 DEF Typed, Places, Turn
<1>2. CASE Start
  <2>2. ASSUME pinned # <<>> PROVE Restorable \subseteq Copy
    BY <2>2, CopyOf DEF Restorable, Copy, Typed
  <2>3. QED
    BY <1>1, <1>2, <2>2 DEF Start, Typed
<1>3. CASE DieRestoring
  <2>1. hostFaults' \in 0 .. HostFaults
    BY <1>3, FaultType DEF Typed, DieRestoring
  <2>2. disk' \in Copy
    BY <1>3, CopyOf DEF DieRestoring, Typed, Copy
  <2>3. QED
    BY <1>3, <2>1, <2>2 DEF DieRestoring, Typed, Places, Turn
<1>4. CASE Register
  <2>1. hostFaults' \in 0 .. HostFaults
    BY <1>4, FaultType DEF Typed, Register
  <2>2. QED
    BY <1>4, <2>1 DEF Register, Typed, Places, Turn
<1>5. CASE Crash
  <2>1. hostFaults' \in 0 .. HostFaults
    BY <1>5, FaultType DEF Typed, Crash
  <2>2. undone' \in [Reminder -> Nat] /\ disk' \in Copy /\ left' \in {"wal", "clean"}
    <3>1. CASE left' = "wal" /\ UNCHANGED <<disk, undone>>
      BY <3>1 DEF Typed
    <3>2. CASE /\ disk' = Blank /\ left' = "clean"
               /\ undone' = Counted(undone, {r \in Reminder : disk.rows[r] \in {"told", "sent"}})
      BY <3>2, CountedType, BlankType DEF Typed
    <3>3. QED
      BY <1>5, <3>1, <3>2 DEF Crash
  <2>3. at' \in {"down", "dead"}
    BY <1>5 DEF Crash
  <2>4. Typed'
    BY <1>5, <2>1, <2>2, <2>3 DEF Crash, Typed, Places, Turn
  <2>5. Turn'
    BY <1>5, <2>1, <2>2, <2>3 DEF Crash, Typed, Places, Turn
  <2>6. QED
    BY <2>4, <2>5
<1>6. CASE Stop
  <2>1. hostFaults' \in 0 .. HostFaults
    BY <1>6, FaultType DEF Typed, Stop
  <2>2. Typed'
    BY <1>6, <2>1 DEF Stop, Typed, Places, Turn
  <2>3. Turn'
    BY <1>6, <2>1 DEF Stop, Typed, Places, Turn
  <2>4. QED
    BY <2>2, <2>3
<1>7. CASE Save
  <2>1. disk' \in Copy
    BY <1>7, <1>a DEF Save, Typed, Copy
  <2>2. QED
    BY <1>7, <2>1 DEF Save, Typed, Places, Turn
<1>8. CASE Backup
  <2>1. hostFaults' \in 0 .. HostFaults
    BY <1>8, FaultType DEF Typed, Backup
  <2>2. pinned' \in MaybeCopy /\ backed' \in MaybeCopy /\ secured' \subseteq Command
    BY <1>8 DEF Backup, BackedUp, Typed, Places, MaybeCopy
  <2>3. at' \in {"answering", "down", "idle"}
    BY <1>8 DEF Backup, Typed, Places
  <2>4. QED
    BY <1>8, <2>1, <2>2, <2>3 DEF Backup, Typed, Places, Turn
<1>9. CASE SendCommand
  BY <1>9 DEF SendCommand, Typed, Places, Turn
<1>10. CASE Receive
  <2>1. PICK u \in Unanswered : /\ req' = u
                               /\ at' = IF u < json.next THEN "answering" ELSE "handling"
    BY <1>10 DEF Receive
  <2>2. u \in 1 .. Commands /\ u \in 1 .. sent
    BY <2>1 DEF Unanswered, Typed, Places
  <2>3. attempt' \in 1 .. Attempts
    BY <1>10 DEF Receive
  <2>4. Typed'
    BY <1>10, <2>1, <2>2, <2>3 DEF Receive, Typed, Places
  <2>5. ~(u < json.next) => u >= json.next
    BY <1>a, <2>2 DEF Offsets
  <2>7. Turn'
    BY <1>10, <2>1, <2>2, <2>5 DEF Receive, Turn
  <2>6. QED
    BY <2>4, <2>7
<1>11. ASSUME NEW begun \in BOOLEAN, NEW j \in Offsets, NEW answer \in BOOLEAN,
              HandledBy(begun, j, answer), Fault \/ NoFault, finished' \in [Command -> Nat],
              UNCHANGED <<pinned, backed, left, req, attempt, force, due, lease, wake, telegram,
                          forgot, told, unheard, undone, secured, wiped>>
       PROVE  Typed' /\ Turn'
  <2>1. hostFaults' \in 0 .. HostFaults
    BY <1>11, FaultType DEF Typed
  <2>2. disk' \in Copy
    BY <1>11, RecordedType DEF HandledBy, Typed
  <2>3. QED
    BY <1>11, <2>1, <2>2 DEF HandledBy, Typed, Places, Turn
<1>12. CASE HandleDone
  <2>1. finished' \in [Command -> Nat]
    BY <1>12, CountedType DEF HandleDone, Typed
  <2>2. QED
    BY <1>11, <1>12, <2>1, OffsetTypes DEF HandleDone
<1>13. CASE HandleRefused \/ HandleFailed
  <2>1. finished' \in [Command -> Nat] /\ at = "handling"
    BY <1>13 DEF HandleRefused, HandleFailed, Typed
  <2>2. QED
    BY <1>11, <1>13, <2>1, OffsetTypes DEF HandleRefused, HandleFailed
<1>14. CASE HandlePaused
  <2>1. PICK begun \in BOOLEAN :
          \/ /\ attempt < Attempts
             /\ attempt' = attempt + 1
             /\ disk' = Recorded(begun)
             /\ UNCHANGED <<json, handled, at>>
          \/ /\ attempt = Attempts
             /\ HandledBy(begun, json, FALSE)
             /\ UNCHANGED attempt
    BY <1>14 DEF HandlePaused
  <2>2. finished' \in [Command -> Nat]
    BY <1>14 DEF HandlePaused, Typed
  <2>3. CASE HandledBy(begun, json, FALSE) /\ UNCHANGED attempt
    BY <1>a, <1>11, <1>14, <2>2, <2>3 DEF HandlePaused
  <2>4. CASE attempt < Attempts /\ attempt' = attempt + 1 /\ disk' = Recorded(begun)
             /\ UNCHANGED <<json, handled, at>>
    <3>1. hostFaults' \in 0 .. HostFaults
      BY <1>14, FaultType DEF Typed, HandlePaused
    <3>2. disk' \in Copy /\ attempt' \in 1 .. Attempts
      BY <2>4, RecordedType DEF Typed, Places
    <3>3. QED
      BY <1>14, <2>4, <3>1, <3>2
      DEF HandlePaused, Typed, Places, Turn
  <2>5. QED
    BY <2>1, <2>3, <2>4
<1>15. CASE Answer
  <2>1. hostFaults' \in 0 .. HostFaults
    BY <1>15, FaultType DEF Typed, Answer
  <2>2. req \in 1 .. sent
    BY <1>15 DEF Answer, Typed, Turn
  <2>3. acked' \subseteq 1 .. sent
    BY <1>15, <2>2 DEF Answer, Typed
  <2>4. attempt' \in 1 .. Attempts /\ 0 <= sent
    BY <1>15 DEF Answer, Typed
  <2>5. QED
    BY <1>15, <2>1, <2>3, <2>4 DEF Answer, Typed, Places, Turn
<1>16. CASE BeginPass \/ RemindedAll \/ Inspect
  <2>2. Typed'
    BY <1>16 DEF BeginPass, RemindedAll, Inspect, Due, Typed, Places
  <2>3. Turn'
    BY <1>16 DEF BeginPass, RemindedAll, Inspect, Typed, Turn
  <2>4. QED
    BY <2>2, <2>3
<1>17. CASE RemindNext
  <2>1. PICK r \in Reminder :
       /\ NextDue(r)
       /\ \/ /\ disk.rows[r] = "pending"
             /\ disk' = WithRow(r, "cancelled") /\ due' = due \ {r} /\ UNCHANGED told
          \/ /\ disk.rows[r] = "pending"
             /\ disk' = WithRow(r, "told") /\ told' = Counted(told, {r}) /\ UNCHANGED due
          \/ /\ disk.rows[r] = "told"
             /\ disk' = WithRow(r, "sent") /\ due' = due \ {r} /\ UNCHANGED told
    BY <1>17 DEF RemindNext
  <2>2. /\ \A s \in ReminderStatuses : WithRow(r, s) \in Copy
        /\ Counted(told, {r}) \in [Reminder -> Nat]
        /\ due \ {r} \subseteq Reminder
    BY RowType, CountedType DEF Typed
  <2>3. disk' \in Copy /\ told' \in [Reminder -> Nat] /\ due' \subseteq Reminder
    BY <2>1, <2>2 DEF Typed, ReminderStatuses
  <2>4. Typed'
    BY <1>17, <2>3 DEF RemindNext, Typed
  <2>5. Turn'
    BY <1>17 DEF RemindNext, Turn
  <2>6. QED
    BY <2>4, <2>5
<1>18. CASE RemindFails
  <2>1. hostFaults' \in 0 .. HostFaults
    BY <1>18, FaultType DEF Typed, RemindFails
  <2>2. told' \in [Reminder -> Nat] /\ unheard' \in [Reminder -> Nat]
    BY <1>18, CountedType DEF RemindFails, Typed
  <2>3. QED
    BY <1>18, <2>1, <2>2 DEF RemindFails, Typed, Places, Turn
<1>19. CASE Scan \/ DeliverQueue
  <2>1. hostFaults' \in 0 .. HostFaults
    BY <1>19, FaultType DEF Typed, Scan, DeliverQueue
  <2>2. json' \in Offsets /\ json'.next = json.next
    BY <1>19, <1>a DEF Scan, DeliverQueue, Offsets
  <2>3. QED
    BY <1>19, <2>1, <2>2 DEF Scan, DeliverQueue, Typed, Places, Turn, Offsets
<1>20. CASE LeaseExpires \/ Wake
  <2>1. hostFaults' \in 0 .. HostFaults
    BY <1>20, FaultType DEF Typed, LeaseExpires, Wake
  <2>2. Typed'
    BY <1>20, <2>1 DEF LeaseExpires, Wake, Serving, Typed, Places, Turn
  <2>3. Turn'
    BY <1>20, <2>1 DEF LeaseExpires, Wake, Serving, Typed, Places, Turn
  <2>4. QED
    BY <2>2, <2>3
<1>21. CASE Poll
  BY <1>21 DEF Poll, Unanswered, Typed, Places, Turn
<1>22. CASE UNCHANGED hostVars
  BY <1>22 DEF Typed, Places, Turn
<1>23. QED
  BY <1>2, <1>3, <1>4, <1>5, <1>6, <1>7, <1>8, <1>9, <1>10, <1>12, <1>13, <1>14, <1>15,
     <1>16, <1>17, <1>18, <1>19, <1>20, <1>21, <1>22 DEF HostNext
----------------------------------------------------------------------------
(* The kinds of step.                                                      *)

Up == at \notin {"down", "dead"}

(* What the process owes its caller, and when it is about to stop for good. *)
Orders ==
  /\ at \notin {"saving", "backing", "answering"} => handled = TRUE
  /\ force = TRUE => at \in {"saving", "backing"}
  /\ (force = TRUE /\ handled = FALSE) => req = 0

Stopping == at = "down" \/ (force = TRUE /\ handled = FALSE)

(* A handler that got so far, to its end or to a failure.                  *)
HandlerStep(begun) ==
  /\ at = "handling" /\ at' \in {"handling", "saving"}
  /\ disk' = Recorded(begun)
  /\ UNCHANGED <<pinned, left, force, forgot, told, unheard, undone, secured, wiped>>
  /\ \/ begun = TRUE /\ finished' = Counted(finished, {req}) /\ json'.next = req + 1
        /\ hostFaults' = hostFaults
     \/ UNCHANGED finished /\ json'.next \in {json.next, req + 1} /\ Fault

(* Nothing on file changes, and what may be lost is paid for by a failure. *)
Quiet ==
  /\ UNCHANGED <<disk, pinned, left, finished, forgot, told, unheard, undone, secured, wiped>>
  /\ json'.next = json.next /\ hostFaults' \in 0 .. HostFaults
  /\ at' = "backing" => at = "backing" /\ json' = json
  /\ Up' => Up
  /\ \/ hostFaults' > hostFaults
     \/ /\ hostFaults' = hostFaults
        /\ Stopping' => Stopping
        /\ Stopping => Stopping'
        /\ at' = "down" => at = "down"

LEMMA OrdersHold == HostInit /\ [][HostNext]_hostVars => []Orders
<1>1. HostInit => Orders
  BY DEF HostInit, Orders
<1>2. ASSUME Orders, [HostNext]_hostVars PROVE Orders'
  <2> USE <1>2 DEF Orders
  <2>1. CASE Start \/ DieRestoring \/ Register \/ Crash \/ Stop
    BY <2>1 DEF Start, Load, DieRestoring, Register, Crash, Stop
  <2>2. CASE Save \/ SendCommand \/ Receive \/ Answer
    BY <2>2 DEF Save, SendCommand, Receive, Answer
  <2>3. CASE Backup
    BY <2>3 DEF Backup
  <2>4. CASE HandleDone \/ HandleRefused \/ HandleFailed \/ HandlePaused
    BY <2>4 DEF HandleDone, HandleRefused, HandleFailed, HandlePaused, HandledBy
  <2>5. CASE BeginPass \/ RemindNext \/ RemindFails \/ RemindedAll
    BY <2>5 DEF BeginPass, RemindNext, RemindFails, RemindedAll
  <2>6. CASE Scan \/ DeliverQueue \/ LeaseExpires \/ Wake \/ Inspect \/ Poll
    BY <2>6 DEF Scan, DeliverQueue, LeaseExpires, Wake, Inspect, Poll
  <2>7. CASE UNCHANGED hostVars
    BY <2>7
  <2>8. QED
    BY <2>1, <2>2, <2>3, <2>4, <2>5, <2>6, <2>7 DEF HostNext
<1>3. QED
  BY <1>1, <1>2, PTL

LEMMA StepKinds ==
  ASSUME Basics, Orders, [HostNext]_hostVars
  PROVE  \/ Quiet \/ Start \/ DieRestoring \/ Crash \/ Save \/ Backup
         \/ RemindNext \/ RemindFails
         \/ \E begun \in BOOLEAN : HandlerStep(begun)
<1>a. /\ hostFaults \in 0 .. HostFaults /\ json \in Offsets
      /\ Fault \/ NoFault => hostFaults' \in 0 .. HostFaults
  BY FaultType DEF Basics, Typed
<1>b. Fault => hostFaults' > hostFaults
  BY <1>a DEF Fault
<1>1. CASE SendCommand \/ Inspect \/ Poll \/ Wake \/ UNCHANGED hostVars
  BY <1>1, <1>a, <1>b
  DEF SendCommand, Inspect, Poll, Wake, NoFault, Quiet, Up, Stopping
<1>2. CASE Register \/ Stop
  BY <1>2, <1>a, <1>b DEF Register, Stop, NoFault, Quiet, Up, Stopping, Orders
<1>3. CASE Receive \/ BeginPass \/ RemindedAll \/ LeaseExpires
  BY <1>3, <1>a, <1>b
  DEF Receive, BeginPass, RemindedAll, LeaseExpires, NoFault, Quiet, Up, Stopping, Orders
<1>4. CASE Answer
  BY <1>4, <1>a, <1>b DEF Answer, NoFault, Quiet, Up, Stopping, Orders
<1>5. CASE Scan \/ DeliverQueue
  <2>1. json'.next = json.next
    BY <1>5, <1>a DEF Scan, DeliverQueue, Offsets
  <2>2. QED
    BY <1>5, <2>1, <1>a, <1>b DEF Scan, DeliverQueue, NoFault, Quiet, Up, Stopping, Orders
<1>6. CASE HandleDone
  <2>1. PastCommand.next = req + 1
    BY <1>6, OffsetTypes DEF HandleDone, Basics
  <2>2. HandlerStep(TRUE)
    BY <1>6, <2>1 DEF HandleDone, HandledBy, NoFault, HandlerStep
  <2>3. QED
    BY <2>2
<1>7. CASE HandleRefused \/ HandleFailed
  <2>1. /\ PastCommand.next = req + 1
        /\ json.tries + 1 < Attempts => [json EXCEPT !.tries = @ + 1].next = json.next
    BY <1>7, OffsetTypes DEF HandleRefused, HandleFailed, Basics
  <2>2. \E begun \in BOOLEAN : HandlerStep(begun)
    BY <1>7, <2>1 DEF HandleRefused, HandleFailed, HandledBy, HandlerStep
  <2>3. QED
    BY <2>2
<1>8. CASE HandlePaused
  BY <1>8 DEF HandlePaused, HandledBy, HandlerStep
<1>9. QED
  BY <1>1, <1>2, <1>3, <1>4, <1>5, <1>6, <1>7, <1>8 DEF HostNext

----------------------------------------------------------------------------
(* A command's end and the stored offset.                                  *)

One(b) == IF b THEN 1 ELSE 0

(* A command that ended more often than a restart forgot is below the      *)
(* offset in memory.                                                       *)
EndsCounted == \A u \in Command : finished[u] <= forgot[u] + One(u < json.next)

LEMMA NextEnds ==
  ASSUME Basics, Basics', EndsCounted, Orders, [HostNext]_hostVars
  PROVE  EndsCounted'
<1> SUFFICES ASSUME NEW u \in Command
             PROVE  finished'[u] <= forgot'[u] + One(u < json'.next)
  BY DEF EndsCounted
<1>c. json \in Offsets /\ json' \in Offsets
  BY DEF Basics, Typed
<1>d. json.next \in Int /\ json'.next \in Int
  BY <1>c DEF Offsets
<1>e. finished \in [Command -> Nat] /\ forgot \in [Command -> Nat]
  BY DEF Basics, Typed
<1>f. u \in Int /\ req \in Int
  BY DEF Basics, Typed, Command
<1>a. /\ finished[u] \in Nat /\ forgot[u] \in Nat /\ u \in Int /\ req \in Int
      /\ finished \in [Command -> Nat] /\ forgot \in [Command -> Nat]
      /\ json.next \in Int /\ json'.next \in Int
  BY <1>d, <1>e, <1>f
<1>b. finished[u] <= forgot[u] + One(u < json.next)
  BY DEF EndsCounted
<1>1. CASE Start
  <2>1. finished' = finished
        /\ forgot' = Counted(forgot, {v \in Command : v < json.next /\ v >= json'.next})
    BY <1>1 DEF Start, Load
  <2>2. QED
    BY <1>a, <1>b, <2>1 DEF Counted, One
<1>2. ASSUME NEW begun \in BOOLEAN, HandlerStep(begun)
      PROVE  finished'[u] <= forgot'[u] + One(u < json'.next)
  <2>1. req >= json.next /\ forgot' = forgot
    BY <1>2 DEF HandlerStep, Basics, Turn
  <2>2. CASE finished' = Counted(finished, {req}) /\ json'.next = req + 1
    BY <1>a, <1>b, <2>1, <2>2 DEF Counted, One
  <2>3. CASE UNCHANGED finished /\ json'.next \in {json.next, req + 1}
    BY <1>a, <1>b, <2>1, <2>3 DEF One
  <2>4. QED
    BY <1>2, <2>2, <2>3 DEF HandlerStep
<1>3. CASE Quiet
  BY <1>3, <1>b DEF Quiet
<1>4. CASE DieRestoring \/ Crash \/ Save \/ Backup \/ RemindNext \/ RemindFails
  <2>1. UNCHANGED <<json, finished, forgot>>
    BY <1>4 DEF DieRestoring, Crash, Save, Backup, RemindNext, RemindFails
  <2>2. QED
    BY <1>b, <2>1
<1>5. QED
  BY <1>1, <1>2, <1>3, <1>4, StepKinds
----------------------------------------------------------------------------
(* A reminder's rows: each is paid for by a command's end or by a failure, *)
(* so that there is always a free one.                                     *)

RowsUsed(rows, u) == {k \in 1 .. HostFaults + 1 : rows[<<u, k>>] # "none"}

RowsPaid ==
  \A u \in Reminding :
    /\ Cardinality(RowsUsed(disk.rows, u)) <= hostFaults + One(~Stopping /\ u < json.next)
    /\ pinned # <<>> =>
         Cardinality(RowsUsed(pinned[1].rows, u)) <= hostFaults + One(at # "down")

(* A set of numbers that is not empty has a least member.                  *)
LEMMA Least ==
  ASSUME NEW S \in SUBSET Nat, S # {}
  PROVE  \E k \in S : \A i \in S : k <= i
<1> DEFINE T == {1 .. n : n \in S}
<1>1. T \subseteq FiniteSubsetsOf(Nat) /\ T # {}
  <2>1. \A n \in S : 1 .. n \subseteq Nat /\ IsFiniteSet(1 .. n)
    BY FS_Interval
  <2>2. QED
    BY <2>1 DEF FiniteSubsetsOf
<1>2. IsWellFoundedOn(StrictSubsetOrdering(Nat), FiniteSubsetsOf(Nat))
  BY FS_StrictSubsetOrderingWellFounded
<1>3. \E x \in T : \A y \in T : ~ (<<y, x>> \in StrictSubsetOrdering(Nat))
  <2> HIDE DEF T
  <2>1. QED
    BY <1>1, <1>2, WFMin
<1>4. PICK k \in S : \A i \in S : ~ (<<1 .. i, 1 .. k>> \in StrictSubsetOrdering(Nat))
  BY <1>3
<1>5. ASSUME NEW i \in S, ~ (k <= i) PROVE FALSE
  <2>1. i < k /\ i \in Nat /\ k \in Nat
    BY <1>5
  <2>2. 1 .. i \subseteq 1 .. k /\ k \in 1 .. k /\ k \notin 1 .. i
    BY <2>1
  <2>3. <<1 .. i, 1 .. k>> \in StrictSubsetOrdering(Nat)
    BY <2>1, <2>2 DEF StrictSubsetOrdering
  <2>4. QED
    BY <1>4, <2>3
<1>6. QED
  BY <1>5

LEMMA UsedFinite ==
  ASSUME NEW rows, NEW u
  PROVE  /\ IsFiniteSet(RowsUsed(rows, u)) /\ Cardinality(RowsUsed(rows, u)) \in Nat
         /\ RowsUsed(rows, u) \subseteq 1 .. HostFaults + 1
<1>1. IsFiniteSet(1 .. HostFaults + 1) /\ RowsUsed(rows, u) \subseteq 1 .. HostFaults + 1
  BY FS_Interval DEF RowsUsed
<1>2. QED
  BY <1>1, FS_Subset, FS_CardinalityType

(* What Recorded does: nothing, or a free row of the command becomes a     *)
(* pending reminder.                                                       *)
LEMMA FreeRow ==
  ASSUME NEW u, Cardinality(RowsUsed(disk.rows, u)) <= HostFaults
  PROVE  \E k \in 1 .. HostFaults + 1 :
           /\ disk.rows[<<u, k>>] = "none"
           /\ \A i \in 1 .. k - 1 : disk.rows[<<u, i>>] # "none"
<1> DEFINE All == 1 .. HostFaults + 1
           Free == {k \in All : disk.rows[<<u, k>>] = "none"}
<1>1. Cardinality(All) = HostFaults + 1
  BY FS_Interval
<1>2. RowsUsed(disk.rows, u) # All
  BY <1>1, UsedFinite
<1>3. Free # {} /\ Free \in SUBSET Nat
  BY <1>2 DEF RowsUsed
<1>4. PICK k \in Free : \A i \in Free : k <= i
  <2> HIDE DEF Free
  <2>1. QED
    BY <1>3, Least
<1>5. QED
  BY <1>4

LEMMA RecordedRow ==
  ASSUME Basics, RowsPaid, at = "handling", Orders, NEW begun \in BOOLEAN
  PROVE  \/ Recorded(begun) = disk /\ (begun = FALSE \/ req \notin Reminding)
         \/ \E k \in 1 .. HostFaults + 1 :
              /\ req \in Reminding /\ disk.rows[<<req, k>>] = "none"
              /\ Recorded(begun) = WithRow(<<req, k>>, "pending")
<1>1. CASE begun = FALSE \/ req \notin Reminding
  BY <1>1 DEF Recorded
<1>2. CASE begun = TRUE /\ req \in Reminding
  <2>1. req \in Int /\ json.next \in Int /\ req >= json.next /\ hostFaults \in 0 .. HostFaults
    <3>1. json \in Offsets /\ req \in 0 .. Commands /\ hostFaults \in 0 .. HostFaults
      BY DEF Basics, Typed
    <3>2. QED
      BY <3>1 DEF Basics, Turn, Offsets
  <2>2. Cardinality(RowsUsed(disk.rows, req)) <= HostFaults
    <3>1. Cardinality(RowsUsed(disk.rows, req)) <= hostFaults + One(~Stopping /\ req < json.next)
      BY <1>2 DEF RowsPaid
    <3>2. One(~Stopping /\ req < json.next) = 0
      BY <2>1 DEF One
    <3>3. Cardinality(RowsUsed(disk.rows, req)) \in Nat
      BY UsedFinite
    <3>4. QED
      BY <2>1, <3>1, <3>2, <3>3
  <2> DEFINE First(k) == /\ disk.rows[<<req, k>>] = "none"
                         /\ \A i \in 1 .. k - 1 : disk.rows[<<req, i>>] # "none"
             k0 == CHOOSE k \in 1 .. HostFaults + 1 : First(k)
  <2>3. k0 \in 1 .. HostFaults + 1 /\ First(k0)
    BY <2>2, FreeRow
  <2>4. Recorded(begun) = WithRow(<<req, k0>>, "pending")
    BY <1>2 DEF Recorded
  <2>5. QED
    BY <1>2, <2>3, <2>4
<1>3. QED
  BY <1>1, <1>2
(* A reminder shown more often than an answer was lost or a restart forgot *)
(* it is on file as shown.                                                 *)
TextIsOut == {"told", "sent"}

ToldCounted ==
  \A r \in Reminder : told[r] <= unheard[r] + undone[r] + One(disk.rows[r] \in TextIsOut)

LEMMA RowWritten ==
  ASSUME disk \in Copy, NEW r \in Reminder, NEW s \in ReminderStatuses, NEW q \in Reminder
  PROVE  WithRow(r, s).rows[q] = IF q = r THEN s ELSE disk.rows[q]
<1>1. disk.rows \in [Reminder -> ReminderStatuses] /\ WithRow(r, s).rows = [disk.rows EXCEPT ![r] = s]
  BY RowType DEF Copy
<1>2. QED
  BY <1>1

LEMMA NextTold ==
  ASSUME Basics, Orders, RowsPaid, ToldCounted, [HostNext]_hostVars
  PROVE  ToldCounted'
<1> SUFFICES ASSUME NEW r \in Reminder
             PROVE  told'[r] <= unheard'[r] + undone'[r] + One(disk'.rows[r] \in TextIsOut)
  BY DEF ToldCounted
<1> DEFINE Goal == told'[r] <= unheard'[r] + undone'[r] + One(disk'.rows[r] \in TextIsOut)
<1>a. /\ told \in [Reminder -> Nat] /\ unheard \in [Reminder -> Nat]
      /\ undone \in [Reminder -> Nat] /\ disk \in Copy
  BY DEF Basics, Typed
<1>b. told[r] <= unheard[r] + undone[r] + One(disk.rows[r] \in TextIsOut)
  BY DEF ToldCounted
<1>c. \A b : One(b) \in {0, 1}
  BY DEF One
<1>1. CASE Quiet
  BY <1>1, <1>b DEF Quiet
<1>2. CASE Start
  <2>1. /\ told' = told /\ unheard' = unheard
        /\ undone' = Counted(undone, {q \in Reminder : disk.rows[q] \in TextIsOut
                                                        /\ disk'.rows[q] \notin TextIsOut})
    BY <1>2 DEF Start, Load, TextIsOut
  <2>2. QED
    BY <1>a, <1>b, <2>1 DEF Counted, One
<1>3. CASE DieRestoring \/ Save \/ Backup
  <2>1. UNCHANGED <<told, unheard, undone>> /\ disk'.rows = disk.rows
    BY <1>3, <1>a DEF DieRestoring, Save, Backup, Copy
  <2>2. QED
    BY <1>b, <2>1
<1>4. CASE Crash
  <2>1. CASE UNCHANGED <<disk, undone>>
    BY <1>4, <1>b, <2>1 DEF Crash
  <2>2. CASE undone' = Counted(undone, {q \in Reminder : disk.rows[q] \in TextIsOut})
    <3>1. undone'[r] = undone[r] + One(disk.rows[r] \in TextIsOut)
      BY <1>a, <2>2 DEF Counted, One
    <3>2. QED
      BY <1>4, <1>a, <1>b, <1>c, <3>1 DEF Crash
  <2>3. QED
    BY <1>4, <2>1, <2>2 DEF Crash, TextIsOut
<1>5. CASE RemindNext
  <2>1. UNCHANGED <<unheard, undone>>
    BY <1>5 DEF RemindNext
  <2>2. PICK q \in Reminder :
       \/ /\ disk.rows[q] = "pending"
          /\ disk' = WithRow(q, "cancelled") /\ UNCHANGED told
       \/ /\ disk.rows[q] = "pending"
          /\ disk' = WithRow(q, "told") /\ told' = Counted(told, {q})
       \/ /\ disk.rows[q] = "told"
          /\ disk' = WithRow(q, "sent") /\ UNCHANGED told
    BY <1>5 DEF RemindNext
  <2>3. \A s \in ReminderStatuses : WithRow(q, s).rows[r] = IF r = q THEN s ELSE disk.rows[r]
    BY <1>a, RowWritten
  <2>4. QED
    BY <1>a, <1>b, <2>1, <2>2, <2>3 DEF Counted, One, TextIsOut, ReminderStatuses
<1>6. CASE RemindFails
  <2>1. UNCHANGED <<disk, undone>>
        /\ (\/ UNCHANGED <<told, unheard>>
            \/ \E q \in Reminder : told' = Counted(told, {q}) /\ unheard' = Counted(unheard, {q}))
    BY <1>6 DEF RemindFails
  <2>2. QED
    BY <1>a, <1>b, <1>c, <2>1 DEF Counted
<1>7. ASSUME NEW begun \in BOOLEAN, HandlerStep(begun) PROVE Goal
  <2>1. UNCHANGED <<told, unheard, undone>> /\ disk' = Recorded(begun) /\ at = "handling"
    BY <1>7 DEF HandlerStep, RemindFails
  <2>2. \/ disk' = disk
        \/ \E k \in 1 .. HostFaults + 1 :
             /\ req \in Reminding /\ disk.rows[<<req, k>>] = "none"
             /\ disk' = WithRow(<<req, k>>, "pending")
    BY <2>1, RecordedRow
  <2>3. disk'.rows[r] \in TextIsOut <=> disk.rows[r] \in TextIsOut
    <3>1. ASSUME NEW k \in 1 .. HostFaults + 1, req \in Reminding,
                 disk.rows[<<req, k>>] = "none", disk' = WithRow(<<req, k>>, "pending")
          PROVE  disk'.rows[r] \in TextIsOut <=> disk.rows[r] \in TextIsOut
      BY <1>a, <3>1, RowWritten DEF TextIsOut, ReminderStatuses, Reminder
    <3>2. QED
      BY <2>2, <3>1
  <2>4. QED
    BY <1>b, <2>1, <2>3 DEF One
<1>8. QED
  BY <1>1, <1>2, <1>3, <1>4, <1>5, <1>6, <1>7, StepKinds

(* The rows a step uses.                                                   *)
LEMMA SameUse ==
  ASSUME NEW rows, NEW now, NEW u \in Reminding,
         \A k \in 1 .. HostFaults + 1 : now[<<u, k>>] # "none" => rows[<<u, k>>] # "none"
  PROVE  Cardinality(RowsUsed(now, u)) <= Cardinality(RowsUsed(rows, u))
<1>1. RowsUsed(now, u) \subseteq RowsUsed(rows, u)
  BY DEF RowsUsed
<1>2. QED
  BY <1>1, UsedFinite, FS_Subset

LEMMA OneMoreUse ==
  ASSUME Basics, NEW u \in Reminding, NEW r \in Reminder, NEW s \in ReminderStatuses
  PROVE  Cardinality(RowsUsed(WithRow(r, s).rows, u)) <=
           Cardinality(RowsUsed(disk.rows, u)) + One(u = r[1])
<1> DEFINE now == WithRow(r, s).rows
<1>a. \A k \in 1 .. HostFaults + 1 : now[<<u, k>>] = IF <<u, k>> = r THEN s ELSE disk.rows[<<u, k>>]
  BY RowWritten DEF Basics, Typed, Reminder
<1>1. CASE u # r[1]
  <2>1. \A k \in 1 .. HostFaults + 1 : now[<<u, k>>] = disk.rows[<<u, k>>]
    BY <1>1, <1>a
  <2>2. Cardinality(RowsUsed(now, u)) <= Cardinality(RowsUsed(disk.rows, u))
    BY <2>1, SameUse
  <2>3. QED
    BY <1>1, <2>2, UsedFinite DEF One
<1>2. CASE u = r[1]
  <2>1. RowsUsed(now, u) \subseteq RowsUsed(disk.rows, u) \cup {r[2]}
    BY <1>2, <1>a DEF RowsUsed, Reminder
  <2>2. /\ IsFiniteSet(RowsUsed(disk.rows, u) \cup {r[2]})
        /\ Cardinality(RowsUsed(disk.rows, u) \cup {r[2]}) <= Cardinality(RowsUsed(disk.rows, u)) + 1
    <3>1. IsFiniteSet(RowsUsed(disk.rows, u)) /\ Cardinality(RowsUsed(disk.rows, u)) \in Nat
      BY UsedFinite
    <3>2. /\ IsFiniteSet(RowsUsed(disk.rows, u) \cup {r[2]})
          /\ \/ Cardinality(RowsUsed(disk.rows, u) \cup {r[2]}) = Cardinality(RowsUsed(disk.rows, u))
             \/ Cardinality(RowsUsed(disk.rows, u) \cup {r[2]}) = Cardinality(RowsUsed(disk.rows, u)) + 1
      BY <3>1, FS_AddElement
    <3>3. QED
      BY <3>1, <3>2
  <2>3. Cardinality(RowsUsed(now, u)) <= Cardinality(RowsUsed(disk.rows, u) \cup {r[2]})
    BY <2>1, <2>2, FS_Subset
  <2>4. Cardinality(RowsUsed(disk.rows, u) \cup {r[2]}) \in Nat
    BY <2>2, FS_CardinalityType
  <2>5. QED
    BY <1>2, <2>2, <2>3, <2>4, UsedFinite DEF One
<1>3. QED
  BY <1>1, <1>2
(* The number of rows a command uses on the disk and in the copy.          *)
OnDisk(u) == Cardinality(RowsUsed(disk.rows, u))
InCopy(u) == Cardinality(RowsUsed(pinned[1].rows, u))

LEMMA NextPaid ==
  ASSUME Basics, Basics', Orders, RowsPaid, [HostNext]_hostVars
  PROVE  RowsPaid'
<1> SUFFICES ASSUME NEW u \in Reminding
             PROVE  /\ OnDisk(u)' <= hostFaults' + One(~Stopping' /\ u < json'.next)
                    /\ (pinned # <<>>)' => InCopy(u)' <= hostFaults' + One(at' # "down")
  BY DEF RowsPaid, OnDisk, InCopy
<1> DEFINE Goal == /\ OnDisk(u)' <= hostFaults' + One(~Stopping' /\ u < json'.next)
                   /\ (pinned # <<>>)' => InCopy(u)' <= hostFaults' + One(at' # "down")
<1>a. /\ OnDisk(u) <= hostFaults + One(~Stopping /\ u < json.next)
      /\ pinned # <<>> => InCopy(u) <= hostFaults + One(at # "down")
  BY DEF RowsPaid, OnDisk, InCopy
<1>b. /\ OnDisk(u) \in Nat /\ InCopy(u) \in Nat /\ OnDisk(u)' \in Nat /\ InCopy(u)' \in Nat
      /\ hostFaults \in Nat /\ hostFaults' \in Nat
  BY UsedFinite DEF OnDisk, InCopy, Basics, Typed
<1>c. \A b : One(b) \in {0, 1}
  BY DEF One
<1>d. Fault => hostFaults' = hostFaults + 1
  BY DEF Fault
<1>e. disk \in Copy
  BY DEF Basics, Typed
<1>1. CASE Quiet
  <2>1. OnDisk(u)' = OnDisk(u) /\ InCopy(u)' = InCopy(u) /\ pinned' = pinned /\ json'.next = json.next
    BY <1>1 DEF Quiet, OnDisk, InCopy
  <2>2. CASE hostFaults' > hostFaults
    BY <1>a, <1>b, <1>c, <2>1, <2>2
  <2>3. CASE /\ hostFaults' = hostFaults
             /\ Stopping' => Stopping
             /\ at' = "down" => at = "down"
    BY <1>a, <1>b, <2>1, <2>3 DEF One
  <2>4. QED
    BY <1>1, <2>2, <2>3 DEF Quiet
<1>2. CASE Start
  <2>1. /\ at = "down" /\ at' = "starting" /\ pinned' = pinned
        /\ disk'.rows = disk.rows \/ (pinned # <<>> /\ disk'.rows = pinned[1].rows)
        /\ Fault \/ NoFault
    <3>1. \A now \in Restorable : now.rows \in {pinned[1].rows, disk.rows}
      BY DEF Restorable
    <3>2. UNCHANGED pinned /\ (Fault \/ NoFault) /\ at = "down"
      BY <1>2 DEF Start
    <3>3. Load(disk) \/ (pinned # <<>> /\ \E now \in Restorable : Load(now))
      BY <1>2 DEF Start
    <3>4. QED
      BY <3>1, <3>2, <3>3 DEF Load
  <2>2. /\ OnDisk(u) <= hostFaults /\ (pinned # <<>> => InCopy(u) <= hostFaults)
        /\ hostFaults' >= hostFaults
    BY <1>a, <1>b, <1>d, <2>1 DEF Stopping, One, NoFault
  <2>3. OnDisk(u)' = OnDisk(u) \/ (pinned # <<>> /\ OnDisk(u)' = InCopy(u))
    BY <2>1 DEF OnDisk, InCopy
  <2>4. InCopy(u)' = InCopy(u)
    BY <2>1 DEF InCopy
  <2>5. QED
    BY <1>b, <1>c, <2>1, <2>2, <2>3, <2>4
<1>3. CASE DieRestoring
  <2>1. /\ disk'.rows = disk.rows /\ UNCHANGED <<pinned, at>> /\ hostFaults' = hostFaults + 1
    BY <1>3, <1>d, <1>e DEF DieRestoring, Copy
  <2>2. OnDisk(u)' = OnDisk(u) /\ InCopy(u)' = InCopy(u)
    BY <2>1 DEF OnDisk, InCopy
  <2>3. QED
    BY <1>a, <1>b, <1>c, <2>1, <2>2
<1>4. CASE Crash
  <2>1. /\ pinned' = pinned /\ hostFaults' = hostFaults + 1
        /\ disk' = disk \/ disk' = Blank
    BY <1>4, <1>d DEF Crash
  <2>2. InCopy(u)' = InCopy(u)
    BY <2>1 DEF InCopy
  <2>3. OnDisk(u)' <= OnDisk(u)
    <3>1. \A k \in 1 .. HostFaults + 1 : disk'.rows[<<u, k>>] # "none" => disk.rows[<<u, k>>] # "none"
      BY <2>1 DEF Blank, Reminder
    <3>2. QED
      BY <3>1, SameUse DEF OnDisk
  <2>4. QED
    BY <1>a, <1>b, <1>c, <2>1, <2>2, <2>3
<1>5. CASE Save
  <2>1. /\ disk'.rows = disk.rows /\ pinned' = pinned /\ hostFaults' = hostFaults /\ json' = json
        /\ at' = "backing" /\ at = "saving" /\ force' = force /\ handled' = handled
    BY <1>5, <1>e DEF Save, Copy
  <2>2. OnDisk(u)' = OnDisk(u) /\ InCopy(u)' = InCopy(u)
    BY <2>1 DEF OnDisk, InCopy
  <2>3. QED
    BY <1>a, <1>b, <2>1, <2>2 DEF One, Stopping
<1>6. CASE Backup
  <2>1. /\ disk' = disk /\ json' = json /\ force' = FALSE /\ at = "backing"
        /\ Fault \/ NoFault
        /\ at' = "down" => Stopping
        /\ pinned' = pinned \/ pinned' = <<disk>>
        /\ Stopping => at' = "down" /\ (Fault \/ pinned' = <<disk>>)
    BY <1>6 DEF Backup, BackedUp, Unchanged, Stopping, Orders
  <2>2. OnDisk(u)' = OnDisk(u) /\ hostFaults' >= hostFaults
    <3>1. OnDisk(u)' = OnDisk(u)
      BY <2>1 DEF OnDisk
    <3>2. QED
      BY <1>b, <1>d, <2>1, <3>1 DEF NoFault
  <2>3. pinned' = pinned => InCopy(u)' = InCopy(u)
    BY DEF InCopy
  <2>4. pinned' = <<disk>> => InCopy(u)' = OnDisk(u)
    BY DEF InCopy, OnDisk
  <2>5. ~Stopping' \/ Stopping
    BY <2>1 DEF Stopping
  <2>6. OnDisk(u)' <= hostFaults' + One(~Stopping' /\ u < json'.next)
    BY <1>a, <1>b, <2>1, <2>2, <2>5 DEF One
  <2>7. CASE Stopping
    BY <1>a, <1>b, <1>c, <1>d, <2>1, <2>2, <2>3, <2>4, <2>6, <2>7 DEF One
  <2>8. CASE ~Stopping
    BY <1>a, <1>b, <2>1, <2>2, <2>3, <2>4, <2>6, <2>8 DEF One
  <2>9. QED
    BY <2>7, <2>8
<1>7. CASE RemindNext
  <2>1. UNCHANGED <<json, pinned, at, force, handled, hostFaults>>
    BY <1>7 DEF RemindNext
  <2>2. PICK q \in Reminder, s \in ReminderStatuses : disk.rows[q] # "none" /\ disk' = WithRow(q, s)
    BY <1>7 DEF RemindNext, ReminderStatuses
  <2>3. \A k \in 1 .. HostFaults + 1 : disk'.rows[<<u, k>>] # "none" => disk.rows[<<u, k>>] # "none"
    BY <1>e, <2>2, RowWritten DEF Reminder
  <2>4. OnDisk(u)' <= OnDisk(u)
    BY <2>3, SameUse DEF OnDisk
  <2>5. InCopy(u)' = InCopy(u) /\ (~Stopping' <=> ~Stopping)
    BY <2>1 DEF InCopy, Stopping
  <2>6. QED
    BY <1>a, <1>b, <2>1, <2>4, <2>5 DEF One
<1>8. CASE RemindFails
  BY <1>8, <1>a, <1>b, <1>c, <1>d DEF RemindFails, OnDisk, InCopy
<1>9. ASSUME NEW begun \in BOOLEAN, HandlerStep(begun) PROVE Goal
  <2>1. /\ pinned' = pinned /\ at = "handling" /\ at' # "down" /\ disk' = Recorded(begun)
        /\ force' = force /\ force # TRUE
    BY <1>9 DEF HandlerStep, Orders
  <2>2. ~Stopping /\ ~Stopping'
    BY <2>1, <1>9 DEF HandlerStep, Stopping
  <2>3. InCopy(u)' = InCopy(u)
    BY <2>1 DEF InCopy
  <2>4. /\ u \in Int /\ req \in Int /\ json.next \in Int /\ json'.next \in Int
        /\ req >= json.next
    <3>1. json \in Offsets /\ json' \in Offsets /\ req \in 0 .. Commands /\ u \in 1 .. Commands
      BY DEF Basics, Typed
    <3>2. QED
      BY <3>1, <2>1 DEF Basics, Turn, Offsets
  <2>5. OnDisk(u)' <= OnDisk(u) + One(u = req)
    <3>1. CASE disk' = disk
      BY <1>b, <1>c, <3>1 DEF OnDisk
    <3>2. ASSUME NEW k \in 1 .. HostFaults + 1, req \in Reminding,
                 disk' = WithRow(<<req, k>>, "pending")
          PROVE  OnDisk(u)' <= OnDisk(u) + One(u = req)
      <4>1. <<req, k>> \in Reminder /\ <<req, k>>[1] = req /\ "pending" \in ReminderStatuses
        BY <3>2 DEF Reminder, ReminderStatuses
      <4>2. QED
        BY <3>2, <4>1, OneMoreUse DEF OnDisk
    <3>3. QED
      BY <2>1, <3>1, <3>2, RecordedRow
  <2>6. CASE json'.next = req + 1 /\ hostFaults' = hostFaults
    BY <1>a, <1>b, <2>1, <2>2, <2>3, <2>4, <2>5, <2>6 DEF One
  <2>7. CASE hostFaults' = hostFaults + 1 /\ json'.next \in {json.next, req + 1}
    BY <1>a, <1>b, <2>1, <2>2, <2>3, <2>4, <2>5, <2>7 DEF One
  <2>8. QED
    BY <1>9, <1>d, <2>6, <2>7 DEF HandlerStep
<1>10. QED
  BY <1>1, <1>2, <1>3, <1>4, <1>5, <1>6, <1>7, <1>8, <1>9, StepKinds
----------------------------------------------------------------------------
(* What the copy holds.                                                    *)

(* Once a copy is being made, state.json on the disk is the one in memory. *)
SavedFirst == at = "backing" => disk.json = json

(* A command is secured exactly when a copy held its end; what was secured *)
(* is in the pinned copy and in a running process, if nothing was wiped.   *)
SecuredKept ==
  /\ pinned = <<>> => secured = {}
  /\ pinned # <<>> => \A u \in Command : u < pinned[1].json.next => u \in secured
  /\ ~wiped => \A u \in secured :
       /\ pinned # <<>> /\ u < pinned[1].json.next
       /\ Up => u < json.next

LEMMA NextSaved ==
  ASSUME Basics, Orders, SavedFirst, [HostNext]_hostVars
  PROVE  SavedFirst'
<1>a. disk \in Copy
  BY DEF Basics, Typed
<1>1. CASE Quiet
  BY <1>1 DEF Quiet, SavedFirst
<1>2. CASE Start \/ DieRestoring \/ Crash \/ Backup \/ RemindFails
  BY <1>2 DEF Start, Load, DieRestoring, Crash, Backup, RemindFails, SavedFirst
<1>3. CASE Save
  BY <1>3, <1>a DEF Save, SavedFirst, Copy
<1>4. CASE RemindNext
  BY <1>4 DEF RemindNext, NextDue, SavedFirst
<1>5. CASE \E begun \in BOOLEAN : HandlerStep(begun)
  BY <1>5 DEF HandlerStep, SavedFirst
<1>6. QED
  BY <1>1, <1>2, <1>3, <1>4, <1>5, StepKinds

(* The offset only moves forward while the process lives.                  *)
LEMMA OffsetForward ==
  ASSUME Basics, Basics', Orders, [HostNext]_hostVars, ~Start
  PROVE  json'.next >= json.next /\ json.next \in Int /\ json'.next \in Int
<1>a. json.next \in Int /\ json'.next \in Int /\ json.next >= json.next
  <2>1. json \in Offsets /\ json' \in Offsets
    BY DEF Basics, Typed
  <2>2. QED
    BY <2>1 DEF Offsets
<1>1. CASE Quiet
  BY <1>1, <1>a DEF Quiet
<1>2. CASE DieRestoring \/ Crash \/ Save \/ Backup \/ RemindNext \/ RemindFails
  <2>1. UNCHANGED json
    BY <1>2 DEF DieRestoring, Crash, Save, Backup, RemindNext, RemindFails
  <2>2. QED
    BY <1>a, <2>1
<1>3. ASSUME NEW begun \in BOOLEAN, HandlerStep(begun)
      PROVE  json'.next >= json.next
  <2>1. req >= json.next /\ req \in Int /\ json'.next \in {json.next, req + 1}
    BY <1>3 DEF HandlerStep, Basics, Typed, Turn
  <2>2. QED
    BY <1>a, <2>1
<1>4. QED
  BY <1>a, <1>1, <1>2, <1>3, StepKinds

LEMMA NextSecured ==
  ASSUME Basics, Basics', Orders, SavedFirst, SecuredKept, [HostNext]_hostVars
  PROVE  SecuredKept'
<1>a. secured \subseteq Command /\ pinned \in MaybeCopy /\ disk \in Copy
  BY DEF Basics, Typed
<1>b. \A u \in Command : u \in Int
  BY DEF Command
<1>1. CASE Start
  <2>1. UNCHANGED <<pinned, secured>> /\ disk'.json = json'
    BY <1>1 DEF Start, Load
  <2>2. /\ pinned' = <<>> => secured' = {}
        /\ pinned' # <<>> => \A u \in Command : u < pinned'[1].json.next => u \in secured'
    BY <2>1 DEF SecuredKept
  <2>3. ASSUME ~wiped', NEW u \in secured
        PROVE  pinned # <<>> /\ u < pinned[1].json.next /\ u < json'.next
    <3>1. ~wiped
      BY <1>1, <2>3 DEF Start
    <3>2. pinned # <<>> /\ u < pinned[1].json.next
      BY <2>3, <3>1 DEF SecuredKept
    <3>3. CASE \E now \in Restorable : Load(now)
      BY <3>2, <3>3 DEF Load, Restorable
    <3>4. CASE /\ Load(disk)
               /\ wiped' = (wiped \/ left = "half" \/ \E v \in secured : v >= disk.json.next)
      <4>1. ~ (u >= disk.json.next) /\ json' = disk.json
        BY <2>3, <3>4 DEF Load
      <4>2. disk.json.next \in Int /\ u \in Int
        BY <1>a, <1>b DEF Copy, Offsets
      <4>3. QED
        BY <3>2, <4>1, <4>2
    <3>5. QED
      BY <1>1, <3>2, <3>3, <3>4 DEF Start
  <2>4. QED
    BY <2>1, <2>2, <2>3 DEF SecuredKept
<1>2. CASE Backup
  <2>1. json' = json /\ wiped' = wiped /\ disk' = disk /\ at = "backing" /\ disk.json = json
    BY <1>2 DEF Backup, SavedFirst
  <2>2. CASE UNCHANGED <<pinned, secured>>
    BY <2>1, <2>2 DEF SecuredKept, Up
  <2>3. CASE /\ pinned' = <<disk>>
             /\ secured' = secured \cup {u \in Command : u < disk.json.next}
    <3>1. pinned' # <<>> /\ pinned'[1] = disk
      BY <2>3
    <3>2. ~wiped => \A u \in secured' : u < json.next
      BY <2>1, <2>3 DEF SecuredKept, Up
    <3>3. QED
      BY <2>1, <2>3, <3>1, <3>2 DEF SecuredKept
  <2>4. QED
    BY <1>2, <2>2, <2>3 DEF Backup, BackedUp
<1>3. CASE /\ UNCHANGED <<pinned, secured, wiped>>
           /\ Up' => Up
           /\ ~Start
  <2>1. json'.next >= json.next /\ json.next \in Int /\ json'.next \in Int
    BY <1>3, OffsetForward
  <2>2. \A u \in secured : u < json.next => u < json'.next
    BY <1>a, <1>b, <2>1
  <2>3. QED
    BY <1>3, <2>2 DEF SecuredKept
<1>4. CASE DieRestoring \/ Crash \/ Save \/ RemindNext \/ RemindFails
  BY <1>1, <1>3, <1>4
  DEF DieRestoring, Crash, Save, RemindNext, RemindFails, NextDue, Up
<1>5. CASE Quiet \/ \E begun \in BOOLEAN : HandlerStep(begun)
  BY <1>1, <1>3, <1>5 DEF Quiet, HandlerStep, Up
<1>6. QED
  BY <1>1, <1>2, <1>4, <1>5, StepKinds

(* A reminder of a command that is not forgotten is on file wherever the   *)
(* offset says it must be.                                                 *)
Recalled(u) == finished[u] > forgot[u]

RemindersKept ==
  /\ pinned = <<>> => left # "half"
  /\ ~wiped => \A u \in Reminding : Recalled(u) =>
       /\ Up \/ left = "wal" => HasReminder(disk, u)
       /\ left # "half" /\ u < disk.json.next => HasReminder(disk, u)
       /\ pinned # <<>> /\ u < pinned[1].json.next => HasReminder(pinned[1], u)

LEMMA RowsStay ==
  ASSUME disk \in Copy, NEW r \in Reminder, NEW s \in ReminderStatuses, s # "none",
         NEW u \in Reminding
  PROVE  /\ HasReminder(disk, u) => HasReminder(WithRow(r, s), u)
         /\ u = r[1] => HasReminder(WithRow(r, s), u)
<1>1. \A k \in 1 .. HostFaults + 1 :
        WithRow(r, s).rows[<<u, k>>] = IF <<u, k>> = r THEN s ELSE disk.rows[<<u, k>>]
  BY RowWritten DEF Reminder
<1>2. u = r[1] => r[2] \in 1 .. HostFaults + 1 /\ r = <<u, r[2]>>
  BY DEF Reminder
<1>3. QED
  BY <1>1, <1>2 DEF HasReminder
LEMMA NextKept ==
  ASSUME Basics, Basics', Orders, RowsPaid, EndsCounted, SavedFirst, SecuredKept,
         RemindersKept, [HostNext]_hostVars
  PROVE  RemindersKept'
<1>a. /\ secured \subseteq Command /\ disk \in Copy /\ forgot \in [Command -> Nat]
      /\ finished \in [Command -> Nat]
  BY DEF Basics, Typed
<1>b. \A u \in Reminding : u \in Command
  BY DEF Command
<1>c. ASSUME ~wiped, NEW u \in Reminding, Recalled(u)
      PROVE  /\ Up \/ left = "wal" => HasReminder(disk, u)
             /\ left # "half" /\ u < disk.json.next => HasReminder(disk, u)
             /\ pinned # <<>> /\ u < pinned[1].json.next => HasReminder(pinned[1], u)
  BY <1>c DEF RemindersKept
<1>1. CASE Start
  <2>1. PICK now \in Restorable \cup {disk} : Load(now)
    BY <1>1 DEF Start
  <2>2. /\ disk' = now /\ json' = now.json /\ left' = "clean" /\ pinned' = pinned
        /\ finished' = finished
        /\ forgot' = Counted(forgot, {v \in Command : v < json.next /\ v >= now.json.next})
    BY <1>1, <2>1 DEF Start, Load
  <2>3. ASSUME ~wiped', NEW u \in Reminding, Recalled(u)'
        PROVE  HasReminder(now, u) /\ Recalled(u) /\ ~wiped
    <3>1. ~wiped
      BY <1>1, <2>3 DEF Start
    <3>2. now.json.next \in Int /\ u \in Int /\ json.next \in Int
      <4>1. disk' \in Copy /\ json \in Offsets
        BY DEF Basics, Typed
      <4>2. QED
        BY <2>2, <4>1, <1>b DEF Copy, Offsets, Command
    <3>3. finished[u] <= forgot[u] + One(u < json.next) /\ finished[u] \in Nat /\ forgot[u] \in Nat
      BY <1>a, <1>b DEF EndsCounted
    <3>4. u < now.json.next /\ Recalled(u)
      <4>1. finished[u] > forgot'[u]
        BY <2>2, <2>3 DEF Recalled
      <4>2. CASE u < json.next /\ u >= now.json.next
        BY <1>a, <1>b, <2>2, <3>2, <3>3, <4>1, <4>2 DEF Counted, One
      <4>3. CASE ~(u < json.next /\ u >= now.json.next)
        <5>1. forgot'[u] = forgot[u]
          BY <1>a, <1>b, <2>2, <4>3 DEF Counted
        <5>2. u < json.next
          BY <3>3, <4>1, <5>1 DEF One
        <5>3. QED
          BY <3>2, <4>1, <4>3, <5>1, <5>2 DEF Recalled
      <4>4. QED
        BY <4>2, <4>3
    <3>5. CASE pinned # <<>> /\ now \in Restorable
      <4>1. now.json = pinned[1].json
            /\ (now.rows = pinned[1].rows \/ (left = "wal" /\ now.rows = disk.rows))
        BY <3>5 DEF Restorable
      <4>2. HasReminder(pinned[1], u) /\ (left = "wal" => HasReminder(disk, u))
        BY <1>c, <3>1, <3>4, <3>5, <4>1
      <4>3. QED
        BY <3>1, <3>4, <4>1, <4>2 DEF HasReminder
    <3>6. CASE now = disk /\ left # "half"
      BY <1>c, <3>1, <3>4, <3>6
    <3>7. now = disk \/ (pinned # <<>> /\ now \in Restorable)
      BY <1>1, <2>2 DEF Start, Load
    <3>8. left = "half" => pinned # <<>> /\ now \in Restorable
      <4>1. left = "half" => pinned # <<>>
        BY DEF RemindersKept
      <4>2. ~(wiped' = (wiped \/ left = "half" \/ \E v \in secured : v >= disk.json.next))
            \/ left # "half"
        BY <2>3
      <4>3. \/ pinned = <<>>
            \/ \E other \in Restorable : Load(other)
            \/ wiped' = (wiped \/ left = "half" \/ \E v \in secured : v >= disk.json.next)
        BY <1>1 DEF Start
      <4>4. QED
        BY <2>2, <4>1, <4>2, <4>3 DEF Load
    <3>9. QED
      BY <3>5, <3>6, <3>7, <3>8
  <2>4. QED
    BY <1>c, <2>2, <2>3 DEF RemindersKept
<1>2. CASE DieRestoring
  <2>1. /\ pinned # <<>> /\ left' = "half" /\ ~Up' /\ wiped' = wiped
        /\ UNCHANGED <<pinned, finished, forgot>>
    BY <1>2 DEF DieRestoring, Up
  <2>2. QED
    BY <1>c, <2>1 DEF RemindersKept, Recalled
<1>3. CASE Crash
  <2>1. Up /\ ~Up' /\ UNCHANGED <<pinned, finished, forgot, wiped>>
    BY <1>3 DEF Crash, Up
  <2>2. CASE left' = "wal" /\ UNCHANGED disk
    BY <1>c, <2>1, <2>2 DEF RemindersKept, Recalled
  <2>3. CASE disk' = Blank /\ left' = "clean"
    <3>1. \A u \in Reminding : ~(u < disk'.json.next)
      BY <2>3 DEF Blank
    <3>2. QED
      BY <1>c, <2>1, <2>3, <3>1 DEF RemindersKept, Recalled
  <2>4. QED
    BY <1>3, <2>2, <2>3 DEF Crash
<1>4. CASE Save \/ Backup
  <2>1. UNCHANGED <<left, finished, forgot, wiped>> /\ disk'.rows = disk.rows /\ Up
        /\ (pinned' = pinned \/ pinned' = <<disk>>)
    BY <1>4, <1>a DEF Save, Backup, BackedUp, Up, Copy
  <2>2. \A u \in Reminding : HasReminder(disk', u) <=> HasReminder(disk, u)
    BY <2>1 DEF HasReminder
  <2>3. pinned' = <<disk>> => pinned' # <<>> /\ pinned'[1] = disk
    OBVIOUS
  <2>4. pinned' = <<>> => left' # "half"
    BY <2>1, <2>3 DEF RemindersKept
  <2>5. ASSUME ~wiped, NEW u \in Reminding, Recalled(u)
        PROVE  HasReminder(disk', u) /\ (pinned' # <<>> /\ u < pinned'[1].json.next
                                           => HasReminder(pinned'[1], u))
    BY <1>c, <2>1, <2>2, <2>3, <2>5
  <2>6. QED
    BY <2>1, <2>4, <2>5 DEF RemindersKept, Recalled
<1>5. ASSUME UNCHANGED <<pinned, left, wiped, finished, forgot>>, Up, Up',
             \A u \in Reminding : HasReminder(disk, u) => HasReminder(disk', u)
      PROVE  RemindersKept'
  BY <1>c, <1>5 DEF RemindersKept, Recalled
<1>6. CASE RemindNext
  <2>1. PICK q \in Reminder, s \in ReminderStatuses : s # "none" /\ disk' = WithRow(q, s)
    BY <1>6 DEF RemindNext, ReminderStatuses
  <2>2. \A u \in Reminding : HasReminder(disk, u) => HasReminder(disk', u)
    BY <1>a, <2>1, RowsStay
  <2>3. QED
    BY <1>5, <1>6, <2>2 DEF RemindNext, NextDue, Up
<1>7. CASE RemindFails
  BY <1>5, <1>7 DEF RemindFails, NextDue, Up
<1>8. ASSUME NEW begun \in BOOLEAN, HandlerStep(begun) PROVE RemindersKept'
  <2>1. /\ UNCHANGED <<pinned, left, wiped, forgot>> /\ Up /\ Up'
        /\ disk' = Recorded(begun) /\ at = "handling"
    BY <1>8 DEF HandlerStep, Up
  <2>2. /\ \A u \in Reminding : HasReminder(disk, u) => HasReminder(disk', u)
        /\ begun = TRUE /\ req \in Reminding => HasReminder(disk', req)
    <3>1. ASSUME NEW k \in 1 .. HostFaults + 1, req \in Reminding,
                 disk' = WithRow(<<req, k>>, "pending")
          PROVE  /\ \A u \in Reminding : HasReminder(disk, u) => HasReminder(disk', u)
                 /\ HasReminder(disk', req)
      <4>1. <<req, k>> \in Reminder /\ <<req, k>>[1] = req /\ "pending" \in ReminderStatuses
        BY <3>1 DEF Reminder, ReminderStatuses
      <4>2. QED
        BY <1>a, <3>1, <4>1, RowsStay
    <3>2. QED
      BY <2>1, <3>1, RecordedRow
  <2>3. CASE UNCHANGED finished
    BY <1>5, <2>1, <2>2, <2>3
  <2>4. CASE begun = TRUE /\ finished' = Counted(finished, {req})
    <3>1. ASSUME ~wiped, NEW u \in Reminding, Recalled(u)'
          PROVE  /\ HasReminder(disk', u)
                 /\ pinned # <<>> /\ u < pinned[1].json.next => HasReminder(pinned[1], u)
      <4>1. CASE u = req
        <5>1. ~(pinned # <<>> /\ u < pinned[1].json.next)
          <6>1. SUFFICES ASSUME pinned # <<>>, u < pinned[1].json.next PROVE FALSE
            OBVIOUS
          <6>2. u \in secured
            BY <1>b, <6>1 DEF SecuredKept
          <6>3. u < json.next
            BY <2>1, <3>1, <6>2 DEF SecuredKept
          <6>4. req >= json.next /\ req \in Int /\ json.next \in Int
            <7>1. json \in Offsets
              BY DEF Basics, Typed
            <7>2. QED
              BY <2>1, <7>1 DEF Basics, Typed, Turn, Offsets
          <6>5. QED
            BY <4>1, <6>3, <6>4
        <5>2. QED
          BY <2>2, <2>4, <4>1, <5>1
      <4>2. CASE u # req
        <5>1. Recalled(u)
          BY <1>a, <1>b, <2>1, <2>4, <3>1, <4>2 DEF Recalled, Counted
        <5>2. QED
          BY <1>c, <2>1, <2>2, <3>1, <5>1
      <4>3. QED
        BY <4>1, <4>2
    <3>2. QED
      BY <2>1, <3>1 DEF RemindersKept
  <2>5. QED
    BY <1>8, <2>3, <2>4 DEF HandlerStep
<1>9. CASE Quiet
  BY <1>c, <1>9 DEF Quiet, RemindersKept, Recalled
<1>10. QED
  BY <1>1, <1>2, <1>3, <1>4, <1>6, <1>7, <1>8, <1>9, StepKinds

----------------------------------------------------------------------------
(* The theorems.                                                           *)

HostInv ==
  /\ Basics /\ EndsCounted /\ ToldCounted /\ RowsPaid
  /\ SavedFirst /\ SecuredKept /\ RemindersKept

LEMMA InitHolds == HostInit => HostInv
<1> SUFFICES ASSUME HostInit PROVE HostInv
  OBVIOUS
<1>1. Basics
  BY InitBasics
<1>2. EndsCounted /\ ToldCounted
  BY DEF HostInit, EndsCounted, ToldCounted, One
<1>3. RowsPaid
  <2>1. \A u \in Reminding : RowsUsed(disk.rows, u) = {}
    BY DEF HostInit, RowsUsed, Blank, Reminder
  <2>2. \A u \in Reminding : Cardinality(RowsUsed(disk.rows, u)) = 0
    BY <2>1, FS_EmptySet
  <2>3. hostFaults = 0 /\ pinned = <<>>
    BY DEF HostInit
  <2>4. Stopping
    BY DEF HostInit, Stopping
  <2>5. \A u \in Reminding : One(~Stopping /\ u < json.next) = 0
    BY <2>4 DEF One
  <2>6. \A u \in Reminding :
          Cardinality(RowsUsed(disk.rows, u)) <= hostFaults + One(~Stopping /\ u < json.next)
    <3> SUFFICES ASSUME NEW u \in Reminding
                 PROVE  Cardinality(RowsUsed(disk.rows, u)) <= hostFaults + One(~Stopping /\ u < json.next)
      OBVIOUS
    <3>1. Cardinality(RowsUsed(disk.rows, u)) = 0 /\ One(~Stopping /\ u < json.next) = 0
      BY <2>2, <2>5
    <3>2. QED
      BY <2>3, <3>1
  <2>7. pinned = <<>>
    BY <2>3
  <2>8. QED
    BY <2>6, <2>7, Zenon DEF RowsPaid
<1>4. SavedFirst /\ SecuredKept /\ RemindersKept
  <2>1. \A u \in Reminding : ~Recalled(u)
    BY DEF HostInit, Recalled, Command
  <2>2. RemindersKept
    BY <2>1 DEF HostInit, RemindersKept
  <2>3. QED
    BY <2>2 DEF HostInit, SavedFirst, SecuredKept, Up
<1>5. QED
  BY <1>1, <1>2, <1>3, <1>4 DEF HostInv

LEMMA InvHolds == HostInit /\ [][HostNext]_hostVars => []HostInv
<1>1. ASSUME HostInv, Orders, [HostNext]_hostVars PROVE HostInv'
  <2>1. Basics'
    BY <1>1, NextBasics DEF HostInv
  <2>2. QED
    BY <1>1, <2>1, NextEnds, NextTold, NextPaid, NextSaved, NextSecured, NextKept DEF HostInv
<1>2. QED
  BY <1>1, InitHolds, OrdersHold, PTL

(* Every variable of the host has its type, however it is scheduled.       *)
LEMMA HostTypesAlways == HostInit /\ [][HostNext]_hostVars => []HostTypes
<1>1. HostInv /\ Flags => HostTypes
  BY TypesFollow DEF HostInv, Basics
<1>2. QED
  BY <1>1, InvHolds, FlagsHold, PTL

(* Every reachable state of the service, its disk, its copy and Telegram   *)
(* has the types the model gives them.                                     *)
THEOREM HostTypesHold == HostSpec => []HostTypes
BY HostTypesAlways, PTL DEF HostSpec

(* A command runs to its end again, and a reminder is shown again, only    *)
(* when a restart had forgotten it or the answer was lost.                 *)
THEOREM DoneOncePerCause == HostSpec => []OncePerCause
<1>1. HostInv => OncePerCause
  <2> SUFFICES ASSUME HostInv PROVE OncePerCause
    OBVIOUS
  <2>1. \A b : One(b) \in {0, 1}
    BY DEF One
  <2>2. HandledOnce
    <3>1. \A u \in Command : finished[u] \in Nat /\ forgot[u] \in Nat
      BY DEF HostInv, Basics, Typed
    <3>2. QED
      BY <2>1, <3>1 DEF HostInv, EndsCounted, HandledOnce
  <2>3. RemindedOnce
    <3>1. \A r \in Reminder : told[r] \in Nat /\ unheard[r] \in Nat /\ undone[r] \in Nat
      BY DEF HostInv, Basics, Typed
    <3>2. QED
      BY <2>1, <3>1 DEF HostInv, ToldCounted, RemindedOnce
  <2>4. QED
    BY <2>2, <2>3 DEF OncePerCause
<1>2. QED
  BY <1>1, InvHolds, PTL DEF HostSpec

(* The copy in the chat keeps what it was given, and the offset it holds   *)
(* is never past a finished command whose reminder is missing.             *)
THEOREM CopyLosesNothing == HostSpec => []CopyKeepsAll
<1>1. HostInv => CopyKeepsAll
  <2> SUFFICES ASSUME HostInv, ~wiped PROVE SecuredStays /\ RemindersFollowOffset
    BY DEF CopyKeepsAll, SecuredStays, RemindersFollowOffset
  <2>1. Serving => Up
    BY DEF Serving, Up
  <2>2. SecuredStays
    BY <2>1 DEF HostInv, SecuredKept, SecuredStays
  <2>3. ASSUME NEW i \in DOMAIN pinned, NEW u \in Reminding, u < pinned[i].json.next,
               Recalled(u)
        PROVE  HasReminder(pinned[i], u)
    <3>1. pinned # <<>> /\ i = 1
      BY DEF HostInv, Basics, Typed, MaybeCopy
    <3>2. QED
      BY <2>3, <3>1 DEF HostInv, RemindersKept
  <2>4. ASSUME Serving, NEW u \in Reminding, Recalled(u) PROVE HasReminder(disk, u)
    BY <2>1, <2>4 DEF HostInv, RemindersKept
  <2>5. RemindersFollowOffset
    BY <2>3, <2>4 DEF RemindersFollowOffset, Recalled
  <2>6. QED
    BY <2>2, <2>5
<1>2. QED
  BY <1>1, InvHolds, PTL DEF HostSpec

-----------------------------------------------------------------------------
(***************************************************************************)
(* Requests for the posts of a day (DateRequests).                         *)
(***************************************************************************)

JobRecord ==
  [status : Ended \cup AtWork \cup {"absent"}, generation : Nat, pending : SUBSET DaySource,
   coverage : [DaySource -> Coverage], observed : SUBSET DayPost, selected : SUBSET DayPost,
   delivered : SUBSET DayPost, attempts : [DayPost -> Nat], waiting : BOOLEAN, loaded : BOOLEAN]

JobsShape ==
  /\ jobs \in [Job -> JobRecord] /\ proved \in [Job -> SUBSET DaySource]
  /\ enabled \subseteq DaySource /\ published \subseteq DayPost /\ archive \subseteq published
  /\ shown \in [Job \X DayPost -> Nat] /\ slipped \in [Job \X DayPost -> Nat]

(* What holds of a job with record r while the sources E are enabled and    *)
(* those of V have been read whole for it.                                 *)
KeptJob(j, r, E, V) ==
  /\ \A s \in DaySource : r.coverage[s] = "complete" => s \in V
  /\ r.status # "collecting" => r.pending = {}
  /\ r.status = "complete" =>
       /\ V # {} /\ \A s \in DaySource : r.coverage[s] # "" => s \in V
       /\ Remaining(r) = {}
  /\ j \in LiveOnly /\ r.status \in {"delivering", "complete"} =>
       \A p \in r.observed : (/\ Parent[p] \in r.selected /\ Author[p] = Author[Parent[p]]
                              /\ Author[p] \in E) => p \in r.selected

(* A post is sent once, and that is recorded, or the record failed.        *)
SendsCounted ==
  \A j \in Job : \A p \in DayPost :
    shown[<<j, p>>] <= (IF p \in jobs[j].delivered THEN 1 ELSE 0) + slipped[<<j, p>>]

DaysInv ==
  /\ JobsShape /\ SendsCounted
  /\ \A j \in Job : KeptJob(j, jobs[j], enabled, proved[j])

(* The least-number principle for a set of naturals.                       *)
LEMMA LeastPost ==
  ASSUME NEW T, T \subseteq Nat, T # {}
  PROVE  \E x \in T : \A y \in T : x <= y
<1> DEFINE R == OpToRel(<, Nat)
<1>1. IsWellFoundedOn(R, Nat)
  BY NatLessThanWellFounded
<1>2. PICK x \in T : \A y \in T : ~(<<y, x>> \in R)
  BY <1>1, WFMin
<1>3. \A y \in T : ~(y < x)
  BY <1>2 DEF OpToRel
<1>4. QED
  BY <1>3

(* The walk along the answers takes every answer to what it takes.         *)
LEMMA ThreadIsWhole ==
  ASSUME NEW S \in SUBSET DayPost
  PROVE  /\ Thread(S) \subseteq S
         /\ \A p \in S : Parent[p] \in Thread(S) /\ Author[Parent[p]] = Author[p] => p \in Thread(S)
BY DEF Thread

(* What the steps of a job make of its record.                             *)
LEMMA LoadedJob ==
  ASSUME JobsShape, NEW j \in Job
  PROVE  /\ Loaded(j) \in JobRecord /\ Loaded(j).status = jobs[j].status
         /\ Loaded(j).pending = jobs[j].pending /\ Loaded(j).coverage = jobs[j].coverage
         /\ Loaded(j).delivered = jobs[j].delivered /\ Loaded(j).generation = jobs[j].generation
<1> DEFINE r == jobs[j]
           more == r.observed \cup {p \in archive : Author[p] \in Scope[j] \cap enabled}
           b == [r EXCEPT !.loaded = TRUE, !.observed = more]
<1>1. r \in JobRecord /\ more \subseteq DayPost
  BY DEF JobsShape, JobRecord
<1>2. Loaded(j) = IF r.loaded THEN r ELSE b
  BY DEF Loaded
<1> HIDE DEF r, more
<1>3. b \in JobRecord
  BY <1>1 DEF JobRecord
<1>4. b.status = r.status /\ b.pending = r.pending /\ b.coverage = r.coverage
      /\ b.delivered = r.delivered /\ b.generation = r.generation
  BY <1>1 DEF JobRecord
<1>5. QED
  BY <1>1, <1>2, <1>3, <1>4 DEF r

ReadFor(r, s, outcome, found) ==
  [r EXCEPT !.pending = @ \ {s}, !.coverage[s] = outcome, !.observed = @ \cup found]

(* One source read, or not.                                                *)
LEMMA CollectedJob ==
  ASSUME NEW r \in JobRecord, NEW s \in DaySource, NEW outcome \in Coverage,
         NEW found \in SUBSET DayPost
  PROVE  LET b == ReadFor(r, s, outcome, found) IN
         /\ b \in JobRecord /\ b.status = r.status /\ b.pending = r.pending \ {s}
         /\ b.coverage = [r.coverage EXCEPT ![s] = outcome] /\ b.delivered = r.delivered
<1> DEFINE unasked == r.pending \ {s}
           cov == [r.coverage EXCEPT ![s] = outcome]
           seen == r.observed \cup found
           b == [r EXCEPT !.pending = unasked, !.coverage = cov, !.observed = seen]
<1>1. unasked \in SUBSET DaySource /\ cov \in [DaySource -> Coverage] /\ seen \in SUBSET DayPost
  BY DEF JobRecord
<1>2. ReadFor(r, s, outcome, found) = b
  BY DEF JobRecord, ReadFor
<1> HIDE DEF unasked, cov, seen
<1>3. b \in JobRecord
  BY <1>1 DEF JobRecord
<1>4. b.status = r.status /\ b.pending = unasked /\ b.coverage = cov /\ b.delivered = r.delivered
  BY <1>1 DEF JobRecord
<1>5. QED
  BY <1>2, <1>3, <1>4 DEF unasked, cov

(* The posts of the day are selected once.                                 *)
LEMMA SelectedJob ==
  ASSUME NEW r \in JobRecord, NEW j \in Job
  PROVE  LET mine == {p \in r.observed : Author[p] \in Scope[j] \cap enabled}
             b == Selected(j, r) IN
         /\ b \in JobRecord /\ b.status = "delivering" /\ b.pending = r.pending
         /\ b.coverage = r.coverage /\ b.delivered = r.delivered /\ b.observed = r.observed
         /\ b.selected = IF j \in LiveOnly THEN Thread(mine) ELSE mine
<1> DEFINE mine == {p \in r.observed : Author[p] \in Scope[j] \cap enabled}
           sel == IF j \in LiveOnly THEN Thread(mine) ELSE mine
           b == [r EXCEPT !.status = "delivering", !.selected = sel]
<1>1. mine \in SUBSET DayPost
  BY DEF JobRecord
<1>2. sel \in SUBSET DayPost
  BY <1>1, ThreadIsWhole
<1>3. Selected(j, r) = b
  BY DEF Selected
<1> HIDE DEF mine, sel
<1>4. b \in JobRecord
  BY <1>2 DEF JobRecord, AtWork
<1>5. b.status = "delivering" /\ b.pending = r.pending /\ b.coverage = r.coverage
      /\ b.delivered = r.delivered /\ b.observed = r.observed /\ b.selected = sel
  BY <1>2 DEF JobRecord
<1>6. QED
  BY <1>3, <1>4, <1>5 DEF mine, sel

(* The job ends or is put aside.                                           *)
LEMMA StatusOnly ==
  ASSUME NEW r \in JobRecord, NEW st \in Ended \cup AtWork \cup {"absent"}
  PROVE  LET b == [r EXCEPT !.status = st] IN
         /\ b \in JobRecord /\ b.status = st /\ b.pending = r.pending /\ b.coverage = r.coverage
         /\ b.delivered = r.delivered /\ b.observed = r.observed /\ b.selected = r.selected
BY DEF JobRecord

(* A post whose translation is not ready.                                  *)
LEMMA PutOffJob ==
  ASSUME NEW r \in JobRecord, NEW p \in DayPost
  PROVE  LET b == PutOff(r, p) IN
         /\ b \in JobRecord /\ b.status \in {r.status, "translation_pending"}
         /\ b.pending = r.pending /\ b.coverage = r.coverage
         /\ b.delivered = r.delivered /\ b.observed = r.observed /\ b.selected = r.selected
<1> DEFINE tries == [r.attempts EXCEPT ![p] = @ + 1]
           st == IF r.attempts[p] + 1 >= Retries THEN "translation_pending" ELSE r.status
           b == [r EXCEPT !.attempts = tries, !.waiting = TRUE, !.status = st]
<1>1. tries \in [DayPost -> Nat] /\ st \in {r.status, "translation_pending"}
  BY DEF JobRecord
<1>2. PutOff(r, p) = b
  BY DEF PutOff, JobRecord
<1> HIDE DEF tries, st
<1>3. b \in JobRecord
  BY <1>1 DEF JobRecord, Ended
<1>4. b.status = st /\ b.pending = r.pending /\ b.coverage = r.coverage
      /\ b.delivered = r.delivered /\ b.observed = r.observed /\ b.selected = r.selected
  BY <1>1 DEF JobRecord
<1>5. QED
  BY <1>1, <1>2, <1>3, <1>4

(* The job is asked for anew.                                              *)
LEMMA AskedJob ==
  ASSUME NEW r \in JobRecord, NEW j \in Job, enabled \subseteq DaySource
  PROVE  LET b == Asked(r, j) IN
         /\ b \in JobRecord /\ b.status = "collecting" /\ b.delivered = r.delivered
         /\ b.coverage = [s \in DaySource |-> ""]
<1> DEFINE g == r.generation + 1
           ask == Scope[j] \cap enabled
           cov == [s \in DaySource |-> ""]
           b == [r EXCEPT !.status = "collecting", !.generation = g, !.pending = ask,
                          !.coverage = cov, !.observed = {}, !.selected = {},
                          !.loaded = FALSE, !.waiting = FALSE]
<1>1. g \in Nat /\ ask \in SUBSET DaySource
  BY DEF JobRecord
<1>2. cov \in [DaySource -> Coverage]
  BY DEF Coverage
<1>3. Asked(r, j) = b
  BY DEF Asked
<1> HIDE DEF g, ask, cov
<1>4. b \in JobRecord
  BY <1>1, <1>2 DEF JobRecord, AtWork
<1>5. b.status = "collecting" /\ b.delivered = r.delivered /\ b.coverage = cov
  BY <1>1, <1>2 DEF JobRecord
<1>6. QED
  BY <1>3, <1>4, <1>5 DEF cov

(* A job goes on with another record that holds what a record must.        *)
LEMMA JobGoesOn ==
  ASSUME JobsShape, NEW j \in Job, NEW b \in JobRecord, jobs' = [jobs EXCEPT ![j] = b],
         \A i \in Job : i # j => KeptJob(i, jobs[i], enabled, proved[i]) /\ proved'[i] = proved[i],
         KeptJob(j, b, enabled, proved'[j]), UNCHANGED enabled
  PROVE  /\ jobs' \in [Job -> JobRecord] /\ jobs'[j] = b /\ \A i \in Job : i # j => jobs'[i] = jobs[i]
         /\ \A i \in Job : KeptJob(i, jobs'[i], enabled', proved'[i])
<1>1. /\ jobs' \in [Job -> JobRecord] /\ jobs'[j] = b
      /\ \A i \in Job : i # j => jobs'[i] = jobs[i]
  BY DEF JobsShape
<1>2. \A i \in Job : KeptJob(i, jobs'[i], enabled', proved'[i])
  <2> SUFFICES ASSUME NEW i \in Job PROVE KeptJob(i, jobs'[i], enabled', proved'[i])
    OBVIOUS
  <2>1. CASE i = j
    <3>1. QED
      BY <2>1, <1>1
  <2>2. CASE i # j
    BY <2>2, <1>1
  <2>3. QED
    BY <2>1, <2>2
<1>3. QED
  BY <1>1, <1>2

(* Nothing is sent and what was delivered is remembered.                   *)
LEMMA NothingSent ==
  ASSUME JobsShape, SendsCounted, UNCHANGED <<shown, slipped>>,
         \A i \in Job : jobs'[i].delivered = jobs[i].delivered
  PROVE  SendsCounted'
BY DEF SendsCounted

(* The rest of a step, for a job whose record is r by now.                 *)
LEMMA ContinueKeeps ==
  ASSUME JobsShape, SendsCounted, \A i \in Job : KeptJob(i, jobs[i], enabled, proved[i]),
         NEW j \in Job, NEW r \in JobRecord, r.status = "delivering", r.pending = {},
         KeptJob(j, r, enabled, proved[j]), r.delivered = jobs[j].delivered,
         Continue(j, r), UNCHANGED <<enabled, published, archive, proved>>
  PROVE  DaysInv'
<1>kept. /\ \A s \in DaySource : r.coverage[s] = "complete" => s \in proved[j]
         /\ j \in LiveOnly => \A q \in r.observed :
              (/\ Parent[q] \in r.selected /\ Author[q] = Author[Parent[q]]
               /\ Author[q] \in enabled) => q \in r.selected
  BY DEF KeptJob
<1>typed. /\ r.selected \subseteq DayPost /\ r.delivered \subseteq DayPost
          /\ r.coverage \in [DaySource -> Coverage] /\ r.observed \subseteq DayPost
  BY DEF JobRecord
<1>types. shown \in [Job \X DayPost -> Nat] /\ slipped \in [Job \X DayPost -> Nat]
  BY DEF JobsShape
<1>goes. ASSUME NEW b \in JobRecord, jobs' = [jobs EXCEPT ![j] = b],
                KeptJob(j, b, enabled, proved[j])
         PROVE  /\ jobs' \in [Job -> JobRecord] /\ jobs'[j] = b
                /\ \A i \in Job : i # j => jobs'[i] = jobs[i]
                /\ \A i \in Job : KeptJob(i, jobs'[i], enabled', proved'[i])
  BY <1>goes, JobGoesOn
<1>still. ASSUME NEW b \in JobRecord, jobs' = [jobs EXCEPT ![j] = b],
                 KeptJob(j, b, enabled, proved[j]), b.delivered = r.delivered,
                 UNCHANGED <<shown, slipped>>
          PROVE  DaysInv'
  <2>1. SendsCounted'
    BY <1>still, <1>goes, NothingSent
  <2>2. JobsShape'
    BY <1>still, <1>goes DEF JobsShape
  <2>3. QED
    BY <2>1, <2>2, <1>still, <1>goes DEF DaysInv
<1> DEFINE p == CHOOSE p \in Remaining(r) : \A q \in Remaining(r) : p <= q
<1>first. Remaining(r) # {} => p \in Remaining(r) /\ p \in DayPost /\ p \notin r.delivered
  <2>1. Remaining(r) \subseteq Nat
    BY <1>typed, RequestConstants DEF Remaining
  <2>2. Remaining(r) # {} => \E x \in Remaining(r) : \A q \in Remaining(r) : x <= q
    BY <2>1, LeastPost
  <2>3. QED
    BY <2>2, <1>typed DEF Remaining
<1>step.
  \/ Remaining(r) = {} /\ jobs' = [jobs EXCEPT ![j] = Finished(r)] /\ UNCHANGED <<shown, slipped>>
  \/ /\ Remaining(r) # {} /\ Author[p] \notin enabled
     /\ jobs' = [jobs EXCEPT ![j] = [r EXCEPT !.selected = @ \ {p}, !.coverage[Author[p]] = "disabled"]]
     /\ UNCHANGED <<shown, slipped>>
  \/ /\ Remaining(r) # {}
     /\ \/ /\ jobs' = [jobs EXCEPT ![j] = [r EXCEPT !.delivered = @ \cup {p}]]
           /\ shown' = [shown EXCEPT ![<<j, p>>] = @ + 1] /\ UNCHANGED slipped
        \/ jobs' = [jobs EXCEPT ![j] = PutOff(r, p)] /\ UNCHANGED <<shown, slipped>>
        \/ jobs' = [jobs EXCEPT ![j] = [r EXCEPT !.status = "partial"]] /\ UNCHANGED <<shown, slipped>>
        \/ /\ jobs' = [jobs EXCEPT ![j] = r] \/ UNCHANGED jobs
           /\ shown' = [shown EXCEPT ![<<j, p>>] = @ + 1]
           /\ slipped' = [slipped EXCEPT ![<<j, p>>] = @ + 1]
        \/ jobs' = [jobs EXCEPT ![j] = r] /\ UNCHANGED <<shown, slipped>>
  BY DEF Continue
<1> HIDE DEF p
<1>counts. ASSUME Remaining(r) # {} PROVE
              /\ shown[<<j, p>>] \in Nat /\ slipped[<<j, p>>] \in Nat
              /\ shown[<<j, p>>] <= slipped[<<j, p>>]
  <2>1. p \in DayPost /\ p \notin jobs[j].delivered
    BY <1>counts, <1>first
  <2>2. shown[<<j, p>>] \in Nat /\ slipped[<<j, p>>] \in Nat
    BY <2>1, <1>types
  <2>3. shown[<<j, p>>] <= 0 + slipped[<<j, p>>]
    BY <2>1 DEF SendsCounted
  <2>4. QED
    BY <2>2, <2>3
<1>same. UNCHANGED jobs => jobs' \in [Job -> JobRecord]
           /\ \A i \in Job : KeptJob(i, jobs'[i], enabled', proved'[i])
  BY DEF JobsShape
<1>1. CASE Remaining(r) = {} /\ jobs' = [jobs EXCEPT ![j] = Finished(r)] /\ UNCHANGED <<shown, slipped>>
  <2> DEFINE tried == {s \in DaySource : r.coverage[s] # ""}
             st == IF tried # {} /\ (\A s \in tried : r.coverage[s] = "complete") /\ ~dayOpen
                     THEN "complete" ELSE "partial"
             b == [r EXCEPT !.status = st]
  <2>1. Finished(r) = b
    BY DEF Finished
  <2>2. st \in {"complete", "partial"} /\ st \in Ended \cup AtWork \cup {"absent"}
    BY DEF Ended
  <2>3. st = "complete" => tried # {} /\ \A s \in tried : s \in proved[j]
    BY <1>kept
  <2>4. st = "complete" => proved[j] # {} /\ \A s \in DaySource : r.coverage[s] # "" => s \in proved[j]
    BY <2>3
  <2> HIDE DEF st
  <2>5. /\ b \in JobRecord /\ b.status = st /\ b.pending = r.pending /\ b.coverage = r.coverage
        /\ b.delivered = r.delivered /\ b.observed = r.observed /\ b.selected = r.selected
    BY <2>2, StatusOnly
  <2> HIDE DEF b, tried
  <2>6. Remaining(b) = {}
    BY <1>1, <2>5 DEF Remaining
  <2>7. KeptJob(j, b, enabled, proved[j])
    BY <2>2, <2>4, <2>5, <2>6, <1>kept DEF KeptJob
  <2>8. QED
    BY <1>1, <2>1, <2>5, <2>7, <1>still
<1>2. CASE /\ Remaining(r) # {} /\ Author[p] \notin enabled
           /\ jobs' = [jobs EXCEPT ![j] = [r EXCEPT !.selected = @ \ {p}, !.coverage[Author[p]] = "disabled"]]
           /\ UNCHANGED <<shown, slipped>>
  <2> DEFINE sel == r.selected \ {p}
             cov == [r.coverage EXCEPT ![Author[p]] = "disabled"]
             b == [r EXCEPT !.selected = sel, !.coverage = cov]
  <2>1. sel \subseteq DayPost /\ cov \in [DaySource -> Coverage]
        /\ \A s \in DaySource : cov[s] = "complete" => r.coverage[s] = "complete"
    BY <1>typed DEF Coverage
  <2>2. jobs' = [jobs EXCEPT ![j] = b]
    BY <1>2 DEF JobRecord
  <2> HIDE DEF sel, cov
  <2>3. b \in JobRecord
    BY <2>1 DEF JobRecord
  <2>4. b.status = "delivering" /\ b.pending = {} /\ b.coverage = cov
        /\ b.delivered = r.delivered /\ b.observed = r.observed /\ b.selected = sel
    BY <2>1 DEF JobRecord
  <2> HIDE DEF b
  <2>5. j \in LiveOnly => \A q \in b.observed :
              (/\ Parent[q] \in b.selected /\ Author[q] = Author[Parent[q]]
               /\ Author[q] \in enabled) => q \in b.selected
    BY <1>2, <2>4, <1>kept DEF sel
  <2>6. KeptJob(j, b, enabled, proved[j])
    BY <2>1, <2>4, <2>5, <1>kept DEF KeptJob
  <2>7. QED
    BY <1>2, <2>2, <2>3, <2>4, <2>6, <1>still
<1>3. CASE /\ Remaining(r) # {}
           /\ jobs' = [jobs EXCEPT ![j] = [r EXCEPT !.delivered = @ \cup {p}]]
           /\ shown' = [shown EXCEPT ![<<j, p>>] = @ + 1] /\ UNCHANGED slipped
  <2> DEFINE given == r.delivered \cup {p}
             b == [r EXCEPT !.delivered = given]
  <2>1. given \subseteq DayPost /\ p \in given
    BY <1>3, <1>first, <1>typed
  <2>2. jobs' = [jobs EXCEPT ![j] = b]
    BY <1>3 DEF JobRecord
  <2> HIDE DEF given
  <2>3. b \in JobRecord
    BY <2>1 DEF JobRecord
  <2>4. b.status = "delivering" /\ b.pending = {} /\ b.coverage = r.coverage
        /\ b.delivered = given /\ b.observed = r.observed /\ b.selected = r.selected
    BY <2>1 DEF JobRecord
  <2> HIDE DEF b
  <2>5. KeptJob(j, b, enabled, proved[j])
    BY <2>4, <1>kept DEF KeptJob
  <2>6. /\ jobs' \in [Job -> JobRecord] /\ jobs'[j] = b
        /\ \A i \in Job : i # j => jobs'[i] = jobs[i]
        /\ \A i \in Job : KeptJob(i, jobs'[i], enabled', proved'[i])
    BY <2>2, <2>3, <2>5, <1>goes
  <2>7. shown' \in [Job \X DayPost -> Nat] /\ shown'[<<j, p>>] = shown[<<j, p>>] + 1
        /\ \A i \in Job, q \in DayPost : (i # j \/ q # p) => shown'[<<i, q>>] = shown[<<i, q>>]
    BY <1>3, <1>first, <1>types
  <2>8. SendsCounted'
    <3> SUFFICES ASSUME NEW i \in Job, NEW q \in DayPost
                 PROVE  shown'[<<i, q>>] <= (IF q \in jobs'[i].delivered THEN 1 ELSE 0) + slipped'[<<i, q>>]
      BY DEF SendsCounted
    <3>0. shown[<<i, q>>] <= (IF q \in jobs[i].delivered THEN 1 ELSE 0) + slipped[<<i, q>>]
          /\ slipped' = slipped /\ shown[<<i, q>>] \in Nat /\ slipped[<<i, q>>] \in Nat
      BY <1>3, <1>types DEF SendsCounted
    <3>1. CASE i = j /\ q = p
      <4>1. q \in jobs'[i].delivered
        BY <3>1, <2>1, <2>4, <2>6
      <4>2. QED
        BY <3>1, <4>1, <1>3, <1>counts, <2>7
    <3>2. CASE i = j /\ q # p
      <4>1. q \in jobs'[i].delivered <=> q \in jobs[i].delivered
        BY <3>2, <2>4, <2>6 DEF given
      <4>2. QED
        BY <3>0, <3>2, <4>1, <2>7
    <3>3. CASE i # j
      BY <3>0, <3>3, <2>6, <2>7
    <3>4. QED
      BY <3>1, <3>2, <3>3
  <2>9. JobsShape'
    BY <1>3, <2>6, <2>7 DEF JobsShape
  <2>10. QED
    BY <2>6, <2>8, <2>9 DEF DaysInv
<1>4. CASE Remaining(r) # {} /\ jobs' = [jobs EXCEPT ![j] = PutOff(r, p)] /\ UNCHANGED <<shown, slipped>>
  <2> DEFINE b == PutOff(r, p)
  <2>1. /\ b \in JobRecord /\ b.status \in {"delivering", "translation_pending"}
        /\ b.pending = {} /\ b.coverage = r.coverage
        /\ b.delivered = r.delivered /\ b.observed = r.observed /\ b.selected = r.selected
    BY <1>4, <1>first, PutOffJob
  <2>2. jobs' = [jobs EXCEPT ![j] = b]
    BY <1>4
  <2> HIDE DEF b
  <2>3. KeptJob(j, b, enabled, proved[j])
    BY <2>1, <1>kept DEF KeptJob
  <2>4. QED
    BY <1>4, <2>1, <2>2, <2>3, <1>still
<1>5. CASE Remaining(r) # {} /\ jobs' = [jobs EXCEPT ![j] = [r EXCEPT !.status = "partial"]]
           /\ UNCHANGED <<shown, slipped>>
  <2> DEFINE b == [r EXCEPT !.status = "partial"]
  <2>1. /\ b \in JobRecord /\ b.status = "partial" /\ b.pending = {} /\ b.coverage = r.coverage
        /\ b.delivered = r.delivered /\ b.observed = r.observed /\ b.selected = r.selected
    BY StatusOnly DEF Ended
  <2> HIDE DEF b
  <2>2. KeptJob(j, b, enabled, proved[j])
    BY <2>1, <1>kept DEF KeptJob
  <2>3. QED
    BY <1>5, <2>1, <2>2, <1>still DEF b
<1>6. CASE /\ Remaining(r) # {}
           /\ jobs' = [jobs EXCEPT ![j] = r] \/ UNCHANGED jobs
           /\ shown' = [shown EXCEPT ![<<j, p>>] = @ + 1]
           /\ slipped' = [slipped EXCEPT ![<<j, p>>] = @ + 1]
  <2>1. /\ jobs' \in [Job -> JobRecord]
        /\ \A i \in Job : jobs'[i].delivered = jobs[i].delivered
        /\ \A i \in Job : KeptJob(i, jobs'[i], enabled', proved'[i])
    <3>1. CASE UNCHANGED jobs
      BY <3>1, <1>same
    <3>2. CASE jobs' = [jobs EXCEPT ![j] = r]
      BY <3>2, <1>goes
    <3>3. QED
      BY <1>6, <3>1, <3>2
  <2>2. shown' \in [Job \X DayPost -> Nat] /\ slipped' \in [Job \X DayPost -> Nat]
        /\ shown'[<<j, p>>] = shown[<<j, p>>] + 1 /\ slipped'[<<j, p>>] = slipped[<<j, p>>] + 1
        /\ \A i \in Job, q \in DayPost : (i # j \/ q # p) =>
             shown'[<<i, q>>] = shown[<<i, q>>] /\ slipped'[<<i, q>>] = slipped[<<i, q>>]
    BY <1>6, <1>first, <1>types
  <2>3. SendsCounted'
    <3> SUFFICES ASSUME NEW i \in Job, NEW q \in DayPost
                 PROVE  shown'[<<i, q>>] <= (IF q \in jobs'[i].delivered THEN 1 ELSE 0) + slipped'[<<i, q>>]
      BY DEF SendsCounted
    <3>0. shown[<<i, q>>] <= (IF q \in jobs[i].delivered THEN 1 ELSE 0) + slipped[<<i, q>>]
          /\ shown[<<i, q>>] \in Nat /\ slipped[<<i, q>>] \in Nat
      BY <1>types DEF SendsCounted
    <3>1. CASE i = j /\ q = p
      BY <3>0, <3>1, <2>1, <2>2
    <3>2. CASE i # j \/ q # p
      BY <3>0, <3>2, <2>1, <2>2
    <3>3. QED
      BY <3>1, <3>2
  <2>4. JobsShape'
    BY <2>1, <2>2 DEF JobsShape
  <2>5. QED
    BY <2>1, <2>3, <2>4 DEF DaysInv
<1>7. CASE jobs' = [jobs EXCEPT ![j] = r] /\ UNCHANGED <<shown, slipped>>
  BY <1>7, <1>still
<1>8. QED
  BY <1>step, <1>1, <1>2, <1>3, <1>4, <1>5, <1>6, <1>7

(* The first state satisfies the invariant.                                *)
LEMMA InitDays == RequestInit => DaysInv
<1> SUFFICES ASSUME RequestInit PROVE DaysInv
  OBVIOUS
<1>1. NewJob \in JobRecord /\ NewJob.delivered = {} /\ NewJob.status = "absent"
      /\ NewJob.pending = {} /\ NewJob.coverage = [s \in DaySource |-> ""]
  BY DEF NewJob, JobRecord, Ended, AtWork, Coverage
<1>2. JobsShape
  BY <1>1 DEF RequestInit, JobsShape
<1>3. SendsCounted
  <2>1. \A j \in Job : jobs[j] = NewJob
    BY DEF RequestInit
  <2>2. \A j \in Job, p \in DayPost : shown[<<j, p>>] = 0 /\ slipped[<<j, p>>] = 0
    BY DEF RequestInit
  <2>3. \A j \in Job : jobs[j].delivered = {}
    BY <1>1, <2>1
  <2>4. SUFFICES ASSUME NEW j \in Job, NEW p \in DayPost
                 PROVE  shown[<<j, p>>] <= (IF p \in jobs[j].delivered THEN 1 ELSE 0) + slipped[<<j, p>>]
    BY DEF SendsCounted
  <2>5. shown[<<j, p>>] = 0 /\ slipped[<<j, p>>] = 0 /\ p \notin jobs[j].delivered
    BY <2>2, <2>3
  <2>6. 0 <= 0 + 0
    OBVIOUS
  <2>7. QED
    BY <2>5, <2>6
<1>4. \A j \in Job : jobs[j] = NewJob
  BY DEF RequestInit
<1>5. \A j \in Job : KeptJob(j, jobs[j], enabled, proved[j])
  BY <1>1, <1>4 DEF KeptJob
<1>6. QED
  BY <1>2, <1>3, <1>5 DEF DaysInv

(* Every step keeps it.                                                    *)
LEMMA NextDays == DaysInv /\ [RequestNext]_requestVars => DaysInv'
<1> SUFFICES ASSUME DaysInv, [RequestNext]_requestVars PROVE DaysInv'
  OBVIOUS
<1>inv. JobsShape /\ SendsCounted /\ \A j \in Job : KeptJob(j, jobs[j], enabled, proved[j])
  BY DEF DaysInv
<1>served. \A j \in Job : Serves(j) => jobs[j].status \in {"collecting", "delivering"}
  BY DEF Serves, Ready, Line, ActiveSourceRequests, AtWork
<1>1. CASE Publish
  <2>1. /\ UNCHANGED <<jobs, enabled, proved, shown, slipped, archive>>
        /\ published \subseteq published' /\ published' \subseteq DayPost
    BY <1>1, <1>inv DEF Publish, JobsShape
  <2>2. JobsShape' /\ SendsCounted'
    BY <2>1, <1>inv DEF JobsShape, SendsCounted
  <2>3. QED
    BY <2>1, <2>2, <1>inv DEF DaysInv
<1>2. CASE DayEnds \/ DeliverDaily \/ UNCHANGED requestVars
  <2>1. UNCHANGED <<jobs, enabled, proved, shown, slipped, archive, published>>
    BY <1>2 DEF DayEnds, DeliverDaily, requestVars
  <2>2. JobsShape' /\ SendsCounted'
    BY <2>1, <1>inv DEF JobsShape, SendsCounted
  <2>3. QED
    BY <2>1, <2>2, <1>inv DEF DaysInv
<1>3. CASE Disable
  <2>1. UNCHANGED <<jobs, proved, shown, slipped, archive, published>> /\ enabled' \subseteq enabled
    BY <1>3 DEF Disable
  <2>2. JobsShape' /\ SendsCounted'
    BY <2>1, <1>inv DEF JobsShape, SendsCounted
  <2>3. \A j \in Job : KeptJob(j, jobs[j], enabled', proved[j])
    BY <2>1, <1>inv DEF KeptJob
  <2>4. QED
    BY <2>1, <2>2, <2>3 DEF DaysInv
<1>goes. ASSUME NEW j \in Job, NEW b \in JobRecord, jobs' = [jobs EXCEPT ![j] = b],
                proved' \in [Job -> SUBSET DaySource], \A i \in Job : i # j => proved'[i] = proved[i],
                KeptJob(j, b, enabled, proved'[j]), b.delivered = jobs[j].delivered,
                archive' \subseteq published, UNCHANGED <<enabled, published, shown, slipped>>
         PROVE  DaysInv'
  <2>1. /\ jobs' \in [Job -> JobRecord] /\ jobs'[j] = b /\ \A i \in Job : i # j => jobs'[i] = jobs[i]
        /\ \A i \in Job : KeptJob(i, jobs'[i], enabled', proved'[i])
    BY <1>goes, <1>inv, JobGoesOn
  <2>2. SendsCounted'
    BY <2>1, <1>goes, <1>inv, NothingSent
  <2>3. JobsShape'
    BY <2>1, <1>goes, <1>inv DEF JobsShape
  <2>4. QED
    BY <2>1, <2>2, <2>3 DEF DaysInv
<1>4. CASE Enqueue
  <2>1. PICK j \in Job : /\ jobs' = [jobs EXCEPT ![j] = Asked(@, j)]
                         /\ proved' = [proved EXCEPT ![j] = {}]
    BY <1>4 DEF Enqueue
  <2>2. UNCHANGED <<published, archive, enabled, shown, slipped>>
    BY <1>4 DEF Enqueue
  <2> DEFINE b == Asked(jobs[j], j)
  <2>3. jobs' = [jobs EXCEPT ![j] = b] /\ jobs[j] \in JobRecord
    BY <2>1, <1>inv DEF JobsShape
  <2>4. /\ b \in JobRecord /\ b.status = "collecting" /\ b.delivered = jobs[j].delivered
        /\ b.coverage = [s \in DaySource |-> ""]
    BY <2>3, <1>inv, AskedJob DEF JobsShape
  <2> HIDE DEF b
  <2>5. KeptJob(j, b, enabled, proved'[j])
    BY <2>4 DEF KeptJob
  <2>6. proved' \in [Job -> SUBSET DaySource] /\ \A i \in Job : i # j => proved'[i] = proved[i]
    BY <2>1, <1>inv DEF JobsShape
  <2>7. archive' \subseteq published
    BY <2>2, <1>inv DEF JobsShape
  <2>8. QED
    BY <2>2, <2>3, <2>4, <2>5, <2>6, <2>7, <1>goes
<1>5. CASE RetryTime
  <2>1. PICK j \in Job : jobs' = [jobs EXCEPT ![j].waiting = FALSE]
    BY <1>5 DEF RetryTime
  <2>2. UNCHANGED <<published, archive, enabled, proved, shown, slipped>>
    BY <1>5 DEF RetryTime
  <2> DEFINE r == jobs[j]
             b == [r EXCEPT !.waiting = FALSE]
  <2>3. r \in JobRecord /\ KeptJob(j, r, enabled, proved[j])
    BY <1>inv DEF JobsShape
  <2>4. jobs' = [jobs EXCEPT ![j] = b]
    BY <2>1
  <2> HIDE DEF r
  <2>5. /\ b \in JobRecord /\ b.status = r.status /\ b.pending = r.pending /\ b.coverage = r.coverage
        /\ b.delivered = r.delivered /\ b.observed = r.observed /\ b.selected = r.selected
    BY <2>3 DEF JobRecord
  <2> HIDE DEF b
  <2>6. KeptJob(j, b, enabled, proved[j])
    BY <2>3, <2>5 DEF KeptJob, Remaining
  <2>7. archive' \subseteq published /\ proved' \in [Job -> SUBSET DaySource]
    BY <2>2, <1>inv DEF JobsShape
  <2>8. QED
    BY <2>2, <2>4, <2>5, <2>6, <2>7, <1>goes DEF r
<1>collects. ASSUME NEW j \in Job, NEW s \in DaySource, NEW outcome \in Coverage,
                    NEW found \in SUBSET published, Collected(j, s, outcome, found),
                    jobs[j].status = "collecting",
                    UNCHANGED <<published, enabled, shown, slipped>>
             PROVE  DaysInv'
  <2> DEFINE r == Loaded(j)
             b == ReadFor(r, s, outcome, found)
  <2>1. /\ jobs' = [jobs EXCEPT ![j] = b] /\ archive' = archive \cup found
        /\ proved' = IF outcome = "complete" THEN [proved EXCEPT ![j] = @ \cup {s}] ELSE proved
    BY <1>collects DEF Collected, ReadFor
  <2>2. r \in JobRecord /\ r.status = "collecting" /\ r.coverage = jobs[j].coverage
        /\ r.delivered = jobs[j].delivered
    BY <1>collects, <1>inv, LoadedJob
  <2> HIDE DEF r
  <2>3. found \in SUBSET DayPost
    BY <1>inv DEF JobsShape
  <2>4. /\ b \in JobRecord /\ b.status = "collecting" /\ b.delivered = jobs[j].delivered
        /\ b.coverage = [jobs[j].coverage EXCEPT ![s] = outcome]
    <3> USE DEF b
    <3>1. /\ b \in JobRecord /\ b.status = r.status /\ b.delivered = r.delivered
          /\ b.coverage = [r.coverage EXCEPT ![s] = outcome]
      BY <2>2, <2>3, CollectedJob
    <3> HIDE DEF b
    <3>2. QED
      BY <2>2, <3>1
  <2> HIDE DEF b
  <2>5. /\ proved' \in [Job -> SUBSET DaySource] /\ \A i \in Job : i # j => proved'[i] = proved[i]
        /\ proved[j] \subseteq proved'[j] /\ (outcome = "complete" => s \in proved'[j])
    BY <2>1, <1>inv DEF JobsShape
  <2>6. \A u \in DaySource : jobs[j].coverage[u] = "complete" => u \in proved[j]
    BY <1>inv DEF KeptJob
  <2>7. jobs[j].coverage \in [DaySource -> Coverage]
    BY <1>inv DEF JobsShape, JobRecord
  <2>8. \A u \in DaySource : b.coverage[u] = "complete" => u \in proved'[j]
    <3> SUFFICES ASSUME NEW u \in DaySource, b.coverage[u] = "complete" PROVE u \in proved'[j]
      OBVIOUS
    <3>1. b.coverage[u] = IF u = s THEN outcome ELSE jobs[j].coverage[u]
      BY <2>4, <2>7
    <3>2. QED
      BY <2>5, <2>6, <3>1
  <2>9. KeptJob(j, b, enabled, proved'[j])
    BY <2>4, <2>8 DEF KeptJob
  <2>10. archive' \subseteq published
    BY <2>1, <1>inv DEF JobsShape
  <2>11. QED
    BY <1>collects, <2>1, <2>4, <2>5, <2>9, <2>10, <1>goes
<1>6. CASE CollectSource
  <2>1. UNCHANGED <<published, enabled, shown, slipped>>
    BY <1>6 DEF CollectSource
  <2>2. PICK j \in Job : Serves(j) /\ \E s \in jobs[j].pending :
            \/ Collected(j, s, "disabled", {}) \/ Collected(j, s, "complete", Of(s))
            \/ Collected(j, s, "failed", {})
            \/ \E found \in SUBSET Of(s) : Collected(j, s, "partial", found)
    BY <1>6 DEF CollectSource
  <2>3. PICK s \in jobs[j].pending :
            \/ Collected(j, s, "disabled", {}) \/ Collected(j, s, "complete", Of(s))
            \/ Collected(j, s, "failed", {})
            \/ \E found \in SUBSET Of(s) : Collected(j, s, "partial", found)
    BY <2>2
  <2>4. s \in DaySource
    BY <1>inv DEF JobsShape, JobRecord
  <2>5. jobs[j].status = "collecting"
    BY <2>3, <1>inv DEF KeptJob
  <2>6. Of(s) \subseteq published
    BY DEF Of
  <2>7. PICK outcome \in Coverage, found \in SUBSET published : Collected(j, s, outcome, found)
    BY <2>3, <2>6 DEF Coverage
  <2>8. QED
    BY <2>1, <2>4, <2>5, <2>7, <1>collects
<1>selects. ASSUME NEW j \in Job, jobs[j].pending = {}
            PROVE  LET r == Selected(j, Loaded(j)) IN
                   /\ r \in JobRecord /\ r.status = "delivering" /\ r.pending = {}
                   /\ KeptJob(j, r, enabled, proved[j]) /\ r.delivered = jobs[j].delivered
  <2> DEFINE l == Loaded(j)
             r == Selected(j, l)
             mine == {p \in l.observed : Author[p] \in Scope[j] \cap enabled}
  <2>1. l \in JobRecord /\ l.pending = {} /\ l.coverage = jobs[j].coverage
        /\ l.delivered = jobs[j].delivered
    BY <1>selects, <1>inv, LoadedJob
  <2> HIDE DEF l
  <2>2. /\ r \in JobRecord /\ r.status = "delivering" /\ r.pending = {}
        /\ r.coverage = jobs[j].coverage /\ r.delivered = jobs[j].delivered /\ r.observed = l.observed
        /\ r.selected = IF j \in LiveOnly THEN Thread(mine) ELSE mine
    BY <2>1, SelectedJob
  <2> HIDE DEF r
  <2>3. mine \in SUBSET DayPost
    BY <2>1 DEF JobRecord
  <2>4. j \in LiveOnly => \A p \in r.observed :
            (/\ Parent[p] \in r.selected /\ Author[p] = Author[Parent[p]]
             /\ Author[p] \in enabled) => p \in r.selected
    <3> SUFFICES ASSUME j \in LiveOnly, NEW p \in r.observed, Parent[p] \in r.selected,
                        Author[p] = Author[Parent[p]]
                 PROVE  p \in r.selected
      OBVIOUS
    <3>1. Parent[p] \in Thread(mine) /\ Thread(mine) \subseteq mine
      BY <2>2, <2>3, ThreadIsWhole
    <3>2. p \in mine
      BY <2>2, <3>1
    <3>3. QED
      BY <2>2, <2>3, <3>1, <3>2, ThreadIsWhole
  <2>5. KeptJob(j, r, enabled, proved[j])
    BY <2>2, <2>4, <1>inv DEF KeptJob
  <2>6. QED
    BY <2>2, <2>5 DEF r, l
<1>7. CASE Select
  <2>1. PICK j \in Job :
          /\ Serves(j) /\ jobs[j].pending = {}
          /\ \/ Continue(j, Selected(j, Loaded(j)))
             \/ jobs' = [jobs EXCEPT ![j] = Selected(j, Loaded(j))] /\ UNCHANGED <<shown, slipped>>
    BY <1>7 DEF Select
  <2>2. UNCHANGED <<published, archive, enabled, proved>>
    BY <1>7 DEF Select
  <2> DEFINE r == Selected(j, Loaded(j))
  <2>3. /\ r \in JobRecord /\ r.status = "delivering" /\ r.pending = {}
        /\ KeptJob(j, r, enabled, proved[j]) /\ r.delivered = jobs[j].delivered
    BY <2>1, <1>selects
  <2>4. \/ Continue(j, r)
        \/ jobs' = [jobs EXCEPT ![j] = r] /\ UNCHANGED <<shown, slipped>>
    BY <2>1
  <2> HIDE DEF r
  <2>5. CASE Continue(j, r)
    BY <2>2, <2>3, <2>5, <1>inv, ContinueKeeps
  <2>6. CASE jobs' = [jobs EXCEPT ![j] = r] /\ UNCHANGED <<shown, slipped>>
    <3>1. archive' \subseteq published /\ proved' \in [Job -> SUBSET DaySource]
      BY <2>2, <1>inv DEF JobsShape
    <3>2. QED
      BY <2>2, <2>3, <2>6, <3>1, <1>goes
  <2>7. QED
    BY <2>4, <2>5, <2>6
<1>8. CASE DeliverNext
  <2>1. PICK j \in Job : /\ jobs[j].pending = {} /\ jobs[j].status = "delivering"
                         /\ Continue(j, jobs[j])
    BY <1>8 DEF DeliverNext
  <2>2. UNCHANGED <<published, archive, enabled, proved>>
    BY <1>8 DEF DeliverNext
  <2>3. jobs[j] \in JobRecord
    BY <1>inv DEF JobsShape
  <2>4. QED
    BY <2>1, <2>2, <2>3, <1>inv, ContinueKeeps
<1>9. QED
  BY <1>1, <1>2, <1>3, <1>4, <1>5, <1>6, <1>7, <1>8 DEF RequestNext

(* Hence it holds throughout.                                              *)
LEMMA DaysInvHolds == RequestSpec => []DaysInv
BY InitDays, NextDays, PTL DEF RequestSpec

(* The bounds, and what a step leaves of a record it does not ask anew.     *)
WithinBounds ==
  /\ \A j \in Job : jobs[j].generation <= MaxGenerations
  /\ dayOpen \in BOOLEAN /\ daily \in BOOLEAN /\ requestFaults \in 0 .. RequestFaults

SameGenerations == \A j \in Job : jobs'[j].generation = jobs[j].generation

(* A record replaced by one of the same generation.                        *)
LEMMA RecordChanged ==
  ASSUME JobsShape, NEW j \in Job, NEW b, b.generation = jobs[j].generation,
         jobs' = [jobs EXCEPT ![j] = b]
  PROVE  SameGenerations
BY DEF JobsShape, SameGenerations

(* The rest of a step keeps the generation.                                *)
LEMMA ContinueSame ==
  ASSUME JobsShape, NEW j \in Job, NEW r \in JobRecord, r.generation = jobs[j].generation,
         Continue(j, r)
  PROVE  SameGenerations /\ (Working \/ Failing)
<1> DEFINE p == CHOOSE p \in Remaining(r) : \A q \in Remaining(r) : p <= q
<1>1. /\ Working \/ Failing
      /\ \/ jobs' = [jobs EXCEPT ![j] = Finished(r)]
         \/ jobs' = [jobs EXCEPT ![j] = [r EXCEPT !.selected = @ \ {p}, !.coverage[Author[p]] = "disabled"]]
         \/ jobs' = [jobs EXCEPT ![j] = [r EXCEPT !.delivered = @ \cup {p}]]
         \/ jobs' = [jobs EXCEPT ![j] = PutOff(r, p)]
         \/ jobs' = [jobs EXCEPT ![j] = [r EXCEPT !.status = "partial"]]
         \/ jobs' = [jobs EXCEPT ![j] = r]
         \/ UNCHANGED jobs
  BY DEF Continue
<1> HIDE DEF p
<1>2. Finished(r).generation = r.generation
  BY DEF Finished, JobRecord
<1>3. [r EXCEPT !.selected = @ \ {p}, !.coverage[Author[p]] = "disabled"].generation = r.generation
  BY DEF JobRecord
<1>4. [r EXCEPT !.delivered = @ \cup {p}].generation = r.generation
  BY DEF JobRecord
<1>5. PutOff(r, p).generation = r.generation
  BY DEF JobRecord, PutOff
<1>6. [r EXCEPT !.status = "partial"].generation = r.generation
  BY DEF JobRecord
<1>7. CASE jobs' = [jobs EXCEPT ![j] = Finished(r)]
  BY <1>1, <1>2, <1>7, RecordChanged
<1>8. CASE jobs' = [jobs EXCEPT ![j] = [r EXCEPT !.selected = @ \ {p}, !.coverage[Author[p]] = "disabled"]]
  BY <1>1, <1>3, <1>8, RecordChanged
<1>9. CASE jobs' = [jobs EXCEPT ![j] = [r EXCEPT !.delivered = @ \cup {p}]]
  BY <1>1, <1>4, <1>9, RecordChanged
<1>10. CASE jobs' = [jobs EXCEPT ![j] = PutOff(r, p)]
  BY <1>1, <1>5, <1>10, RecordChanged
<1>11. CASE jobs' = [jobs EXCEPT ![j] = [r EXCEPT !.status = "partial"]]
  BY <1>1, <1>6, <1>11, RecordChanged
<1>12. CASE jobs' = [jobs EXCEPT ![j] = r]
  BY <1>1, <1>12, RecordChanged
<1>13. CASE UNCHANGED jobs
  BY <1>1, <1>13 DEF SameGenerations
<1>14. QED
  BY <1>1, <1>7, <1>8, <1>9, <1>10, <1>11, <1>12, <1>13

(* A job asked for anew had a generation to spare.                         *)
LEMMA GenerationToSpare ==
  ASSUME JobsShape, MayAsk, NEW j \in Job
  PROVE  jobs[j].generation + 1 <= MaxGenerations
<1> DEFINE N == MaxGenerations
           S == {g \in Job \X (1 .. N) : g[2] <= jobs[g[1]].generation}
           T == {j} \X (1 .. N)
<1>1. N \in Nat /\ IsFiniteSet(Job) /\ jobs[j].generation \in Nat
  BY RequestConstants DEF JobsShape, JobRecord
<1>2. IsFiniteSet(1 .. N) /\ Cardinality(1 .. N) = N
  BY <1>1, FS_Interval
<1>3. IsFiniteSet({j}) /\ Cardinality({j}) = 1
  BY FS_Singleton
<1>4. IsFiniteSet(T) /\ Cardinality(T) = N
  <2> DEFINE A == {j}
             B == 1 .. N
  <2>1. IsFiniteSet(A) /\ IsFiniteSet(B) /\ Cardinality(A) = 1 /\ Cardinality(B) = N
    BY <1>2, <1>3
  <2> HIDE DEF A, B
  <2>2. IsFiniteSet(A \X B) /\ Cardinality(A \X B) = Cardinality(A) * Cardinality(B)
    BY <2>1, FS_Product
  <2>3. Cardinality(A) * Cardinality(B) = N
    BY <1>1, <2>1
  <2>4. QED
    BY <2>2, <2>3 DEF A, B
<1>5. IsFiniteSet(S)
  <2>1. IsFiniteSet(Job \X (1 .. N))
    BY <1>1, <1>2, FS_Product
  <2>2. S \in SUBSET (Job \X (1 .. N))
    OBVIOUS
  <2> HIDE DEF S
  <2>3. QED
    BY <2>1, <2>2, FS_Subset
<1>6. Cardinality(S) < N
  BY DEF MayAsk
<1>7. SUFFICES ASSUME N <= jobs[j].generation PROVE FALSE
  BY <1>1
<1>8. T \subseteq S
  BY <1>1, <1>7
<1> HIDE DEF S, T
<1>9. Cardinality(T) <= Cardinality(S) /\ Cardinality(S) \in Nat
  BY <1>5, <1>8, FS_Subset, FS_CardinalityType
<1>10. QED
  BY <1>1, <1>4, <1>6, <1>9

(* One step per action.                                                    *)
LEMMA NextBounds == DaysInv /\ WithinBounds /\ [RequestNext]_requestVars => WithinBounds'
<1> SUFFICES ASSUME DaysInv, WithinBounds, [RequestNext]_requestVars PROVE WithinBounds'
  OBVIOUS
<1>0. /\ JobsShape /\ RequestFaults \in Nat /\ requestFaults \in 0 .. RequestFaults
      /\ dayOpen \in BOOLEAN /\ daily \in BOOLEAN
      /\ \A j \in Job : jobs[j] \in JobRecord /\ jobs[j].generation <= MaxGenerations
  BY RequestConstants DEF DaysInv, JobsShape, WithinBounds
<1>1. ASSUME SameGenerations, Working \/ Failing, dayOpen' \in BOOLEAN, daily' \in BOOLEAN
      PROVE  WithinBounds'
  <2>1. requestFaults' \in 0 .. RequestFaults
    BY <1>0, <1>1 DEF Working, Failing
  <2>2. \A j \in Job : jobs'[j].generation <= MaxGenerations
    BY <1>0, <1>1 DEF SameGenerations
  <2>3. QED
    BY <1>1, <2>1, <2>2 DEF WithinBounds
<1>2. CASE Publish \/ DayEnds \/ Disable \/ DeliverDaily \/ UNCHANGED requestVars
  <2>1. SameGenerations
    BY <1>2 DEF Publish, DayEnds, Disable, DeliverDaily, requestVars, SameGenerations
  <2>2. Working \/ Failing
    BY <1>2 DEF Publish, DayEnds, Disable, DeliverDaily, requestVars, Working
  <2>3. dayOpen' \in {dayOpen, FALSE} /\ daily' \in {daily, FALSE}
    BY <1>2 DEF Publish, DayEnds, Disable, DeliverDaily, requestVars
  <2>4. dayOpen' \in BOOLEAN /\ daily' \in BOOLEAN
    BY <1>0, <2>3
  <2>5. QED
    BY <1>1, <2>1, <2>2, <2>4
<1>3. CASE Enqueue
  <2>1. PICK j \in Job : MayAsk /\ jobs' = [jobs EXCEPT ![j] = Asked(@, j)]
    BY <1>3 DEF Enqueue
  <2>2. UNCHANGED <<dayOpen, daily, requestFaults>>
    BY <1>3 DEF Enqueue
  <2>3. Asked(jobs[j], j).generation = jobs[j].generation + 1
    BY <1>0 DEF Asked, JobRecord
  <2>4. \A i \in Job : jobs'[i] = IF i = j THEN Asked(jobs[j], j) ELSE jobs[i]
    BY <1>0, <2>1 DEF JobsShape
  <2>5. jobs[j].generation + 1 <= MaxGenerations
    BY <1>0, <2>1, GenerationToSpare
  <2>6. \A i \in Job : jobs'[i].generation <= MaxGenerations
    BY <1>0, <2>3, <2>4, <2>5
  <2>7. QED
    BY <1>0, <2>2, <2>6 DEF WithinBounds
<1>4. CASE RetryTime
  <2>1. PICK j \in Job : jobs' = [jobs EXCEPT ![j].waiting = FALSE]
    BY <1>4 DEF RetryTime
  <2> DEFINE b == [jobs[j] EXCEPT !.waiting = FALSE]
  <2>2. jobs' = [jobs EXCEPT ![j] = b]
    BY <2>1
  <2>3. b.generation = jobs[j].generation
    BY <1>0 DEF JobRecord
  <2> HIDE DEF b
  <2>4. SameGenerations
    BY <1>0, <2>2, <2>3, RecordChanged
  <2>5. UNCHANGED <<dayOpen, daily, requestFaults>>
    BY <1>4 DEF RetryTime
  <2>6. QED
    BY <1>0, <1>1, <2>4, <2>5 DEF Working
<1>loaded. ASSUME NEW j \in Job
           PROVE  Loaded(j) \in JobRecord /\ Loaded(j).generation = jobs[j].generation
  BY <1>0, LoadedJob
<1>5. CASE CollectSource
  <2>1. PICK j \in Job, s \in DaySource, outcome \in Coverage, found \in SUBSET DayPost :
          Collected(j, s, outcome, found)
    <3>0. PICK j \in Job : \E s \in jobs[j].pending :
            \/ Collected(j, s, "disabled", {}) \/ Collected(j, s, "complete", Of(s))
            \/ Collected(j, s, "failed", {}) \/ \E found \in SUBSET Of(s) : Collected(j, s, "partial", found)
      BY <1>5 DEF CollectSource
    <3>1. PICK s \in jobs[j].pending :
            \/ Collected(j, s, "disabled", {}) \/ Collected(j, s, "complete", Of(s))
            \/ Collected(j, s, "failed", {}) \/ \E found \in SUBSET Of(s) : Collected(j, s, "partial", found)
      BY <3>0
    <3>2. s \in DaySource /\ Of(s) \subseteq DayPost
      BY <1>0 DEF JobRecord, Of, JobsShape
    <3>3. {"disabled", "complete", "failed", "partial"} \subseteq Coverage
      BY DEF Coverage
    <3>4. QED
      BY <3>1, <3>2, <3>3
  <2>2. jobs' = [jobs EXCEPT ![j] = ReadFor(Loaded(j), s, outcome, found)]
    BY <2>1 DEF Collected, ReadFor
  <2>3. ReadFor(Loaded(j), s, outcome, found).generation = Loaded(j).generation
    BY <1>loaded DEF ReadFor, JobRecord
  <2>4. SameGenerations
    BY <1>0, <1>loaded, <2>2, <2>3, RecordChanged
  <2>5. UNCHANGED <<dayOpen, daily>> /\ (Working \/ Failing)
    BY <1>5 DEF CollectSource
  <2>6. QED
    BY <1>0, <1>1, <2>4, <2>5
<1>6. CASE Select
  <2>1. PICK j \in Job :
          \/ Continue(j, Selected(j, Loaded(j)))
          \/ jobs' = [jobs EXCEPT ![j] = Selected(j, Loaded(j))] /\ Failing
    BY <1>6 DEF Select
  <2>2. Selected(j, Loaded(j)) \in JobRecord
    BY <1>loaded, SelectedJob
  <2>3. Selected(j, Loaded(j)).generation = jobs[j].generation
    BY <1>loaded DEF Selected, JobRecord
  <2>4. SameGenerations /\ (Working \/ Failing)
    BY <1>0, <2>1, <2>2, <2>3, ContinueSame, RecordChanged
  <2>5. UNCHANGED <<dayOpen, daily>>
    BY <1>6 DEF Select
  <2>6. QED
    BY <1>0, <1>1, <2>4, <2>5
<1>7. CASE DeliverNext
  <2>1. PICK j \in Job : Continue(j, jobs[j])
    BY <1>7 DEF DeliverNext
  <2>2. SameGenerations /\ (Working \/ Failing)
    BY <1>0, <2>1, ContinueSame
  <2>3. UNCHANGED <<dayOpen, daily>>
    BY <1>7 DEF DeliverNext
  <2>4. QED
    BY <1>0, <1>1, <2>2, <2>3
<1>8. QED
  BY <1>2, <1>3, <1>4, <1>5, <1>6, <1>7 DEF RequestNext

(* No job has been asked for.                                              *)
LEMMA InitBounds == RequestInit => WithinBounds
<1> SUFFICES ASSUME RequestInit PROVE WithinBounds
  OBVIOUS
<1>1. \A j \in Job : jobs[j].generation = 0
  BY DEF RequestInit, NewJob
<1>2. MaxGenerations \in Nat /\ RequestFaults \in Nat
  BY RequestConstants
<1>3. dayOpen \in BOOLEAN /\ daily \in BOOLEAN
  BY DEF RequestInit
<1>4. requestFaults \in 0 .. RequestFaults
  BY <1>2 DEF RequestInit
<1>5. QED
  BY <1>1, <1>2, <1>3, <1>4 DEF WithinBounds

(* The jobs for the posts of a day (date_range_monitor.py) have their types *)
(* and keep within the bounds.                                             *)
LEMMA RequestTypesHold == RequestInit /\ [][RequestNext]_requestVars => []RequestTypes
<1>1. ASSUME DaysInv, WithinBounds PROVE RequestTypes
  <2> DEFINE Kept == [status : Ended \cup AtWork \cup {"absent"},
                       generation : 0 .. MaxGenerations, pending : SUBSET DaySource,
                       coverage : [DaySource -> Coverage],
                       observed : SUBSET DayPost, selected : SUBSET DayPost,
                       delivered : SUBSET DayPost, attempts : [DayPost -> Nat],
                       waiting : BOOLEAN, loaded : BOOLEAN]
  <2>1. jobs \in [Job -> JobRecord]
    BY <1>1 DEF DaysInv, JobsShape
  <2>2. ASSUME NEW j \in Job PROVE jobs[j] \in Kept
    <3>1. jobs[j] \in JobRecord /\ MaxGenerations \in Nat /\ jobs[j].generation <= MaxGenerations
      BY <2>1, <1>1, RequestConstants DEF WithinBounds
    <3>2. jobs[j].generation \in 0 .. MaxGenerations
      BY <3>1 DEF JobRecord
    <3>3. QED
      BY <3>1, <3>2 DEF JobRecord
  <2>3. jobs \in [Job -> Kept]
    BY <2>1, <2>2
  <2>4. QED
    BY <1>1, <2>3 DEF DaysInv, JobsShape, WithinBounds, RequestTypes
<1>2. QED
  BY <1>1, InitBounds, NextBounds, InitDays, NextDays, PTL

(* However often a job is asked for, and whatever source is disabled, fails *)
(* to answer or is read in part in between: a bundle called complete was   *)
(* read whole and delivered whole, a live one holds every answer to what   *)
(* it holds, and a post is sent again only if the record of it was lost.   *)
THEOREM BundlesStayHonest == RequestSpec => []BundlesAreHonest
<1>1. ASSUME DaysInv PROVE BundlesAreHonest
  <2>1. JobsShape /\ SendsCounted /\ \A j \in Job : KeptJob(j, jobs[j], enabled, proved[j])
    BY <1>1 DEF DaysInv
  <2>2. CompleteMeansCovered
    BY <2>1 DEF CompleteMeansCovered, KeptJob
  <2>3. ThreadsAreWhole
    <3> SUFFICES ASSUME NEW j \in LiveOnly, jobs[j].status \in {"delivering", "complete"},
                        NEW p \in jobs[j].observed,
                        Parent[p] \in jobs[j].selected, Author[p] = Author[Parent[p]],
                        Author[p] \in enabled
                 PROVE  p \in jobs[j].selected
      BY DEF ThreadsAreWhole
    <3>1. j \in Job
      BY RequestConstants
    <3>2. QED
      BY <2>1, <3>1 DEF KeptJob
  <2>4. SentOncePerRequest
    <3> SUFFICES ASSUME NEW j \in Job, NEW p \in DayPost
                 PROVE  shown[<<j, p>>] <= 1 + slipped[<<j, p>>]
      BY DEF SentOncePerRequest
    <3>1. shown[<<j, p>>] \in Nat /\ slipped[<<j, p>>] \in Nat
      BY <2>1 DEF JobsShape
    <3>2. shown[<<j, p>>] <= (IF p \in jobs[j].delivered THEN 1 ELSE 0) + slipped[<<j, p>>]
      BY <2>1 DEF SendsCounted
    <3>3. QED
      BY <3>1, <3>2
  <2>5. QED
    BY <2>2, <2>3, <2>4 DEF BundlesAreHonest
<1>2. QED
  BY <1>1, DaysInvHolds, PTL
=============================================================================
