----------------------------- MODULE WebhookHost -----------------------------
(***************************************************************************)
(* The long-lived owner of the review chat and its only durable copy.      *)
(*                                                                         *)
(* A web service registers a webhook, handles the editor's commands as     *)
(* Telegram pushes them, runs maintenance passes (due reminders, a scan,   *)
(* the delivery of the queue) and keeps state.json and the review database *)
(* on a disk a redeployment may wipe.  What survives is an encrypted copy  *)
(* pinned in the chat.  A scheduled job looks at the webhook: where there  *)
(* is one it only wakes the service and lends it the translation key, and  *)
(* where there is none it polls Telegram itself.                           *)
(***************************************************************************)
EXTENDS Integers, FiniteSets, Sequences

CONSTANTS
  Commands,      \* the editor sends commands 1 .. Commands, in this order
  Reminding,     \* those that set a reminder; the others change state.json only
  Attempts,      \* tries in the process, and MAX_TELEGRAM_UPDATE_ATTEMPTS
  HostMayDie,    \* the service may go away for good
  HostFaults     \* bound on crashes, wiped disks, failed calls and lost answers

ASSUME HostConstants ==
  /\ Commands \in Nat
  /\ Reminding \subseteq 1 .. Commands
  /\ Attempts \in Nat \ {0}
  /\ HostMayDie \in BOOLEAN
  /\ HostFaults \in Nat

Command == 1 .. Commands

(* A command adds a reminder each time its handler gets that far.          *)
Reminder == Reminding \X (1 .. HostFaults + 1)

VARIABLES
  json,      \* state.json in memory: next command, its failures, waiting posts
  disk,      \* the two files: state.json as last saved, the reminders' rows
  pinned,    \* the copy pinned in the chat, if there is one
  backed,    \* last_backup_hash: the files that copy is known to hold
  left,      \* what a crash left beside them: a write-ahead log, half a restore
  at,        \* where the process is
  req,       \* the command in hand, or 0
  attempt,   \* its try in this process
  handled,   \* whether Telegram is told to forget it
  force,     \* whether the backup is made even when nothing changed
  due,       \* the reminders this maintenance pass has still to send
  lease,     \* the translation key is in memory
  wake,      \* a maintenance pass with a key is queued
  hook,      \* Telegram has the service's address
  runner,    \* the scheduled job
  sent, acked, polled,   \* Telegram: commands sent, confirmed, taken by getUpdates
  hostFaults

(* What happened, for the properties.                                      *)
VARIABLES
  finished,  \* how often a command's handler ran to its end
  forgot,    \* how often a restart came back from before that end
  told,      \* how often a reminder was shown
  unheard,   \* how often the answer to showing it was lost
  undone,    \* how often a restart came back from before it was recorded
  secured,   \* commands whose end was part of a copy Telegram took
  wiped      \* a copy existed, but a start had to do with less than it held

files    == <<json, disk, pinned, backed, left>>
process  == <<at, req, attempt, handled, force, due, lease, wake>>
telegram == <<hook, runner, sent, acked, polled>>
history  == <<finished, forgot, told, unheard, undone, secured, wiped>>
hostVars == <<files, process, telegram, history, hostFaults>>

Blank == [json |-> [next |-> 1, tries |-> 0, posts |-> 0],
          rows |-> [r \in Reminder |-> "none"]]

HostTypes ==
  /\ json \in [next : 1 .. Commands + 1, tries : 0 .. Attempts - 1, posts : 0 .. 1]
  /\ disk \in [json : [next : 1 .. Commands + 1, tries : 0 .. Attempts - 1, posts : 0 .. 1],
               rows : [Reminder -> {"none", "pending", "told", "sent", "cancelled"}]]
  /\ Len(pinned) <= 1 /\ Len(backed) <= 1 /\ left \in {"clean", "wal", "half"}
  /\ at \in {"down", "dead", "starting", "idle", "handling", "saving", "backing",
             "answering", "reminding", "scanning", "delivering"}
  /\ req \in 0 .. Commands /\ attempt \in 1 .. Attempts
  /\ {handled, force, lease, wake, hook, wiped} \subseteq BOOLEAN
  /\ due \subseteq Reminder
  /\ runner \in {"off", "polling"}
  /\ sent \in 0 .. Commands /\ acked \cup polled \subseteq 1 .. sent
  /\ secured \subseteq Command
  /\ hostFaults \in 0 .. HostFaults

HostInit ==
  /\ json = Blank.json /\ disk = Blank /\ pinned = <<>> /\ backed = <<>>
  /\ left = "clean"
  /\ at = "down" /\ req = 0 /\ attempt = 1 /\ handled = TRUE /\ force = FALSE
  /\ due = {} /\ lease = FALSE /\ wake = FALSE
  /\ hook = FALSE /\ runner = "off"
  /\ sent = 0 /\ acked = {} /\ polled = {} /\ hostFaults = 0
  /\ finished = [u \in Command |-> 0] /\ forgot = [u \in Command |-> 0]
  /\ told = [r \in Reminder |-> 0] /\ unheard = [r \in Reminder |-> 0]
  /\ undone = [r \in Reminder |-> 0]
  /\ secured = {} /\ wiped = FALSE

Fault == hostFaults < HostFaults /\ hostFaults' = hostFaults + 1
NoFault == UNCHANGED hostFaults

(* A function of small numbers with one added on a set.                    *)
Counted(f, S) == [x \in DOMAIN f |-> IF x \in S THEN f[x] + 1 ELSE f[x]]

WithRow(r, status) == [disk EXCEPT !.rows[r] = status]

----------------------------------------------------------------------------
(* Starting and stopping.                                                  *)

(* Mutant: the files on the disk are taken when there are any.             *)
DiskFirst == {disk}

(* The pinned copy replaces both files, one after the other; a restore that *)
(* fails only leaves the disk as it is.  The write-ahead log of a process   *)
(* that crashed is not removed: the database opened beside it may then show *)
(* that process's rows instead of the copy's.                              *)
Restorable ==
  {[json |-> pinned[1].json, rows |-> rows] :
     rows \in {pinned[1].rows} \cup (IF left = "wal" THEN {disk.rows} ELSE {})}

Load(now) ==
  /\ disk' = now /\ json' = now.json /\ left' = "clean"
  /\ forgot' = Counted(forgot, {u \in Command : u < json.next /\ u >= now.json.next})
  /\ undone' = Counted(undone, {r \in Reminder :
         disk.rows[r] \in {"told", "sent"} /\ now.rows[r] \notin {"told", "sent"}})
  /\ at' = "starting"

Start ==
  /\ at = "down"
  /\ \/ pinned = <<>> /\ Load(disk) /\ UNCHANGED wiped /\ NoFault
     \/ /\ pinned # <<>>
        /\ \E now \in Restorable : Load(now)
        /\ UNCHANGED wiped /\ NoFault
     \/ /\ pinned # <<>> /\ Fault
        /\ Load(disk)
        /\ wiped' = (wiped \/ left = "half" \/ \E u \in secured : u >= disk.json.next)
  /\ backed' = <<>> /\ lease' = FALSE /\ wake' = FALSE
  /\ UNCHANGED <<pinned, req, attempt, handled, force, due, telegram,
                 finished, told, unheard, secured>>

(* The process dies between the two files of a restore.                    *)
DieRestoring ==
  /\ at = "down" /\ pinned # <<>> /\ Fault
  /\ disk' = [disk EXCEPT !.json = pinned[1].json] /\ left' = "half"
  /\ UNCHANGED <<json, pinned, backed, process, telegram, history>>

(* setWebhook; a service that cannot register does not start.              *)
Register ==
  /\ at = "starting"
  /\ \/ hook' = TRUE /\ at' = "saving" /\ force' = TRUE /\ NoFault
     \/ at' = "down" /\ Fault /\ UNCHANGED <<hook, force>>
  /\ UNCHANGED <<files, req, attempt, handled, due, lease, wake, runner, sent, acked,
                 polled, history>>

(* A crash, a kill, or a machine taken away.  state.json in memory is kept *)
(* here only to compare it with what the next start finds.                 *)
Crash ==
  /\ at \notin {"down", "dead"} /\ Fault
  /\ at' = IF HostMayDie THEN "dead" ELSE "down"
  /\ \/ left' = "wal" /\ UNCHANGED <<disk, undone>>
     \/ /\ pinned # <<>>
        /\ disk' = Blank /\ left' = "clean"
        /\ undone' = Counted(undone, {r \in Reminder : disk.rows[r] \in {"told", "sent"}})
  /\ req' = 0 /\ attempt' = 1 /\ handled' = TRUE /\ force' = FALSE /\ due' = {}
  /\ UNCHANGED <<json, pinned, backed, lease, wake, telegram,
                 finished, forgot, told, unheard, secured, wiped>>

(* An orderly stop saves and backs up first.                               *)
Stop ==
  /\ at = "idle" /\ ~force /\ Fault
  /\ at' = "saving" /\ force' = TRUE /\ req' = 0 /\ handled' = FALSE
  /\ UNCHANGED <<files, attempt, due, lease, wake, telegram, history>>

----------------------------------------------------------------------------
(* Saving.  Every change ends here, at the end of a command or of a pass.  *)

Save ==
  /\ at = "saving"
  /\ disk' = [disk EXCEPT !.json = json]
  /\ at' = "backing"
  /\ UNCHANGED <<json, pinned, backed, left, req, attempt, handled, force, due, lease, wake,
                 telegram, history, hostFaults>>

(* Mutant: one copy is enough.                                             *)
AnyCopy == ~force /\ backed # <<>>

Unchanged == ~force /\ backed = <<disk>>

(* The pinned document is edited, or another one is sent and pinned.  An   *)
(* error is logged and nothing else: the copy may have arrived or not.     *)
BackedUp(taken, known) ==
  /\ known => taken
  /\ pinned' = IF taken THEN <<disk>> ELSE pinned
  /\ backed' = IF known THEN <<disk>> ELSE backed
  /\ secured' = IF taken THEN secured \cup {u \in Command : u < disk.json.next} ELSE secured

Backup ==
  /\ at = "backing"
  /\ \/ Unchanged /\ UNCHANGED <<pinned, backed, left, secured>> /\ NoFault
     \/ ~Unchanged /\ BackedUp(TRUE, TRUE) /\ NoFault
     \/ ~Unchanged /\ \E taken \in BOOLEAN : BackedUp(taken, FALSE) /\ Fault
  /\ at' = IF req # 0 THEN "answering"
           ELSE IF force /\ ~handled THEN "down" ELSE "idle"
  /\ force' = FALSE /\ handled' = IF req # 0 THEN handled ELSE TRUE
  /\ UNCHANGED <<json, disk, left, req, attempt, due, lease, wake, telegram,
                 finished, forgot, told, unheard, undone, wiped>>

----------------------------------------------------------------------------
(* Commands.  One connection: Telegram pushes the oldest until it hears a  *)
(* 2xx answer.                                                             *)

SendCommand ==
  /\ sent < Commands
  /\ sent' = sent + 1
  /\ UNCHANGED <<files, process, hook, runner, acked, polled, history, hostFaults>>

Unanswered == (1 .. sent) \ (acked \cup polled)

(* A command below the stored offset was handled before.                   *)
Receive ==
  /\ hook /\ at = "idle"
  /\ \E u \in Unanswered :
       /\ \A v \in Unanswered : u <= v
       /\ req' = u
       /\ at' = IF u < json.next THEN "answering" ELSE "handling"
  /\ attempt' = 1 /\ handled' = TRUE
  /\ UNCHANGED <<files, force, due, lease, wake, telegram, history, hostFaults>>

(* What the handler leaves in the database: a new reminder for a command   *)
(* that sets one, written before its confirmation is sent.                 *)
Recorded(begun) ==
  IF ~begun \/ req \notin Reminding THEN disk
  ELSE LET k == CHOOSE k \in 1 .. HostFaults + 1 :
                  /\ disk.rows[<<req, k>>] = "none"
                  /\ \A i \in 1 .. k - 1 : disk.rows[<<req, i>>] # "none"
       IN WithRow(<<req, k>>, "pending")

(* Mutant: the offset stays where it is.                                   *)
OffsetStays == [json EXCEPT !.tries = 0]

PastCommand == [json EXCEPT !.next = req + 1, !.tries = 0]

HandledBy(begun, newJson, answer) ==
  /\ disk' = Recorded(begun)
  /\ json' = newJson
  /\ handled' = answer
  /\ at' = "saving"

HandleDone ==
  /\ at = "handling"
  /\ HandledBy(TRUE, PastCommand, TRUE)
  /\ finished' = Counted(finished, {req})
  /\ NoFault
  /\ UNCHANGED <<pinned, backed, left, req, attempt, force, due, lease, wake, telegram,
                 forgot, told, unheard, undone, secured, wiped>>

(* A transport failure runs the handler again from its start, then leaves  *)
(* the command to Telegram.                                                *)
HandlePaused ==
  /\ at = "handling" /\ Fault
  /\ \E begun \in BOOLEAN :
       \/ /\ attempt < Attempts
          /\ attempt' = attempt + 1
          /\ disk' = Recorded(begun)
          /\ UNCHANGED <<json, handled, at>>
       \/ /\ attempt = Attempts
          /\ HandledBy(begun, json, FALSE)
          /\ UNCHANGED attempt
  /\ UNCHANGED <<pinned, backed, left, req, force, due, lease, wake, telegram, history>>

(* A permanent refusal or a configuration error consumes the command.      *)
HandleRefused ==
  /\ at = "handling" /\ Fault
  /\ \E begun \in BOOLEAN : HandledBy(begun, PastCommand, TRUE)
  /\ UNCHANGED <<pinned, backed, left, req, attempt, force, due, lease, wake, telegram, history>>

(* Any other failure counts against the command's own budget.              *)
HandleFailed ==
  /\ at = "handling" /\ Fault
  /\ \E begun \in BOOLEAN :
       IF json.tries + 1 < Attempts
         THEN HandledBy(begun, [json EXCEPT !.tries = @ + 1], FALSE)
         ELSE HandledBy(begun, PastCommand, TRUE)
  /\ UNCHANGED <<pinned, backed, left, req, attempt, force, due, lease, wake, telegram, history>>

(* 200 or 503, and the answer may be lost.                                 *)
Answer ==
  /\ at = "answering"
  /\ \/ NoFault /\ acked' = IF handled /\ req \notin polled THEN acked \cup {req} ELSE acked
     \/ Fault /\ handled /\ UNCHANGED acked
  /\ at' = "idle" /\ req' = 0 /\ handled' = TRUE /\ attempt' = 1
  /\ UNCHANGED <<files, force, due, lease, wake, hook, runner, sent, polled, history>>

----------------------------------------------------------------------------
(* Maintenance.  An exception anywhere skips what is left of the pass.     *)

Due == {r \in Reminder : disk.rows[r] \in {"pending", "told"}}

BeginPass ==
  /\ at = "idle"
  /\ at' = "reminding" /\ due' = Due
  /\ lease' = (lease \/ wake) /\ wake' = FALSE
  /\ UNCHANGED <<files, req, attempt, handled, force, telegram, history, hostFaults>>

(* The order of due_at.                                                    *)
Earlier(r, s) == r[1] < s[1] \/ (r[1] = s[1] /\ r[2] <= s[2])

NextDue(r) == at = "reminding" /\ r \in due /\ \A s \in due : Earlier(r, s)

(* One reminder: cancelled when its draft is gone, skipped by its receipt, *)
(* or sent under a delivery key of its own and marked in a later write.    *)
RemindNext ==
  /\ \E r \in Reminder :
       /\ NextDue(r)
       /\ \/ /\ disk.rows[r] = "pending"
             /\ disk' = WithRow(r, "cancelled") /\ due' = due \ {r} /\ UNCHANGED told
          \/ /\ disk.rows[r] = "pending"
             /\ disk' = WithRow(r, "told") /\ told' = Counted(told, {r}) /\ UNCHANGED due
          \/ /\ disk.rows[r] = "told"
             /\ disk' = WithRow(r, "sent") /\ due' = due \ {r} /\ UNCHANGED told
  /\ UNCHANGED <<json, pinned, backed, left, at, req, attempt, handled, force, lease, wake,
                 telegram, hostFaults, finished, forgot, unheard, undone, secured, wiped>>

RemindFails ==
  /\ Fault
  /\ \E r \in Reminder :
       /\ NextDue(r) /\ disk.rows[r] = "pending"
       /\ \/ told' = Counted(told, {r}) /\ unheard' = Counted(unheard, {r})
          \/ UNCHANGED <<told, unheard>>
  /\ at' = "saving" /\ due' = {}
  /\ UNCHANGED <<files, req, attempt, handled, force, lease, wake, telegram,
                 finished, forgot, undone, secured, wiped>>

RemindedAll ==
  /\ at = "reminding" /\ due = {}
  /\ at' = "scanning"
  /\ UNCHANGED <<files, req, attempt, handled, force, due, lease, wake, telegram,
                 history, hostFaults>>

(* A scan, when twelve minutes have passed, may leave posts waiting.       *)
Scan ==
  /\ at = "scanning"
  /\ \/ at' = "delivering" /\ json' \in {json, [json EXCEPT !.posts = 1]} /\ NoFault
     \/ at' = "saving" /\ UNCHANGED json /\ Fault
  /\ UNCHANGED <<disk, pinned, backed, left, req, attempt, handled, force, due, lease, wake,
                 telegram, history>>

(* Posts are translated and delivered only with a key.                     *)
DeliverQueue ==
  /\ at = "delivering"
  /\ \/ json' = (IF lease THEN [json EXCEPT !.posts = 0] ELSE json) /\ NoFault
     \/ lease /\ UNCHANGED json /\ Fault
  /\ at' = "saving"
  /\ UNCHANGED <<disk, pinned, backed, left, req, attempt, handled, force, due, lease, wake,
                 telegram, history>>

LeaseExpires ==
  /\ lease /\ at = "idle" /\ Fault
  /\ lease' = FALSE
  /\ UNCHANGED <<files, at, req, attempt, handled, force, due, wake, telegram, history>>

----------------------------------------------------------------------------
(* The scheduled job, in its automatic mode.                               *)

Serving == at \notin {"down", "dead", "starting"}

(* With a webhook in place the job wakes the service and lends it the key. *)
(* A service that is not up, or an answer that is lost, ends the job with  *)
(* an error; the webhook is left alone.                                    *)
Wake ==
  /\ runner = "off" /\ hook
  /\ \/ wake' = (wake \/ Serving) /\ NoFault
     \/ UNCHANGED wake /\ Fault
  /\ UNCHANGED <<files, at, req, attempt, handled, force, due, lease, telegram, history>>

(* Without one it decides to poll.                                         *)
Inspect ==
  /\ runner = "off" /\ ~hook
  /\ runner' = "polling"
  /\ UNCHANGED <<files, process, hook, sent, acked, polled, history, hostFaults>>

(* Once a day the job removes a webhook without looking again; Telegram    *)
(* refuses getUpdates while there is one.                                  *)
Poll ==
  /\ runner = "polling"
  /\ hook' \in {hook, FALSE}
  /\ polled' = IF hook' THEN polled ELSE polled \cup Unanswered
  /\ runner' = "off"
  /\ UNCHANGED <<files, process, sent, acked, history, hostFaults>>

----------------------------------------------------------------------------
HostNext ==
  \/ SendCommand
  \/ Start \/ DieRestoring \/ Register \/ Crash \/ Stop
  \/ Save \/ Backup
  \/ Receive \/ HandleDone \/ HandlePaused \/ HandleRefused \/ HandleFailed \/ Answer
  \/ BeginPass \/ RemindNext \/ RemindFails \/ RemindedAll \/ Scan \/ DeliverQueue
  \/ LeaseExpires
  \/ Inspect \/ Wake \/ Poll

(* The platform restarts the service, and a handler or a pass runs to its  *)
(* end; Telegram repeats what is unanswered, and both timers keep firing.  *)
ProcessStep ==
  \/ Start \/ Register \/ Save \/ Backup \/ Answer \/ HandleDone
  \/ RemindNext \/ RemindedAll \/ Scan \/ DeliverQueue

RunnerStep == Inspect \/ Wake \/ Poll

HostFairness ==
  /\ WF_hostVars(ProcessStep) /\ SF_hostVars(Receive) /\ SF_hostVars(BeginPass)
  /\ WF_hostVars(RunnerStep)

HostSpec == HostInit /\ [][HostNext]_hostVars /\ HostFairness

----------------------------------------------------------------------------
(* Properties.                                                             *)

(* A lost answer makes Telegram push a command again, and the stored       *)
(* offset lets it be confirmed without being run again: a command runs to  *)
(* its end a second time only after a restart that had forgotten the end.  *)
HandledOnce == \A u \in Command : finished[u] <= 1 + forgot[u]

(* A reminder is shown again only when the answer to showing it was lost,  *)
(* or when a restart went back to before its receipt.                      *)
RemindedOnce == \A r \in Reminder : told[r] <= 1 + unheard[r] + undone[r]

(* Nothing is done twice without a cause the code can name: a restart that *)
(* forgot it, or an answer that was lost.                                  *)
OncePerCause == HandledOnce /\ RemindedOnce

(* What a copy in the chat once held is never lost again, whichever disks  *)
(* and backups fail later: the one exception is a start that can read      *)
(* neither the copy nor a disk, because it then pins its empty state.      *)
SecuredStays ==
  ~wiped => \A u \in secured :
              /\ u < pinned[1].json.next
              /\ Serving => u < json.next

(* Both files are backed up and restored as a pair: no state is pinned or   *)
(* served in which the offset has moved past a finished command while its  *)
(* reminder is missing, the one exception being a start that finds half a   *)
(* restore and cannot repeat it.                                           *)
HasReminder(copy, u) == \E k \in 1 .. HostFaults + 1 : copy.rows[<<u, k>>] # "none"

RemindersFollowOffset ==
  ~wiped =>
  \A copy \in {pinned[i] : i \in DOMAIN pinned} \cup (IF Serving THEN {disk} ELSE {}) :
    \A u \in Reminding : (u < copy.json.next /\ finished[u] > forgot[u]) => HasReminder(copy, u)

(* The pinned copy keeps what it was given, and its two files agree.       *)
CopyKeepsAll == SecuredStays /\ RemindersFollowOffset

(* Every command is settled by the service or by the job, and the end of   *)
(* one the service confirmed reaches the pinned copy unless a restart      *)
(* forgot it first.                                                        *)
CommandsSettle ==
  \A u \in Command :
    /\ (u <= sent) ~> (u \in acked \cup polled)
    /\ (u \in acked) ~> (u \in secured \/ forgot[u] > 0)

(* Posts that wait for a key get one from the next wake, unless a job that  *)
(* decided before removes the webhook and polls in the service's place.    *)
PostsReachEditor == (json.posts = 1 /\ hook) ~> (json.posts = 0 \/ ~hook)

(* A reminder on file is shown or cancelled, however often a pass fails    *)
(* before it or a restart interrupts it.                                   *)
RemindersSettle ==
  \A r \in Reminder :
    (disk.rows[r] = "pending") ~> (disk.rows[r] \in {"sent", "cancelled", "none"})

(* Commands, waiting posts and reminders all come to their end.            *)
ServiceSettles == CommandsSettle /\ PostsReachEditor /\ RemindersSettle
=============================================================================
