--------------------------- MODULE TelegramPolling ---------------------------
(***************************************************************************)
(* The editor's commands, read with getUpdates.                            *)
(*                                                                         *)
(* Telegram keeps a command until a getUpdates call carries an offset      *)
(* above its number; from then on no retry can bring it back.  A run polls *)
(* once at its start, then scans and delivers (polling again between the   *)
(* groups of a large batch), then polls in a loop until its deadline.  The *)
(* offset, the failure counters and the open prompt live in state.json,    *)
(* which is written at some of these points only.                          *)
(***************************************************************************)
EXTENDS Integers, FiniteSets

CONSTANTS
  N,          \* commands 1 .. N are sent, in this order
  Kind,       \* Kind[u]: "prompt", "answer" or "menu"
  Poison,     \* commands whose handler fails every time
  Attempts,   \* MAX_TELEGRAM_UPDATE_ATTEMPTS
  MaxFaults   \* bound on injected failures

Command == 1 .. N

ASSUME SizeAssumption == N \in Nat /\ MaxFaults \in Nat /\ Attempts \in Nat \ {0}
ASSUME KindAssumption == Kind \in [Command -> {"prompt", "answer", "menu"}]
ASSUME PoisonAssumption == Poison \subseteq Command

VARIABLES
  pc,        \* "down", "poll", "next", "handling", "work", "deliver", "window", "exit"
  back,      \* where the poll in progress returns to
  polling,   \* _telegram_poll_in_progress
  mem,       \* the process' copy of state.json
  disk,      \* state.json
  sent,      \* how many commands the editor has sent
  held,      \* commands Telegram still holds
  batch,     \* commands of this poll that have not been taken
  cur,       \* the command in its handler, 0 before the first
  asked,     \* what the handler of cur is doing
  runs,      \* history: how often each command was carried out
  did,       \* history: what each command was carried out as
  skipped,   \* history: commands given up with a notice or a log line
  faults,    \* failures injected so far
  crashes    \* how many of them killed the process

server  == <<sent, held>>
handler == <<batch, cur, asked>>
history == <<runs, did, skipped>>
vars    == <<pc, back, polling, mem, disk, server, handler, history, faults, crashes>>
-----------------------------------------------------------------------------
Request == {"quick", "search", "other"}

(* The parts of state.json polling works on.                               *)
Json == [offset: 1 .. N + 1,
         failures: [Command -> 0 .. Attempts - 1],   \* telegram_failures
         awaiting: {"", "quick"}]                    \* the open prompt

Init ==
  /\ pc = "down" /\ back = "work" /\ polling = FALSE
  /\ mem = [offset |-> 1, failures |-> [u \in Command |-> 0], awaiting |-> ""]
  /\ disk = mem
  /\ sent = 0 /\ held = {}
  /\ batch = {} /\ cur = 0 /\ asked = "other"
  /\ runs = [u \in Command |-> 0] /\ did = [u \in Command |-> {}] /\ skipped = {}
  /\ faults = 0 /\ crashes = 0

Fault == faults < MaxFaults /\ faults' = faults + 1

Save(data) == mem' = data /\ disk' = data
-----------------------------------------------------------------------------
(***************************************************************************)
(* The editor and the run around the polls.                                *)
(***************************************************************************)

SendCommand ==
  /\ sent < N
  /\ sent' = sent + 1
  /\ held' = held \cup {sent + 1}
  /\ UNCHANGED <<pc, back, polling, mem, disk, handler, history, faults, crashes>>

StartRun ==
  /\ pc = "down"
  /\ pc' = "poll"
  /\ mem' = disk
  /\ UNCHANGED <<back, polling, disk, server, handler, history, faults, crashes>>

(* run_scheduled_scan and a deliver_pending with an empty queue do not     *)
(* save; a group of deliver_updates does.                                  *)
DeliverGroup ==
  /\ pc \in {"work", "deliver"}
  /\ Save(mem)
  /\ pc' = "deliver"
  /\ UNCHANGED <<back, polling, server, handler, history, faults, crashes>>

DeliveryDone ==
  /\ pc \in {"work", "deliver"}
  /\ pc' = "window"
  /\ UNCHANGED <<back, polling, mem, disk, server, handler, history, faults, crashes>>

Deadline ==
  /\ pc = "window"
  /\ pc' = "exit"
  /\ UNCHANGED <<back, polling, mem, disk, server, handler, history, faults, crashes>>

(* The finally block of run.                                               *)
ExitRun ==
  /\ pc = "exit"
  /\ Save(mem)
  /\ pc' = "down"
  /\ UNCHANGED <<back, polling, server, handler, history, faults, crashes>>

Crash ==
  /\ pc # "down"
  /\ Fault /\ crashes' = crashes + 1
  /\ pc' = "down" /\ polling' = FALSE /\ batch' = {} /\ mem' = disk
  /\ UNCHANGED <<back, disk, server, cur, asked, history>>
-----------------------------------------------------------------------------
(***************************************************************************)
(* One poll.                                                               *)
(***************************************************************************)

(* Mutant: the delivery started by a command polls again.                  *)
Reentrant == TRUE

PollAllowed == ~polling

ReturnsTo(at) == IF at = "poll" THEN "work" ELSE at

(* getUpdates(offset) makes Telegram forget the commands below the offset. *)
Confirmed == {u \in held : u >= mem.offset}

(* A poll from inside a handler, which a command that delivers a large     *)
(* batch makes, returns at once; any other fetches what Telegram holds.    *)
Poll ==
  /\ pc \in {"poll", "deliver", "window", "handling"}
  /\ PollAllowed
  /\ held' = Confirmed /\ batch' = Confirmed
  /\ polling' = TRUE /\ back' = ReturnsTo(pc)
  /\ pc' = "next"
  /\ UNCHANGED <<mem, disk, sent, cur, asked, history, faults, crashes>>

(* The request fails, before or after Telegram has taken note of the       *)
(* offset.  deliver_pending catches the error, run does not.               *)
PollFails(reached) ==
  /\ pc \in {"poll", "deliver", "window"}
  /\ Fault
  /\ held' = IF reached THEN Confirmed ELSE held
  /\ pc' = IF pc = "deliver" THEN "window" ELSE "exit"
  /\ UNCHANGED <<back, polling, mem, disk, sent, handler, history, crashes>>

Oldest(S, u) == u \in S /\ \A v \in S : u <= v

(* What a message is taken for: an answer to the open prompt, or a search. *)
Meaning(u) ==
  IF Kind[u] # "answer" THEN "other"
  ELSE IF mem.awaiting = "quick" THEN "quick" ELSE "search"

(* The commands of a batch are at or above the offset, so none is passed   *)
(* over.  The handler sets or pops the open prompt before it does anything *)
(* that can fail.                                                          *)
TakeCommand(u) ==
  /\ pc = "next" /\ Oldest(batch, u)
  /\ batch' = batch \ {u}
  /\ cur' = u /\ asked' = Meaning(u)
  /\ mem' = [mem EXCEPT !.awaiting = IF Kind[u] = "prompt" THEN "quick" ELSE ""]
  /\ pc' = "handling"
  /\ UNCHANGED <<back, polling, disk, server, history, faults, crashes>>

(* A command that delivers posts saves between them, and offers a poll     *)
(* that the guard turns down.                                              *)
HandlerSaves ==
  /\ pc = "handling" /\ asked # "search" /\ polling
  /\ Save(mem)
  /\ UNCHANGED <<pc, back, polling, server, handler, history, faults, crashes>>

(* clear_telegram_failure, and the offset moves past the command.          *)
Consumed == [mem EXCEPT !.failures[cur] = 0, !.offset = cur + 1]

Succeed ==
  /\ pc = "handling" /\ cur \notin Poison
  /\ runs' = [runs EXCEPT ![cur] = @ + 1]
  /\ did' = [did EXCEPT ![cur] = @ \cup {asked}]
  /\ mem' = Consumed
  /\ pc' = "next"
  /\ UNCHANGED <<back, polling, disk, server, handler, skipped, faults, crashes>>

(* Mutant: the offset moves past a command before its handler has finished. *)
TransientConsumes ==
  /\ pc = "handling" /\ Fault
  /\ batch' = {}
  /\ mem' = Consumed
  /\ pc' = "next"
  /\ UNCHANGED <<back, polling, disk, server, cur, asked, history, crashes>>

(* A command that has to be retried ends the batch.                        *)
LeaveBatch == {}

(* TelegramTransientError: neither offset nor counter move.                *)
Transient ==
  /\ pc = "handling" /\ Fault
  /\ batch' = LeaveBatch
  /\ pc' = "next"
  /\ UNCHANGED <<back, polling, mem, disk, server, cur, asked, history, crashes>>

(* TelegramPermanentError: repeating the request cannot help.              *)
Permanent ==
  /\ pc = "handling" /\ Fault
  /\ skipped' = skipped \cup {cur}
  /\ mem' = Consumed
  /\ pc' = "next"
  /\ UNCHANGED <<back, polling, disk, server, handler, runs, did, crashes>>

(* Mutant: the counter of an earlier run is not carried on.                *)
FirstFailure == [mem EXCEPT !.failures[cur] = 1]

Counted == [mem EXCEPT !.failures[cur] = @ + 1]

(* Mutant: off by one in the budget.                                       *)
OneAttemptMore == mem.failures[cur] >= Attempts

LastAttempt == mem.failures[cur] + 1 >= Attempts

(* Any other error of the command, one that comes back or one that does    *)
(* not.                                                                    *)
Fails == pc = "handling" /\ IF cur \in Poison THEN UNCHANGED faults ELSE Fault

(* It is counted and retried by a later poll ...                           *)
FailAndRetry ==
  /\ Fails /\ ~LastAttempt
  /\ mem' = Counted
  /\ batch' = LeaveBatch
  /\ pc' = "next"
  /\ UNCHANGED <<back, polling, disk, server, cur, asked, history, crashes>>

(* ... until its budget is spent.                                          *)
Quarantine ==
  /\ Fails /\ LastAttempt
  /\ skipped' = skipped \cup {cur}
  /\ mem' = Consumed
  /\ pc' = "next"
  /\ UNCHANGED <<back, polling, disk, server, handler, runs, did, crashes>>

(* Every batch of the interactive window is followed by a save.            *)
EndPoll ==
  /\ pc = "next" /\ batch = {}
  /\ polling' = FALSE
  /\ pc' = back
  /\ disk' = IF back = "window" THEN mem ELSE disk
  /\ UNCHANGED <<back, mem, server, handler, history, faults, crashes>>
-----------------------------------------------------------------------------
Next ==
  \/ SendCommand \/ StartRun \/ DeliverGroup \/ DeliveryDone \/ Deadline
  \/ ExitRun \/ Crash \/ Poll
  \/ \E reached \in BOOLEAN : PollFails(reached)
  \/ \E u \in Command : TakeCommand(u)
  \/ HandlerSaves \/ Succeed \/ Transient \/ Permanent \/ FailAndRetry \/ Quarantine \/ EndPoll

Spec == Init /\ [][Next]_vars

(* Runs are started for ever and each one that is not killed goes on; its  *)
(* handlers return; deliveries end; the window ends at its deadline.       *)
Goes ==
  \/ StartRun \/ (pc = "poll" /\ Poll) \/ ExitRun
  \/ (\E u \in Command : TakeCommand(u)) \/ Succeed \/ FailAndRetry \/ Quarantine \/ EndPoll

Fairness == WF_vars(Goes) /\ WF_vars(DeliveryDone) /\ SF_vars(Deadline)

FairSpec == Spec /\ Fairness
-----------------------------------------------------------------------------
(* Type of every variable (state.py, telegram_update_runtime.py).          *)
TypeOK ==
  /\ pc \in {"down", "poll", "next", "handling", "work", "deliver", "window", "exit"}
  /\ back \in {"work", "deliver", "window"} /\ polling \in BOOLEAN
  /\ mem \in Json /\ disk \in Json
  /\ sent \in 0 .. N /\ held \subseteq 1 .. sent
  /\ batch \subseteq held /\ cur \in 0 .. N /\ asked \in Request
  /\ runs \in [Command -> Nat] /\ did \in [Command -> SUBSET Request]
  /\ skipped \subseteq Command
  /\ faults \in 0 .. MaxFaults /\ crashes \in 0 .. faults

Settled(u) == runs[u] > 0 \/ u \in skipped

(* A command Telegram no longer holds was carried out, or given up with a  *)
(* notice: whatever fails or is killed, the offset never confirms a        *)
(* command that is still waiting (telegram_update_runtime.py).             *)
NoCommandLost == \A u \in 1 .. sent : u \in held \/ Settled(u)

(* A command is carried out only when every earlier one is settled: a      *)
(* failed command holds back the ones behind it.                           *)
InOrder == \A u, v \in Command : v < u /\ Settled(u) => Settled(v)

(* A command is carried out twice only if a killed run forgot that it was. *)
BoundedReplay == \A u \in Command : runs[u] <= 1 + crashes

(* Neither nested polls nor failures nor killed runs change the order of   *)
(* commands or repeat one needlessly (telegram_update_runtime.py).         *)
OrderlyReplay == InOrder /\ BoundedReplay

(* Every command is settled in the end: one that fails every time is given *)
(* up after its budget of attempts and does not block the ones behind it.  *)
EveryCommandSettled == []<>(\A u \in 1 .. sent : Settled(u))

(* The last message before u that opens or closes a prompt opened one.     *)
Expected(u) ==
  IF Kind[u] # "answer" THEN "other"
  ELSE IF u > 1 /\ Kind[u - 1] = "prompt" THEN "quick" ELSE "search"

(* Comment of the poller: "Keep offset and poison counter intact, stop     *)
(* this run, and let the next scheduled run retry in order."  A command    *)
(* that is retried is carried out as the request it was.                   *)
RetryIsTheSameRequest ==
  crashes = 0 => \A u \in Command : did[u] \subseteq {Expected(u)}
=============================================================================
