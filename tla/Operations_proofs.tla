-------------------------- MODULE Operations_proofs --------------------------
(***************************************************************************)
(* Theorems about what keeps the bot running: the editor's commands, for   *)
(* any number of them, any mixture of prompts, answers and menus, any      *)
(* poisoned commands, any budget of attempts and any number of faults; and *)
(* the verdict a live run publishes of itself with the chain of recovery   *)
(* runs that the watchdog starts, for any number of sources and any        *)
(* interval.                                                               *)
(*                                                                         *)
(* The properties of the commands speak of what Telegram holds and of what *)
(* was carried out.  What connects them is the offset: everything below it *)
(* is settled, in the process and on disk (Offsets), and the loop over a   *)
(* batch takes commands so that nothing unsettled is left below the one in *)
(* its handler (Loop).  BoundedReplay needs that a command carried out in  *)
(* this life of the process is below the offset of the process (Replay).   *)
(***************************************************************************)
EXTENDS MCOperations, TLAPS

----------------------------------------------------------------------------
(* The editor's commands (TelegramPolling).                                *)

(* Where the process is, and what its flag and its batch are there.        *)
Control ==
  /\ polling <=> pc \in {"next", "handling"}
  /\ ~polling => batch = {}
  /\ pc = "down" => mem = disk

(* Every command below the offset is settled, in both copies of the state. *)
Offsets ==
  \A u \in Command : u < mem.offset \/ u < disk.offset => Settled(u)

(* The loop over a batch: what it has still to take is above the offset,   *)
(* and below it there is only what is settled, in the batch or in hand.    *)
Loop ==
  /\ \A v \in batch : v >= mem.offset
  /\ \A v \in batch, u \in Command :
       u < v => u \in batch \/ Settled(u) \/ (pc = "handling" /\ u = cur)
  /\ pc = "handling" =>
       /\ cur \in Command /\ cur \in held /\ cur >= mem.offset
       /\ \A v \in batch : cur < v
       /\ \A u \in Command : u < cur => Settled(u)

(* A command above the offset was carried out at most once per kill.       *)
Replay ==
  \A u \in Command : runs[u] <= IF u < mem.offset THEN crashes + 1 ELSE crashes

IInv == TypeOK /\ Control /\ Offsets /\ Loop /\ NoCommandLost /\ InOrder /\ Replay

-----------------------------------------------------------------------------
(* A command already sent is above the offset, or below it.                *)
LEMMA Below ==
  ASSUME TypeOK, NEW u \in 1 .. sent
  PROVE  u \in Command /\ (u >= mem.offset \/ u < mem.offset)
<1>1. mem \in Json /\ sent \in 0 .. N
  BY DEF TypeOK
<1>2. mem.offset \in 1 .. N + 1
  BY <1>1 DEF Json
<1>3. QED
  BY <1>1, <1>2, SizeAssumption DEF Command

(* What the end of a handler that settles its command establishes.         *)
LEMMA ConsumedType ==
  ASSUME mem \in Json, cur \in Command
  PROVE  /\ Consumed \in Json
         /\ Consumed.offset = cur + 1
<1> DEFINE kept == [mem.failures EXCEPT ![cur] = 0]
<1>1. kept \in [Command -> 0 .. Attempts - 1]
  <2>1. mem.failures \in [Command -> 0 .. Attempts - 1]
    BY DEF Json
  <2>2. 0 \in 0 .. Attempts - 1
    BY SizeAssumption
  <2>3. QED
    BY <2>1, <2>2
<1>2. Consumed = [[mem EXCEPT !.failures = kept] EXCEPT !.offset = cur + 1]
  BY DEF Consumed
<1>3. cur + 1 \in 1 .. N + 1
  BY SizeAssumption DEF Command
<1> HIDE DEF kept
<1>4. QED
  BY <1>1, <1>2, <1>3 DEF Json

(* One more failure below the budget.                                      *)
LEMMA CountedType ==
  ASSUME mem \in Json, cur \in Command, ~LastAttempt
  PROVE  Counted \in Json /\ Counted.offset = mem.offset
<1> DEFINE more == [mem.failures EXCEPT ![cur] = @ + 1]
<1>1. more \in [Command -> 0 .. Attempts - 1]
  <2>1. mem.failures \in [Command -> 0 .. Attempts - 1]
    BY DEF Json
  <2>2. mem.failures[cur] + 1 \in 0 .. Attempts - 1
    BY <2>1, SizeAssumption DEF LastAttempt
  <2>3. QED
    BY <2>1, <2>2
<1>2. Counted = [mem EXCEPT !.failures = more]
  BY DEF Counted
<1> HIDE DEF more
<1>3. QED
  BY <1>1, <1>2 DEF Json

(* Offsets and counters are numbers.                                       *)
LEMMA Numbers ==
  ASSUME TypeOK
  PROVE  /\ mem.offset \in Nat /\ disk.offset \in Nat
         /\ crashes \in Nat /\ faults \in Nat /\ cur \in Nat /\ sent \in Nat
         /\ runs \in [Command -> Nat] /\ Command \subseteq Nat
<1>1. /\ mem \in Json /\ disk \in Json /\ sent \in 0 .. N /\ cur \in 0 .. N
      /\ runs \in [Command -> Nat] /\ faults \in 0 .. MaxFaults /\ crashes \in 0 .. faults
  BY DEF TypeOK
<1>2. mem.offset \in 1 .. N + 1 /\ disk.offset \in 1 .. N + 1
  BY <1>1 DEF Json
<1>3. QED
  BY <1>1, <1>2, SizeAssumption DEF Command

LEMMA InitIInv == Init => IInv
<1> SUFFICES ASSUME Init PROVE IInv
  OBVIOUS
<1> USE SizeAssumption
<1>1. mem \in Json /\ mem.offset = 1 /\ disk = mem
  <2>1. mem = [offset |-> 1, failures |-> [u \in Command |-> 0], awaiting |-> ""] /\ disk = mem
    BY DEF Init
  <2>2. 1 \in 1 .. N + 1 /\ 0 \in 0 .. Attempts - 1
    OBVIOUS
  <2>3. QED
    BY <2>1, <2>2 DEF Json
<1>2. /\ sent \in 0 .. N /\ cur \in 0 .. N
      /\ faults \in 0 .. MaxFaults /\ crashes \in 0 .. faults
  <2>1. sent = 0 /\ cur = 0 /\ faults = 0 /\ crashes = 0
    BY DEF Init
  <2>2. QED
    BY <2>1
<1>3. /\ runs \in [Command -> Nat] /\ did \in [Command -> SUBSET Request]
      /\ held \subseteq 1 .. sent /\ batch \subseteq held
  BY DEF Init
<1>4. TypeOK
  BY <1>1, <1>2, <1>3 DEF Init, TypeOK, Request
<1>5. Control /\ Loop
  BY DEF Init, Control, Loop
<1>6. /\ runs = [u \in Command |-> 0] /\ skipped = {} /\ sent = 0 /\ crashes = 0
  BY DEF Init
<1>7. Offsets /\ Replay /\ NoCommandLost /\ InOrder
  <2>1. \A u \in Command : u >= 1 /\ runs[u] = 0 /\ ~Settled(u)
    BY <1>6 DEF Settled, Command
  <2>2. Offsets /\ Replay
    BY <1>1, <1>6, <2>1 DEF Offsets, Replay, Command
  <2>3. NoCommandLost /\ InOrder
    BY <1>6, <2>1 DEF NoCommandLost, InOrder
  <2>4. QED
    BY <2>2, <2>3
<1>8. QED
  BY <1>4, <1>5, <1>7 DEF IInv
-----------------------------------------------------------------------------
(* Steps that leave the commands and what was done with them alone.        *)
LEMMA Quiet ==
  ASSUME NoCommandLost, InOrder, UNCHANGED <<sent, held, runs, skipped>>
  PROVE  NoCommandLost' /\ InOrder'
BY DEF NoCommandLost, InOrder, Settled

LEMMA NextIInv == IInv /\ [Next]_vars => IInv'
<1> SUFFICES ASSUME IInv, [Next]_vars PROVE IInv'
  OBVIOUS
<1> USE SizeAssumption
<1> USE DEF IInv
<1>1. CASE SendCommand
  <2>1. TypeOK'
    BY <1>1 DEF SendCommand, TypeOK, history, handler, Command
  <2>2. NoCommandLost'
    BY <1>1 DEF SendCommand, TypeOK, history, NoCommandLost, Settled
  <2>3. Control' /\ Offsets' /\ Loop' /\ InOrder' /\ Replay'
    BY <1>1 DEF SendCommand, history, handler, Control, Offsets, Loop, InOrder, Replay, Settled
  <2>4. QED
    BY <2>1, <2>2, <2>3
<1>2. CASE StartRun
  <2>1. mem = disk /\ mem' = mem
    BY <1>2 DEF StartRun, Control
  <2>2. TypeOK'
    BY <1>2 DEF StartRun, server, history, handler, TypeOK
  <2>3. Control' /\ Offsets' /\ Loop' /\ NoCommandLost' /\ InOrder' /\ Replay'
    BY <1>2, <2>1 DEF StartRun, server, history, handler, Control, Offsets, Loop,
       NoCommandLost, InOrder, Replay, Settled
  <2>4. QED
    BY <2>2, <2>3
<1>3. CASE DeliverGroup \/ DeliveryDone \/ Deadline \/ ExitRun
  <2>1. /\ pc' \in {"deliver", "window", "exit", "down"}
        /\ pc' = "down" => disk' = mem
        /\ pc \notin {"next", "handling"}
        /\ mem' = mem /\ disk' \in {mem, disk}
        /\ UNCHANGED <<back, polling, sent, held, batch, cur, asked, runs, did, skipped, faults, crashes>>
    BY <1>3 DEF DeliverGroup, DeliveryDone, Deadline, ExitRun, Save, server, handler, history
  <2>2. TypeOK'
    BY <2>1 DEF TypeOK
  <2>3. Control' /\ Offsets' /\ Loop' /\ Replay'
    BY <2>1 DEF Control, Offsets, Loop, Replay, Settled
  <2>4. QED
    BY <2>1, <2>2, <2>3, Quiet
<1>4. CASE Crash
  <2>1. /\ pc' = "down" /\ mem' = disk /\ disk' = disk /\ batch' = {} /\ polling' = FALSE
        /\ crashes' = crashes + 1 /\ faults' = faults + 1 /\ faults < MaxFaults
        /\ UNCHANGED <<back, sent, held, cur, asked, runs, did, skipped>>
    BY <1>4 DEF Crash, Fault, server, history
  <2>2. crashes' \in 0 .. faults' /\ faults' \in 0 .. MaxFaults
    BY <2>1 DEF TypeOK
  <2>3. TypeOK'
    BY <2>1, <2>2 DEF TypeOK
  <2>4. Control' /\ Offsets' /\ Loop'
    BY <2>1 DEF Control, Offsets, Loop, Settled
  <2>5. Replay'
    BY <2>1, Numbers DEF Replay
  <2>6. QED
    BY <2>1, <2>3, <2>4, <2>5, Quiet
<1>5. CASE Poll
  <2>1. /\ held' = Confirmed /\ batch' = Confirmed /\ polling' = TRUE /\ pc' = "next"
        /\ ~polling /\ back' = ReturnsTo(pc) /\ pc \in {"poll", "deliver", "window"}
        /\ UNCHANGED <<mem, disk, sent, cur, asked, runs, did, skipped, faults, crashes>>
    BY <1>5 DEF Poll, PollAllowed, history, Control
  <2>2. TypeOK'
    BY <2>1 DEF TypeOK, Confirmed, ReturnsTo
  <2>3. \A u \in Command : u < mem.offset => Settled(u)
    BY DEF Offsets
  <2>4. NoCommandLost'
    BY <2>1, <2>3, Below DEF NoCommandLost, Settled, Confirmed
  <2>5. Control' /\ Offsets' /\ InOrder' /\ Replay'
    BY <2>1 DEF Control, Offsets, InOrder, Replay, Settled
  <2>6. ASSUME NEW v \in batch', NEW u \in Command, u < v PROVE u \in batch' \/ Settled(u)
    <3>1. u \in 1 .. sent
      BY <2>1, <2>6 DEF TypeOK, Confirmed, Command
    <3>2. QED
      BY <2>1, <2>3, <3>1, Numbers DEF NoCommandLost, Confirmed
  <2>7. Loop'
    BY <2>1, <2>6 DEF Loop, Confirmed, Settled
  <2>8. QED
    BY <2>2, <2>4, <2>5, <2>7
<1>6. CASE \E reached \in BOOLEAN : PollFails(reached)
  <2>1. PICK reached \in BOOLEAN : PollFails(reached)
    BY <1>6
  <2>2. /\ pc' \in {"window", "exit"} /\ held' \in {held, Confirmed} /\ batch = {}
        /\ ~polling /\ faults' = faults + 1 /\ faults < MaxFaults
        /\ UNCHANGED <<back, polling, mem, disk, sent, batch, cur, asked, runs, did, skipped, crashes>>
    BY <2>1 DEF PollFails, Fault, history, handler, Control
  <2>3. TypeOK'
    BY <2>2 DEF TypeOK, Confirmed
  <2>4. NoCommandLost'
    BY <2>2, Below DEF NoCommandLost, Offsets, Settled, Confirmed
  <2>5. Control' /\ Offsets' /\ Loop' /\ InOrder' /\ Replay'
    BY <2>2 DEF Control, Offsets, Loop, InOrder, Replay, Settled
  <2>6. QED
    BY <2>3, <2>4, <2>5
<1>7. CASE \E u \in Command : TakeCommand(u)
  <2>1. PICK u \in Command : TakeCommand(u)
    BY <1>7
  <2>2. /\ u \in batch /\ \A v \in batch : u <= v
        /\ pc = "next" /\ pc' = "handling" /\ cur' = u /\ batch' = batch \ {u}
        /\ asked' = Meaning(u)
        /\ UNCHANGED <<back, polling, disk, sent, held, runs, did, skipped, faults, crashes>>
    BY <2>1 DEF TakeCommand, Oldest, server, history
  <2>3. mem' \in Json /\ mem'.offset = mem.offset
    BY <2>1 DEF TakeCommand, TypeOK, Json
  <2>4. TypeOK'
    BY <2>2, <2>3 DEF TypeOK, Meaning, Request, Command
  <2>5. Control' /\ Offsets' /\ Replay'
    BY <2>2, <2>3 DEF Control, Offsets, Replay, Settled
  <2>6. ASSUME NEW w \in Command, w < u PROVE Settled(w)
    BY <2>2, <2>6 DEF Loop, Command, TypeOK
  <2>7. Loop'
    BY <2>2, <2>3, <2>6 DEF Loop, Settled, TypeOK, Command
  <2>8. QED
    BY <2>2, <2>4, <2>5, <2>7, Quiet
<1>8. CASE HandlerSaves
  <2>1. /\ pc = "handling" /\ mem' = mem /\ disk' = mem
        /\ UNCHANGED <<pc, back, polling, sent, held, batch, cur, asked, runs, did, skipped, faults, crashes>>
    BY <1>8 DEF HandlerSaves, Save, server, handler, history
  <2>2. TypeOK'
    BY <2>1 DEF TypeOK
  <2>3. Control' /\ Offsets' /\ Loop' /\ Replay'
    BY <2>1 DEF Control, Offsets, Loop, Replay, Settled
  <2>4. QED
    BY <2>1, <2>2, <2>3, Quiet
<1>9. CASE Succeed \/ Permanent \/ Quarantine
  <2>1. /\ pc = "handling" /\ pc' = "next" /\ mem' = Consumed /\ disk' = disk
        /\ faults' \in {faults, faults + 1} /\ faults' <= MaxFaults
        /\ \/ /\ runs' = [runs EXCEPT ![cur] = @ + 1]
              /\ did' = [did EXCEPT ![cur] = @ \cup {asked}] /\ skipped' = skipped
           \/ runs' = runs /\ did' = did /\ skipped' = skipped \cup {cur}
        /\ UNCHANGED <<back, polling, sent, held, batch, cur, asked, crashes>>
    BY <1>9 DEF Succeed, Permanent, Quarantine, Fails, Fault, server, handler, TypeOK
  <2>2. /\ cur \in Command /\ cur \in held /\ cur >= mem.offset
        /\ \A v \in batch : cur < v
        /\ \A u \in Command : u < cur => Settled(u)
    BY <2>1 DEF Loop
  <2>3. mem' \in Json /\ mem'.offset = cur + 1
    BY <2>1, <2>2, ConsumedType DEF TypeOK
  <2>4. \A u \in Command : Settled(u)' <=> Settled(u) \/ u = cur
    BY <2>1, <2>2 DEF Settled, TypeOK
  <2>5. TypeOK'
    <3>1. /\ runs' \in [Command -> Nat] /\ did' \in [Command -> SUBSET Request]
          /\ skipped' \subseteq Command
      <4>1. /\ runs \in [Command -> Nat] /\ did \in [Command -> SUBSET Request]
            /\ skipped \subseteq Command /\ asked \in Request
        BY DEF TypeOK
      <4>2. CASE /\ runs' = [runs EXCEPT ![cur] = @ + 1]
                 /\ did' = [did EXCEPT ![cur] = @ \cup {asked}] /\ skipped' = skipped
        <5>1. runs[cur] + 1 \in Nat /\ did[cur] \cup {asked} \in SUBSET Request
          BY <2>2, <4>1
        <5>2. QED
          BY <2>2, <4>1, <4>2, <5>1
      <4>3. CASE runs' = runs /\ did' = did /\ skipped' = skipped \cup {cur}
        BY <2>2, <4>1, <4>3
      <4>4. QED
        BY <2>1, <4>2, <4>3
    <3>2. faults' \in 0 .. MaxFaults /\ crashes' \in 0 .. faults'
      BY <2>1 DEF TypeOK
    <3>3. QED
      BY <2>1, <2>3, <3>1, <3>2 DEF TypeOK
  <2>6. Control'
    BY <2>1 DEF Control
  <2>7. Offsets'
    BY <2>1, <2>2, <2>3, <2>4 DEF Offsets, Command
  <2>8. Loop'
    BY <2>1, <2>2, <2>3, <2>4 DEF Loop, TypeOK, Command
  <2>9. NoCommandLost' /\ InOrder'
    BY <2>1, <2>2, <2>4 DEF NoCommandLost, InOrder, TypeOK, Command
  <2>10. Replay'
    BY <2>1, <2>2, <2>3, Numbers DEF Replay
  <2>11. QED
    BY <2>5, <2>6, <2>7, <2>8, <2>9, <2>10
<1>10. CASE Transient \/ FailAndRetry
  <2>1. /\ pc = "handling" /\ pc' = "next" /\ batch' = {} /\ disk' = disk
        /\ faults' \in 0 .. MaxFaults /\ crashes' \in 0 .. faults'
        /\ mem' = mem \/ (mem' = Counted /\ ~LastAttempt)
        /\ UNCHANGED <<back, polling, sent, held, cur, asked, runs, did, skipped>>
    <3>1. faults \in 0 .. MaxFaults /\ crashes \in 0 .. faults
      BY DEF TypeOK
    <3>2. CASE Transient
      BY <3>1, <3>2 DEF Transient, LeaveBatch, Fault, server, history
    <3>3. CASE FailAndRetry
      BY <3>1, <3>3 DEF FailAndRetry, LeaveBatch, Fails, Fault, server, history
    <3>4. QED
      BY <1>10, <3>2, <3>3
  <2>2. mem' \in Json /\ mem'.offset = mem.offset
    BY <2>1, CountedType DEF TypeOK, Loop
  <2>3. TypeOK'
    BY <2>1, <2>2 DEF TypeOK
  <2>4. Control' /\ Offsets' /\ Loop' /\ Replay'
    <3>1. crashes' = crashes
      BY <1>10 DEF Transient, FailAndRetry
    <3>2. QED
      BY <2>1, <2>2, <3>1 DEF Control, Offsets, Loop, Replay, Settled
  <2>5. QED
    BY <2>1, <2>3, <2>4, Quiet
<1>11. CASE EndPoll
  <2>1. /\ pc' = back /\ polling' = FALSE /\ disk' \in {mem, disk} /\ batch = {}
        /\ UNCHANGED <<back, mem, sent, held, batch, cur, asked, runs, did, skipped, faults, crashes>>
    BY <1>11 DEF EndPoll, server, handler, history
  <2>2. back \in {"work", "deliver", "window"}
    BY DEF TypeOK
  <2>3. TypeOK'
    BY <2>1, <2>2 DEF TypeOK
  <2>4. Control' /\ Offsets' /\ Loop' /\ Replay'
    BY <2>1, <2>2 DEF Control, Offsets, Loop, Replay, Settled
  <2>5. QED
    BY <2>1, <2>3, <2>4, Quiet
<1>12. CASE UNCHANGED vars
  BY <1>12 DEF vars, server, handler, history, TypeOK, Control, Offsets, Loop, NoCommandLost,
     InOrder, Replay, Settled
<1>13. QED
  BY <1>1, <1>2, <1>3, <1>4, <1>5, <1>6, <1>7, <1>8, <1>9, <1>10, <1>11, <1>12 DEF Next
-----------------------------------------------------------------------------
LEMMA Inductive == Spec => []IInv
BY InitIInv, NextIInv, PTL DEF Spec

(* Every variable keeps its type; in particular the failure counters stay  *)
(* below the budget and a batch only holds commands Telegram still has.    *)
THEOREM PollingTypes == Spec => []TypeOK
<1>1. IInv => TypeOK
  BY DEF IInv
<1>2. QED
  BY <1>1, Inductive, PTL

(* getUpdates never confirms a command that was neither carried out nor    *)
(* given up, whatever fails or is killed.                                  *)
THEOREM CommandsKept == Spec => []NoCommandLost
<1>1. IInv => NoCommandLost
  BY DEF IInv
<1>2. QED
  BY <1>1, Inductive, PTL

(* Commands are settled in the order in which they were sent.              *)
THEOREM CommandsInOrder == Spec => []InOrder
<1>1. IInv => InOrder
  BY DEF IInv
<1>2. QED
  BY <1>1, Inductive, PTL

(* Each kill costs at most one repetition of a command.                    *)
THEOREM ReplaysBounded == Spec => []BoundedReplay
<1>1. IInv => BoundedReplay
  BY DEF IInv, TypeOK, Replay, BoundedReplay
<1>2. QED
  BY <1>1, Inductive, PTL

(* Both together.                                                          *)
THEOREM RepeatsInOrder == Spec => []OrderlyReplay
<1>1. Spec => []InOrder /\ []BoundedReplay
  BY CommandsInOrder, ReplaysBounded
<1>2. InOrder /\ BoundedReplay => OrderlyReplay
  BY DEF OrderlyReplay
<1>3. QED
  BY <1>1, <1>2, PTL

----------------------------------------------------------------------------
(* The verdict (ProductionOutcome).                                        *)

Exits == {"", "ok", "delegated", "unreachable", "raised", "preflight", "killed"}
Phases == {"none", "started", "scanned", "ran", "closed"}
FailedStatus == {"failed_sources", "failed_state", "failed_database"}

Report == [active : {0, Active}, attempted : Nat, complete : Nat, partial : Nat, failed : Nat,
           whole : BOOLEAN, advanced : BOOLEAN, notDue : BOOLEAN, saved : BOOLEAN,
           checked : BOOLEAN, sound : BOOLEAN, troubled : BOOLEAN]

(* Each attempted source is counted once, and as one thing.                *)
Sums(r) == r.complete + r.partial + r.failed = r.attempted /\ r.attempted <= r.active

(* What a scan that did not read everything leaves to be noticed, as long  *)
(* as a degraded pass reads all the sources.                               *)
Noticed(r) ==
  Degraded = Active => \/ r.whole \/ r.notDue \/ r.partial > 0
                       \/ r.active > 0 /\ r.failed = r.active

(* A failure of the database, of the state after a collection, or of every *)
(* source is published as a failure.                                       *)
FailuresShow ==
  phase = "closed" =>
    /\ (report.checked /\ ~report.sound) => artifact \in FailedStatus
    /\ (exit = "raised" /\ report.attempted > 0) => artifact \in {"failed_sources", "failed_state"}
    /\ (report.active > 0 /\ report.failed = report.active /\ artifact # "none") =>
         artifact = "failed_sources"

HealthyIsEarned ==
  (phase = "closed" /\ Degraded = Active /\ artifact = "healthy" /\ exit = "ok") =>
    report.whole \/ report.notDue

VerdictInv ==
  /\ report \in Report /\ Sums(report)
  /\ artifact \in Status /\ phase \in Phases /\ exit \in Exits
  /\ phase # "closed" => ~report.checked
  /\ phase \in {"none", "started", "scanned"} => artifact = "none"
  /\ phase = "scanned" => Noticed(report)
  /\ phase = "ran" => /\ artifact = classify_outcome_hardened(report)
                      /\ exit = "raised" => ~report.saved
                      /\ exit = "ok" => Noticed(report) /\ report.saved
  /\ FailuresShow /\ HealthyIsEarned

(* Reports that differ in flags only.                                      *)
SameCounts(r, s) ==
  /\ r.active = s.active /\ r.attempted = s.attempted /\ r.complete = s.complete
  /\ r.partial = s.partial /\ r.failed = s.failed
  /\ r.whole = s.whole /\ r.notDue = s.notDue

LEMMA Flagged ==
  ASSUME NEW r \in Report, Sums(r), NEW a \in BOOLEAN, NEW b \in BOOLEAN, NEW s,
         \/ s = [r EXCEPT !.saved = a, !.troubled = b]
         \/ s = [r EXCEPT !.checked = a, !.sound = b]
         \/ s = [r EXCEPT !.saved = a]
  PROVE  s \in Report /\ Sums(s) /\ SameCounts(s, r)
BY DEF Report, Sums, SameCounts

(* The classification, of whatever counters.                               *)
LEMMA Classified ==
  ASSUME NEW r
  PROVE  /\ classify_outcome(r) \in Status \ {"none"}
         /\ r.active > 0 /\ r.complete = 0 /\ r.failed = r.active =>
              classify_outcome(r) = "failed_sources"
         /\ ~r.saved /\ r.attempted > 0 => classify_outcome(r) \in {"failed_sources", "failed_state"}
         /\ r.checked /\ ~r.sound => classify_outcome(r) \in FailedStatus
         /\ classify_outcome(r) = "healthy" =>
              /\ ~(r.active > 0 /\ r.complete = 0 /\ r.failed = r.active)
              /\ ~(~r.whole /\ r.partial > 0 /\ ~r.advanced)
              /\ ~(r.partial > 0 /\ r.failed < r.active)
BY DEF classify_outcome, Status, FailedStatus

LEMMA Hardened ==
  ASSUME NEW r
  PROVE  /\ classify_outcome_hardened(r) \in Status \ {"none"}
         /\ classify_outcome(r) \in FailedStatus =>
              classify_outcome_hardened(r) = classify_outcome(r)
         /\ classify_outcome_hardened(r) = "healthy" => classify_outcome(r) = "healthy"
<1>1. classify_outcome(r) \in Status \ {"none"}
  BY Classified
<1>2. QED
  BY <1>1 DEF classify_outcome_hardened, Status, FailedStatus

LEMMA AllFailed ==
  ASSUME NEW r \in Report, Sums(r)
  PROVE  /\ r.failed = r.active => r.complete = 0
         /\ r.partial > 0 => r.failed < r.active
BY OutcomeAssumption DEF OutcomeAssumption, Report, Sums

(* Either classification shows what has to be shown.                       *)
LEMMA VerdictShows ==
  ASSUME NEW r \in Report, Sums(r), NEW c,
         c \in {classify_outcome(r), classify_outcome_hardened(r)}
  PROVE  /\ c \in Status \ {"none"}
         /\ r.checked /\ ~r.sound => c \in FailedStatus
         /\ ~r.saved /\ r.attempted > 0 => c \in {"failed_sources", "failed_state"}
         /\ r.active > 0 /\ r.failed = r.active => c = "failed_sources"
         /\ Noticed(r) /\ Degraded = Active /\ c = "healthy" => r.whole \/ r.notDue
<1>1. c \in Status \ {"none"}
  BY Classified, Hardened
<1>2. r.checked /\ ~r.sound => c \in FailedStatus
  BY Classified, Hardened
<1>3. ~r.saved /\ r.attempted > 0 => c \in {"failed_sources", "failed_state"}
  BY Classified, Hardened DEF FailedStatus
<1>4. r.active > 0 /\ r.failed = r.active => c = "failed_sources"
  BY Classified, Hardened, AllFailed DEF FailedStatus
<1>5. ASSUME Noticed(r), Degraded = Active, c = "healthy" PROVE r.whole \/ r.notDue
  <2>1. classify_outcome(r) = "healthy"
    BY <1>5, Hardened
  <2>2. /\ ~(r.active > 0 /\ r.complete = 0 /\ r.failed = r.active)
        /\ ~(r.partial > 0 /\ r.failed < r.active)
    BY <2>1, Classified
  <2>3. QED
    BY <1>5, <2>2, AllFailed DEF Noticed
<1>6. QED
  BY <1>1, <1>2, <1>3, <1>4, <1>5

(* The counters before anything is saved or checked.                       *)
Unsaved(r) == r \in Report /\ r.saved = FALSE /\ r.checked = FALSE

LEMMA BlankIs ==
  /\ Unsaved(Blank) /\ Blank.active = 0 /\ Blank.attempted = 0
  /\ Blank.complete = 0 /\ Blank.partial = 0 /\ Blank.failed = 0
BY DEF Blank, Report, Unsaved

LEMMA TotalsIs ==
  /\ Unsaved(Totals) /\ Totals.active = Active /\ Totals.attempted = 0
  /\ Totals.complete = 0 /\ Totals.partial = 0 /\ Totals.failed = 0
BY BlankIs DEF Totals, Report, Unsaved

LEMMA BlankSound ==
  ASSUME NEW r \in {Blank, Totals}
  PROVE  Unsaved(r) /\ Sums(r)
<1>1. Active \in Nat \ {0}
  BY OutcomeAssumption DEF OutcomeAssumption
<1>2. QED
  BY <1>1, BlankIs, TotalsIs DEF Sums

(* What a scan leaves in the counters.                                     *)
LEMMA TalliedSound ==
  ASSUME NEW e \in 0 .. Active, NEW moved \in BOOLEAN, moved => e = 0
  PROVE  /\ Unsaved(Tallied(e, moved)) /\ Sums(Tallied(e, moved))
         /\ Noticed(Tallied(e, moved))
<1> DEFINE c == IF moved THEN Active ELSE 0
           p == IF moved THEN 0 ELSE Active - e
           r == Tallied(e, moved)
<1>1. Active \in Nat \ {0} /\ e \in Nat /\ e <= Active
  BY OutcomeAssumption DEF OutcomeAssumption
<1>2. c \in Nat /\ p \in Nat /\ c + p + e = Active /\ (moved \/ p > 0 \/ e = Active)
  BY <1>1
<1>3. r = [Totals EXCEPT !.attempted = Active, !.failed = e, !.complete = c, !.partial = p,
                         !.advanced = moved, !.whole = moved]
  BY DEF Tallied
<1> HIDE DEF c, p, r
<1>4. /\ Unsaved(r) /\ r.active = Active /\ r.attempted = Active /\ r.failed = e
      /\ r.complete = c /\ r.partial = p /\ r.whole = moved
  BY <1>1, <1>2, <1>3, TotalsIs DEF Report, Unsaved
<1>5. Sums(r) /\ Noticed(r)
  BY <1>1, <1>2, <1>4 DEF Sums, Noticed
<1>6. QED
  BY <1>4, <1>5 DEF r

LEMMA BatchSound ==
  ASSUME NEW e \in 0 .. Degraded
  PROVE  Unsaved(BatchCounted(e)) /\ Sums(BatchCounted(e)) /\ Noticed(BatchCounted(e))
<1> DEFINE p == Degraded - e
           r == BatchCounted(e)
<1>1. /\ Active \in Nat \ {0} /\ Degraded \in Nat /\ Degraded <= Active
      /\ e \in Nat /\ e <= Degraded
  BY OutcomeAssumption DEF OutcomeAssumption
<1>2. p \in Nat /\ p + e = Degraded /\ (p > 0 \/ e = Degraded)
  BY <1>1
<1>3. r = [Totals EXCEPT !.attempted = Degraded, !.failed = e, !.partial = p]
  BY DEF BatchCounted
<1> HIDE DEF p, r
<1>4. /\ Unsaved(r) /\ r.active = Active /\ r.attempted = Degraded /\ r.failed = e
      /\ r.complete = 0 /\ r.partial = p
  BY <1>1, <1>2, <1>3, TotalsIs DEF Report, Unsaved
<1>5. Sums(r) /\ Noticed(r)
  BY <1>1, <1>2, <1>4 DEF Sums, Noticed
<1>6. QED
  BY <1>4, <1>5 DEF r

LEMMA NotDueSound == Unsaved(NotDue) /\ Sums(NotDue) /\ Noticed(NotDue)
<1>1. Active \in Nat \ {0}
  BY OutcomeAssumption DEF OutcomeAssumption
<1>2. /\ Unsaved(NotDue) /\ NotDue.active = Active /\ NotDue.attempted = 0
      /\ NotDue.complete = 0 /\ NotDue.partial = 0 /\ NotDue.failed = 0
      /\ NotDue.notDue = TRUE
  BY TotalsIs DEF NotDue, Report, Unsaved
<1>3. QED
  BY <1>1, <1>2 DEF Sums, Noticed

LEMMA ScannedSound ==
  ASSUME NEW x \in Provider, NEW r \in Scanned(x)
  PROVE  Unsaved(r) /\ Sums(r) /\ Noticed(r)
<1>1. Active \in Nat \ {0}
  BY OutcomeAssumption DEF OutcomeAssumption
<1>2. Active \in 0 .. Active /\ 0 \in 0 .. Active
  BY <1>1
<1>3. CASE x = "offline"
  BY <1>2, <1>3, TalliedSound DEF Scanned
<1>4. CASE x = "degraded"
  BY <1>4, NotDueSound, BatchSound DEF Scanned
<1>5. CASE x = "online"
  BY <1>2, <1>5, NotDueSound, TalliedSound DEF Scanned
<1>6. QED
  BY <1>3, <1>4, <1>5 DEF Provider

LEMMA SameNoticed ==
  ASSUME NEW r, NEW s, SameCounts(s, r), Noticed(r)
  PROVE  Noticed(s)
BY DEF SameCounts, Noticed

LEMMA RunStepVerdict == VerdictInv /\ RunStep => VerdictInv'
<1> SUFFICES ASSUME VerdictInv, RunStep PROVE VerdictInv'
  OBVIOUS
<1>a. /\ report \in Report /\ Sums(report)
      /\ artifact \in Status /\ phase \in Phases /\ exit \in Exits
  BY DEF VerdictInv
<1>b. ASSUME NEW r \in Report, NEW how, Sums(r), how \in Exits, ~r.checked, Emit(r, how),
             how = "raised" => ~r.saved, how = "ok" => Noticed(r) /\ r.saved
      PROVE  VerdictInv'
  <2>1. report' = r /\ artifact' = classify_outcome_hardened(r) /\ exit' = how /\ phase' = "ran"
    BY <1>b DEF Emit
  <2>2. artifact' \in Status /\ phase' \in Phases
    BY <2>1, Hardened DEF Phases
  <2>3. artifact' = classify_outcome_hardened(report')
    BY <2>1
  <2>4. QED
    BY <1>b, <2>1, <2>2, <2>3 DEF VerdictInv, FailuresShow, HealthyIsEarned
<1>1. CASE PreflightFails
  <2>1. /\ phase = "started" /\ phase' = "closed" /\ exit' = "preflight"
        /\ report' = report /\ artifact' = artifact
    BY <1>1 DEF PreflightFails
  <2>2. artifact = "none" /\ ~report.checked
    BY <2>1 DEF VerdictInv
  <2>3. FailuresShow' /\ HealthyIsEarned'
    BY <2>1, <2>2 DEF FailuresShow, HealthyIsEarned
  <2>4. QED
    BY <1>a, <2>1, <2>3 DEF VerdictInv, Phases, Exits
<1>2. CASE Scan
  <2>1. PICK x \in Provider : report' \in Scanned(x)
    BY <1>2 DEF Scan
  <2>2. report' \in Report /\ Sums(report') /\ Noticed(report') /\ report'.checked = FALSE
    BY <2>1, ScannedSound DEF Unsaved
  <2>3. phase = "started" /\ phase' = "scanned" /\ artifact' = artifact /\ exit' = exit
    BY <1>2 DEF Scan
  <2>4. artifact = "none"
    BY <2>3 DEF VerdictInv
  <2>5. QED
    BY <1>a, <2>2, <2>3, <2>4 DEF VerdictInv, Phases, FailuresShow, HealthyIsEarned
<1>3. CASE LeaveToOwner
  <2>1. PICK how \in {"delegated", "unreachable"} : Emit(Blank, how)
    BY <1>3 DEF LeaveToOwner
  <2>2. Blank \in Report /\ Sums(Blank) /\ ~Blank.checked
    BY BlankSound DEF Unsaved
  <2>3. how \in Exits /\ how # "raised" /\ how # "ok"
    BY DEF Exits
  <2>4. QED
    BY <1>b, <2>1, <2>2, <2>3
<1>4. CASE Raise
  <2>1. PICK r \in {Blank, Totals, report} :
          Emit([r EXCEPT !.saved = FALSE], "raised") /\ phase \in {"started", "scanned"}
    BY <1>4 DEF Raise
  <2>2. r \in Report /\ Sums(r) /\ ~r.checked
    <3>1. ~report.checked
      BY <2>1 DEF VerdictInv
    <3>2. QED
      BY <1>a, <3>1, BlankSound DEF Unsaved
  <2> DEFINE s == [r EXCEPT !.saved = FALSE]
  <2>3. s \in Report /\ Sums(s)
    BY <2>2, Flagged
  <2>4. s.checked = r.checked /\ s.saved = FALSE
    BY <2>2 DEF Report
  <2> HIDE DEF s
  <2>5. Emit(s, "raised")
    BY <2>1 DEF s
  <2>6. QED
    BY <1>b, <2>2, <2>3, <2>4, <2>5 DEF Exits
<1>5. CASE Finish
  <2>1. PICK troubled \in BOOLEAN :
          Emit([report EXCEPT !.saved = TRUE, !.troubled = troubled], "ok") /\ phase = "scanned"
    BY <1>5 DEF Finish
  <2> DEFINE s == [report EXCEPT !.saved = TRUE, !.troubled = troubled]
  <2>2. s \in Report /\ Sums(s) /\ SameCounts(s, report)
    BY <1>a, Flagged
  <2>3. s.checked = report.checked /\ s.saved = TRUE
    BY <1>a DEF Report
  <2>4. Noticed(report) /\ ~report.checked
    BY <2>1 DEF VerdictInv
  <2> HIDE DEF s
  <2>5. Noticed(s)
    BY <2>2, <2>4, SameNoticed
  <2>6. Emit(s, "ok")
    BY <2>1 DEF s
  <2>7. QED
    BY <1>b, <2>2, <2>3, <2>4, <2>5, <2>6 DEF Exits
<1>6. CASE Attest
  <2>1. PICK sound \in BOOLEAN :
          LET r == [report EXCEPT !.checked = TRUE, !.sound = sound] IN
          report' = r /\ artifact' = classify_outcome(r)
    BY <1>6 DEF Attest
  <2>2. phase = "ran" /\ phase' = "closed" /\ exit' = exit
    BY <1>6 DEF Attest
  <2> DEFINE s == [report EXCEPT !.checked = TRUE, !.sound = sound]
  <2>3. s \in Report /\ Sums(s) /\ SameCounts(s, report)
    BY <1>a, Flagged
  <2>4. s.saved = report.saved
    BY <1>a DEF Report
  <2>5. (exit = "raised" => ~report.saved) /\ (exit = "ok" => Noticed(report))
    BY <2>2 DEF VerdictInv
  <2>6. report' = s /\ artifact' = classify_outcome(s)
    BY <2>1
  <2> HIDE DEF s
  <2>7. (exit = "raised" => ~s.saved) /\ (exit = "ok" => Noticed(s))
    BY <2>3, <2>4, <2>5, SameNoticed
  <2> DEFINE c == artifact'
  <2>8. /\ c \in Status \ {"none"}
        /\ s.checked /\ ~s.sound => c \in FailedStatus
        /\ ~s.saved /\ s.attempted > 0 => c \in {"failed_sources", "failed_state"}
        /\ s.active > 0 /\ s.failed = s.active => c = "failed_sources"
        /\ Noticed(s) /\ Degraded = Active /\ c = "healthy" => s.whole \/ s.notDue
    BY <2>3, <2>6, VerdictShows
  <2>9. FailuresShow' /\ HealthyIsEarned'
    BY <2>2, <2>6, <2>7, <2>8 DEF FailuresShow, HealthyIsEarned
  <2>10. QED
    BY <1>a, <2>2, <2>3, <2>6, <2>8, <2>9 DEF VerdictInv, Phases
<1>7. CASE NothingToAttest
  <2>1. /\ phase = "ran" /\ phase' = "closed" /\ report' = report /\ artifact' = artifact
        /\ exit' = exit
    BY <1>7 DEF NothingToAttest
  <2>2. /\ artifact = classify_outcome_hardened(report) /\ ~report.checked
        /\ exit = "raised" => ~report.saved
        /\ exit = "ok" => Noticed(report)
    BY <2>1 DEF VerdictInv
  <2>3. /\ ~report.saved /\ report.attempted > 0 => artifact \in {"failed_sources", "failed_state"}
        /\ report.active > 0 /\ report.failed = report.active => artifact = "failed_sources"
        /\ Noticed(report) /\ Degraded = Active /\ artifact = "healthy" => report.whole \/ report.notDue
    BY <1>a, <2>2, VerdictShows
  <2>4. FailuresShow' /\ HealthyIsEarned'
    BY <2>1, <2>2, <2>3 DEF FailuresShow, HealthyIsEarned
  <2>5. QED
    BY <1>a, <2>1, <2>4 DEF VerdictInv, Phases
<1>8. CASE Killed
  <2>1. /\ phase \in {"started", "scanned"} /\ phase' = "closed" /\ exit' = "killed"
        /\ report' = report /\ artifact' = artifact
    BY <1>8 DEF Killed
  <2>2. artifact = "none" /\ ~report.checked
    BY <2>1 DEF VerdictInv
  <2>3. FailuresShow' /\ HealthyIsEarned'
    BY <2>1, <2>2 DEF FailuresShow, HealthyIsEarned
  <2>4. QED
    BY <1>a, <2>1, <2>3 DEF VerdictInv, Phases, Exits
<1>9. QED
  BY <1>1, <1>2, <1>3, <1>4, <1>5, <1>6, <1>7, <1>8 DEF RunStep

----------------------------------------------------------------------------
(* The runs and the watchdog (DailyWatchdog).                              *)

Ends == [kind : Starter, ok : BOOLEAN, decision : {"unknown", "dispatch", "skip"},
         covered : BOOLEAN]
Watches == [step : {"idle", "heartbeat", "start", "sleep", "dispatch"}, left : 0 .. Interval,
            source : SUBSET Ends]

DogShape ==
  /\ job \in Starter \cup {"none"} /\ waiting \in Starter \cup {"none"}
  /\ latest \in [kind : Starter \cup {"none"}, ok : BOOLEAN] /\ age \in 0 .. Interval
  /\ ended \subseteq Ends /\ watch \in Watches
  /\ failures \in [late : 0 .. MaxChain, early : BOOLEAN]
  /\ ready \in BOOLEAN /\ came \in BOOLEAN

(* A run goes on only in a job that is set up, and one waits only behind a *)
(* job.  What waits there came after the last tick's ends were delivered.  *)
Queueing ==
  /\ waiting # "none" => job # "none"
  /\ ready => job # "none"
  /\ phase # "none" => ready
  /\ (ready /\ waiting = "none") => ended = {}

(* Between the look at the runs and the dispatch a cron run may have come, *)
(* once and without its machine.                                           *)
Looked ==
  watch.step = "dispatch" =>
    /\ waiting = "none" /\ job # "recovery" /\ ~ready
    /\ job = "cron" => came

(* After a recovery that failed late, only an end that was known before it *)
(* began can start another one, and after the second none is left.         *)
Chain ==
  /\ failures.late > 0 =>
       /\ RecoveryFailed
       /\ "cron" \in {job, waiting} \/ ended = {}
       /\ job = "recovery" => waiting = "cron" \/ watch.source = {}
  /\ failures.late = 2 =>
       /\ watch.step # "dispatch"
       /\ "cron" \in {job, waiting} \/ watch.source = {}
  /\ RecoveryIsBounded

DogInv == VerdictInv /\ DogShape /\ Queueing /\ Looked /\ Chain

LEMMA CoversSound ==
  ASSUME NEW e \in Ends, NEW ok \in BOOLEAN
  PROVE  Covers(e, ok) \in Ends
<1> DEFINE b == e.covered \/ ok
<1>1. b \in BOOLEAN
  BY DEF Ends
<1>2. Covers(e, ok) = [e EXCEPT !.covered = b]
  BY Zenon DEF Covers
<1> HIDE DEF b
<1>3. QED
  BY <1>1, <1>2 DEF Ends

LEMMA EndedSound ==
  ASSUME NEW kind \in Starter, NEW ok \in BOOLEAN, NEW status
  PROVE  Ended(kind, ok, status) \in Ends
<1>1. Decision(status) \in {"unknown", "dispatch", "skip"}
  BY DEF Decision
<1>2. QED
  BY <1>1 DEF Ended, Ends

LEMMA InitDog == DogInit => DogInv
<1> SUFFICES ASSUME DogInit PROVE DogInv
  OBVIOUS
<1>1. VerdictInv
  BY BlankSound DEF DogInit, OutcomeInit, VerdictInv, Unsaved, Status, Phases, Exits,
     FailuresShow, HealthyIsEarned
<1>2. Interval \in Nat /\ Interval > 1
  BY WatchdogAssumption DEF WatchdogAssumption
<1>3. watch \in Watches /\ watch.step = "idle"
  BY <1>2 DEF DogInit, Watches, NoWatch
<1>4. failures \in [late : 0 .. MaxChain, early : BOOLEAN] /\ failures.late = 0
  BY DEF DogInit, NoFailures, MaxChain
<1>5. latest \in [kind : Starter \cup {"none"}, ok : BOOLEAN]
  BY DEF DogInit
<1>6. age \in 0 .. Interval
  BY <1>2 DEF DogInit
<1>12. ready \in BOOLEAN /\ came \in BOOLEAN
  BY DEF DogInit
<1>7. job = "none" /\ waiting = "none" /\ ended = {} /\ ~ready /\ phase = "none"
  BY DEF DogInit, OutcomeInit
<1>8. DogShape
  BY <1>3, <1>4, <1>5, <1>6, <1>12, <1>7 DEF DogShape
<1>9. Queueing /\ Looked
  BY <1>3, <1>7 DEF Queueing, Looked
<1>10. Chain
  BY <1>4, <1>7 DEF Chain, RecoveryIsBounded, MaxChain
<1>11. QED
  BY <1>1, <1>8, <1>9, <1>10 DEF DogInv

(* Nothing of the runs changes but the watch, which goes on with a source  *)
(* it had or with none.                                                    *)
LEMMA WatchMoves ==
  ASSUME DogInv, Elsewhere, watch' \in Watches, watch'.source \subseteq watch.source,
         watch'.step = "dispatch" =>
           \/ watch.step = "dispatch"
           \/ job = "none" /\ waiting = "none" /\ ~(failures.late = 2)
  PROVE  DogInv'
<1>1. VerdictInv'
  BY DEF DogInv, Elsewhere, outcomeVars, VerdictInv, FailuresShow, HealthyIsEarned
<1>2. /\ UNCHANGED <<job, ready, came, waiting, latest, age, ended, failures, phase>>
  BY DEF Elsewhere, outcomeVars
<1>3. DogShape'
  BY <1>2 DEF DogInv, DogShape
<1>4. Queueing'
  BY <1>2 DEF DogInv, Queueing
<1>5. Looked'
  BY <1>2 DEF DogInv, Looked, Queueing
<1>6. Chain'
  BY <1>2 DEF DogInv, Chain, RecoveryIsBounded, RecoveryFailed
<1>7. QED
  BY <1>1, <1>3, <1>4, <1>5, <1>6 DEF DogInv

LEMMA NextDog == DogInv /\ [DogNext]_dogVars => DogInv'
<1> SUFFICES ASSUME DogInv, [DogNext]_dogVars PROVE DogInv'
  OBVIOUS
<1>a. /\ VerdictInv /\ DogShape /\ Queueing /\ Looked /\ Chain
      /\ watch \in Watches /\ watch.source \subseteq Ends /\ ended \subseteq Ends
      /\ Interval \in Nat /\ Interval > 1
  BY WatchdogAssumption DEF WatchdogAssumption, DogInv, DogShape, Watches
<1>b. UNCHANGED outcomeVars => VerdictInv' /\ phase' = phase
  BY <1>a DEF outcomeVars, VerdictInv, FailuresShow, HealthyIsEarned
<1>c. NoWatch \in Watches /\ NoWatch.source = {} /\ NoWatch.step = "idle"
  BY <1>a DEF NoWatch, Watches
<1>1. CASE CronOrPush
  <2>1. /\ ~came /\ came' /\ came' \in BOOLEAN /\ Arrive("cron")
        /\ UNCHANGED <<outcomeVars, ready, latest, age, watch, failures>>
    BY <1>1 DEF CronOrPush
  <2>2. /\ job' = IF job = "none" THEN "cron" ELSE job
        /\ waiting' = IF job = "none" THEN waiting ELSE "cron"
        /\ ended' = IF waiting = "cron" THEN ended \cup {Ended("cron", FALSE, "none")} ELSE ended
    BY <2>1 DEF Arrive
  <2>3. Ended("cron", FALSE, "none") \in Ends
    BY EndedSound DEF Starter
  <2>4. DogShape'
    BY <1>a, <2>1, <2>2, <2>3 DEF DogShape, Starter
  <2>5. Queueing'
    BY <1>a, <1>b, <2>1, <2>2 DEF Queueing
  <2>6. Looked'
    BY <1>a, <2>1, <2>2 DEF Looked, DogShape, Starter
  <2>7. "cron" \in {job', waiting'}
    BY <2>2
  <2>8. Chain'
    BY <1>a, <2>1, <2>2, <2>7 DEF Chain, RecoveryIsBounded, RecoveryFailed, Queueing
  <2>9. QED
    BY <1>b, <2>1, <2>4, <2>5, <2>6, <2>8 DEF DogInv
<1>2. CASE BeginRun
  <2>1. /\ ready /\ UNCHANGED <<job, ready, came, waiting, latest, age, ended, watch, failures>>
        /\ phase = "none" /\ phase' = "started" /\ report' = Blank /\ artifact' = "none"
        /\ exit' = ""
    BY <1>2 DEF BeginRun, OpenReport
  <2>2. VerdictInv'
    BY <2>1, BlankSound DEF VerdictInv, Unsaved, Status, Phases, Exits,
       FailuresShow, HealthyIsEarned
  <2>3. QED
    BY <1>a, <2>1, <2>2 DEF DogInv, DogShape, Queueing, Looked, Chain, RecoveryIsBounded,
       RecoveryFailed
<1>3. CASE Running
  <2>1. RunStep /\ UNCHANGED <<job, ready, came, waiting, latest, age, ended, watch, failures>>
    BY <1>3 DEF Running
  <2>2. phase # "none"
    BY <2>1 DEF RunStep, PreflightFails, Scan, LeaveToOwner, Raise, Finish, Attest,
       NothingToAttest, Killed, Emit
  <2>3. VerdictInv'
    BY <1>a, <2>1, RunStepVerdict
  <2>4. QED
    BY <1>a, <2>1, <2>2, <2>3 DEF DogInv, DogShape, Queueing, Looked, Chain,
       RecoveryIsBounded, RecoveryFailed
<1>4. CASE CompleteRun
  <2>1. PICK tail \in BOOLEAN :
       LET ok == Succeeded /\ tail
           live == job # "recovery" \/ Monitored
           e == Ended(job, ok, artifact)
           told == job # "recovery" \/ ok
       IN
       /\ ended' = {Covers(f, ok) : f \in ended} \cup (IF told THEN {e} ELSE {})
       /\ watch' = [watch EXCEPT !.source = {Covers(f, ok) : f \in @}]
       /\ IF live THEN latest' = [kind |-> job, ok |-> ok] /\ age' = 0 ELSE UNCHANGED <<latest, age>>
       /\ failures' = IF job # "recovery" \/ ok THEN NoFailures
                      ELSE IF ~live THEN [failures EXCEPT !.early = TRUE]
                      ELSE [failures EXCEPT !.late = IF @ < MaxChain THEN @ + 1 ELSE @]
    BY <1>4 DEF CompleteRun
  <2> DEFINE ok == Succeeded /\ tail
             live == job # "recovery" \/ Monitored
             news == {Covers(f, ok) : f \in watch.source}
             old == {Covers(f, ok) : f \in ended}
  <2>2. /\ phase = "closed" /\ phase' = "none" /\ job' = waiting /\ ready' = FALSE
        /\ waiting' = "none" /\ came' = came
        /\ report' = Blank /\ artifact' = "none" /\ exit' = ""
    BY <1>4 DEF CompleteRun
  <2>3. VerdictInv'
    BY <2>2, BlankSound DEF VerdictInv, Unsaved, Status, Phases, Exits,
       FailuresShow, HealthyIsEarned
  <2>4. job \in Starter /\ ready /\ watch.step # "dispatch"
    BY <1>a, <2>2 DEF Queueing, DogShape, Looked
  <2>5. ok \in BOOLEAN
    OBVIOUS
  <2>6. /\ ended' = old \/ ended' = old \cup {Ended(job, ok, artifact)}
        /\ job = "recovery" /\ ~ok => ended' = old
        /\ watch' = [watch EXCEPT !.source = news]
        /\ IF live THEN latest' = [kind |-> job, ok |-> ok] /\ age' = 0 ELSE UNCHANGED <<latest, age>>
    BY <2>1
  <2>7. /\ job # "recovery" \/ ok => failures' = NoFailures
        /\ job = "recovery" /\ ~ok /\ ~live => failures' = [failures EXCEPT !.early = TRUE]
        /\ job = "recovery" /\ ~ok /\ live =>
             failures' = [failures EXCEPT !.late = IF @ < MaxChain THEN @ + 1 ELSE @]
    BY <2>1
  <2> HIDE DEF ok, live
  <2>8. news \subseteq Ends /\ old \subseteq Ends /\ Ended(job, ok, artifact) \in Ends
    BY <1>a, <2>4, <2>5, CoversSound, EndedSound
  <2>9. (ended = {} => old = {}) /\ (watch.source = {} => news = {})
    OBVIOUS
  <2> HIDE DEF news, old
  <2>10. watch' \in Watches /\ watch'.step = watch.step /\ watch'.source = news
    BY <1>a, <2>6, <2>8 DEF Watches
  <2>11. failures.late \in 0 .. MaxChain
    BY <1>a DEF DogShape
  <2>12. /\ failures' \in [late : 0 .. MaxChain, early : BOOLEAN]
         /\ job # "recovery" \/ ok => failures'.late = 0
         /\ job = "recovery" /\ ~ok /\ ~live => failures'.late = failures.late
         /\ job = "recovery" /\ ~ok /\ live /\ failures.late < 3 => failures'.late = failures.late + 1
    <3>0. failures \in [late : 0 .. MaxChain, early : BOOLEAN]
      BY <1>a DEF DogShape
    <3>1. NoFailures \in [late : 0 .. MaxChain, early : BOOLEAN] /\ NoFailures.late = 0
      BY DEF NoFailures, MaxChain
    <3>2. LET f == [failures EXCEPT !.early = TRUE]
          IN  f \in [late : 0 .. MaxChain, early : BOOLEAN] /\ f.late = failures.late
      BY <3>0
    <3>3. LET f == [failures EXCEPT !.late = IF @ < MaxChain THEN @ + 1 ELSE @]
          IN  /\ f \in [late : 0 .. MaxChain, early : BOOLEAN]
              /\ failures.late < 3 => f.late = failures.late + 1
      <4> DEFINE n == IF failures.late < MaxChain THEN failures.late + 1 ELSE failures.late
      <4>1. n \in 0 .. MaxChain /\ (failures.late < 3 => n = failures.late + 1)
        BY <2>11 DEF MaxChain
      <4> HIDE DEF n
      <4>2. LET f == [failures EXCEPT !.late = n]
            IN  f \in [late : 0 .. MaxChain, early : BOOLEAN] /\ f.late = n
        BY <3>0, <4>1
      <4>3. QED
        BY <4>1, <4>2, Zenon DEF n
    <3>4. QED
      BY <2>7, <3>1, <3>2, <3>3
  <2>13. latest' \in [kind : Starter \cup {"none"}, ok : BOOLEAN] /\ age' \in 0 .. Interval
    BY <1>a, <2>4, <2>5, <2>6 DEF DogShape
  <2>14. DogShape'
    BY <1>a, <2>2, <2>6, <2>8, <2>10, <2>12, <2>13 DEF DogShape
  <2>15. Queueing' /\ Looked'
    BY <2>2, <2>4, <2>10 DEF Queueing, Looked
  <2>16. ASSUME job # "recovery" \/ ok PROVE Chain'
    <3>1. failures'.late = 0
      BY <2>12, <2>16
    <3>2. waiting' = "none"
      BY <2>2
    <3>5. RecoveryIsBounded'
      BY <3>1, <3>2 DEF RecoveryIsBounded, MaxChain
    <3>3. ~(failures'.late > 0) /\ failures'.late # 2
      BY <3>1
    <3>4. QED
      BY <3>5, <3>3 DEF Chain
  <2>17. ASSUME job = "recovery", ~ok PROVE Chain'
    <3>1. failures.late < 2 /\ waiting # "recovery"
      BY <1>a, <2>11, <2>17 DEF Chain, RecoveryIsBounded, MaxChain
    <3>2. ended' = old /\ (waiting = "none" => ended = {})
      BY <1>a, <2>4, <2>6, <2>17 DEF Queueing
    <3>3. waiting \in {"none", "cron"}
      BY <1>a, <3>1 DEF DogShape, Starter
    <3>4. waiting = "cron" \/ ended' = {}
      BY <2>9, <3>2, <3>3
    <3>5. RecoveryFailed' \/ failures'.late = 0
      <4>1. CASE live
        BY <2>6, <2>17, <4>1 DEF RecoveryFailed
      <4>2. CASE ~live
        <5>1. failures'.late = failures.late /\ latest' = latest
          BY <2>6, <2>12, <2>17, <4>2
        <5>2. failures.late = 0 \/ RecoveryFailed
          BY <1>a, <2>11 DEF Chain, MaxChain
        <5>3. QED
          BY <5>1, <5>2 DEF RecoveryFailed
      <4>3. QED
        BY <4>1, <4>2
    <3>6. failures'.late = 2 => waiting = "cron" \/ watch'.source = {}
      <4>1. failures'.late = 2 => failures.late > 0
        BY <2>11, <2>12, <2>17, <3>1 DEF MaxChain
      <4>2. failures.late > 0 => waiting = "cron" \/ watch.source = {}
        BY <1>a, <2>17 DEF Chain
      <4>3. QED
        BY <2>9, <2>10, <4>1, <4>2
    <3>7. failures'.late < 3
      BY <2>11, <2>12, <2>17, <3>1 DEF MaxChain
    <3>8. job' # "recovery" /\ (waiting = "cron" => "cron" \in {job', waiting'})
      BY <2>2, <3>1
    <3>9. QED
      <4>1. failures'.late > 0 => RecoveryFailed'
        BY <3>5
      <4>2. "cron" \in {job', waiting'} \/ ended' = {}
        BY <3>4, <3>8
      <4>3. failures'.late = 2 => "cron" \in {job', waiting'} \/ watch'.source = {}
        BY <3>6, <3>8
      <4>4. watch'.step # "dispatch" /\ job' # "recovery" /\ waiting' # "recovery"
        BY <2>2, <2>4, <2>10, <3>8
      <4>5. RecoveryIsBounded'
        BY <3>7, <4>4 DEF RecoveryIsBounded, MaxChain
      <4>6. QED
        BY <4>1, <4>2, <4>3, <4>4, <4>5 DEF Chain
  <2>18. QED
    <3>1. Chain'
      BY <2>5, <2>16, <2>17
    <3>2. QED
      BY <2>3, <2>14, <2>15, <3>1 DEF DogInv
<1>5. CASE Heartbeat
  <2>1. watch' = [NoWatch EXCEPT !.step = "heartbeat"] /\ Elsewhere
    BY <1>5 DEF Heartbeat, Elsewhere
  <2>2. watch' \in Watches /\ watch'.step = "heartbeat" /\ watch'.source = {}
    BY <1>c, <2>1 DEF Watches
  <2>3. QED
    BY <2>1, <2>2, WatchMoves
<1>6. CASE EndArrives
  <2>1. PICK e \in ended :
       /\ ended' = ended \ {e}
       /\ watch' = [step |-> "start", left |-> 0, source |-> {e}]
    BY <1>6 DEF EndArrives
  <2>2. UNCHANGED <<outcomeVars, job, ready, came, waiting, latest, age, failures>>
    BY <1>6 DEF EndArrives
  <2>3. watch' \in Watches /\ watch'.step = "start"
    BY <1>a, <2>1 DEF Watches
  <2>4. DogShape'
    BY <1>a, <2>1, <2>2, <2>3 DEF DogShape
  <2>5. Queueing' /\ Looked'
    BY <1>a, <1>b, <2>1, <2>2, <2>3 DEF Queueing, Looked
  <2>6. failures.late > 0 => "cron" \in {job, waiting}
    BY <1>a, <2>1 DEF Chain
  <2>7. failures.late > 0 /\ job = "recovery" => waiting = "cron"
    BY <2>6
  <2>8. failures.late = 2 => failures.late > 0
    OBVIOUS
  <2>9. Chain'
    BY <1>a, <2>2, <2>3, <2>6, <2>7, <2>8 DEF Chain, RecoveryIsBounded, RecoveryFailed
  <2>10. QED
    BY <1>b, <2>2, <2>4, <2>5, <2>9 DEF DogInv
<1>d. ASSUME NEW step \in {"sleep", "dispatch"}, NEW left \in 0 .. Interval, Set(step, left)
      PROVE  watch' \in Watches /\ watch'.source = watch.source /\ watch'.step = step
  BY <1>a, <1>d DEF Set, Watches
<1>e. Stop /\ Elsewhere => DogInv'
  BY <1>c, WatchMoves DEF Stop
<1>7. CASE run_periodic_watchdog
  <2>1. CASE Stop
    BY <1>7, <1>e, <2>1 DEF run_periodic_watchdog
  <2>2. CASE ~Stop
    <3>1. Set("dispatch", 0) /\ job = "none" /\ waiting = "none" /\ Stale /\ Elsewhere
      BY <1>7, <2>2 DEF run_periodic_watchdog
    <3>2. ~(failures.late = 2)
      BY <1>a, <3>1 DEF Chain, Stale
    <3>3. 0 \in 0 .. Interval
      BY <1>a
    <3>4. watch' \in Watches /\ watch'.source = watch.source
      BY <1>d, <3>1, <3>3
    <3>5. QED
      BY <3>1, <3>2, <3>4, WatchMoves
  <2>3. QED
    BY <2>1, <2>2
<1>8. CASE run_watchdog
  <2>1. Elsewhere /\ (Stop \/ \E left \in {1, Interval} : Set("sleep", left))
    BY <1>8 DEF run_watchdog
  <2>2. ASSUME NEW left \in {1, Interval}, Set("sleep", left) PROVE DogInv'
    <3>1. left \in 0 .. Interval
      BY <1>a
    <3>2. watch' \in Watches /\ watch'.source = watch.source /\ watch'.step = "sleep"
      BY <1>d, <2>2, <3>1
    <3>3. QED
      BY <2>1, <3>2, WatchMoves
  <2>3. QED
    BY <1>e, <2>1, <2>2
<1>9. CASE Wake
  <2>1. CASE Stop
    BY <1>9, <1>e, <2>1 DEF Wake
  <2>2. CASE ~Stop
    <3>1. /\ Set("dispatch", 0) /\ job = "none" /\ waiting = "none" /\ Elsewhere
          /\ watch.source # {}
      BY <1>9, <2>2 DEF Wake
    <3>2. ~(failures.late = 2)
      BY <1>a, <3>1 DEF Chain
    <3>3. 0 \in 0 .. Interval
      BY <1>a
    <3>4. watch' \in Watches /\ watch'.source = watch.source
      BY <1>d, <3>1, <3>3
    <3>5. QED
      BY <3>1, <3>2, <3>4, WatchMoves
  <2>3. QED
    BY <2>1, <2>2
<1>10. CASE LookupFails
  BY <1>10, <1>e DEF LookupFails
<1>11. CASE dispatch_live
  <2>1. /\ watch.step = "dispatch" /\ watch' = NoWatch /\ Arrive("recovery")
        /\ UNCHANGED <<outcomeVars, ready, came, latest, age, failures>>
    BY <1>11 DEF dispatch_live, Stop
  <2>2. waiting = "none" /\ job # "recovery" /\ ~ready
    BY <1>a, <2>1 DEF Looked
  <2>3. /\ job' = IF job = "none" THEN "recovery" ELSE job
        /\ waiting' = IF job = "none" THEN waiting ELSE "recovery"
        /\ ended' = ended
    BY <2>1, <2>2 DEF Arrive
  <2>4. DogShape'
    BY <1>a, <1>c, <2>1, <2>3 DEF DogShape, Starter
  <2>5. Queueing' /\ Looked'
    BY <1>a, <1>b, <1>c, <2>1, <2>2, <2>3 DEF Queueing, Looked
  <2>6. failures.late # 2
    BY <1>a, <2>1 DEF Chain
  <2>7. job \in {"none", "cron"}
    BY <1>a, <2>2 DEF DogShape, Starter
  <2>8. Chain'
    BY <1>a, <1>c, <2>1, <2>2, <2>3, <2>6, <2>7 DEF Chain, RecoveryIsBounded, RecoveryFailed
  <2>9. QED
    BY <1>b, <2>1, <2>4, <2>5, <2>8 DEF DogInv
<1>12. CASE Tick
  <2>1. /\ watch.step = "idle" \/ watch.step = "sleep"
        /\ ended = {} /\ came' = FALSE /\ ready' = (job # "none")
        /\ age' = IF age < Interval THEN age + 1 ELSE age
        /\ watch' = [watch EXCEPT !.left = IF @ > 0 THEN @ - 1 ELSE 0]
        /\ UNCHANGED <<outcomeVars, job, waiting, latest, ended, failures>>
    BY <1>12 DEF Tick
  <2>2. watch.left \in 0 .. Interval
    BY <1>a DEF Watches
  <2>3. watch' \in Watches /\ watch'.step = watch.step /\ watch'.source = watch.source
    BY <1>a, <2>1, <2>2 DEF Watches
  <2>4. age' \in 0 .. Interval
    BY <1>a, <2>1 DEF DogShape
  <2>5. ready' \in BOOLEAN /\ came' \in BOOLEAN /\ (ready' <=> job # "none")
    BY <2>1
  <2>6. DogShape'
    BY <1>a, <2>1, <2>3, <2>4, <2>5 DEF DogShape
  <2>7. Queueing' /\ Looked'
    BY <1>a, <1>b, <2>1, <2>3, <2>5 DEF Queueing, Looked
  <2>8. Chain'
    BY <1>a, <2>1, <2>3 DEF Chain, RecoveryIsBounded, RecoveryFailed
  <2>9. QED
    BY <1>b, <2>1, <2>6, <2>7, <2>8 DEF DogInv
<1>13. CASE UNCHANGED dogVars
  <2>1. Elsewhere /\ watch' = watch
    BY <1>13 DEF dogVars, Elsewhere
  <2>2. watch' \in Watches /\ watch'.source \subseteq watch.source /\ watch'.step = watch.step
    BY <1>a, <2>1
  <2>3. watch'.step = "dispatch" => watch.step = "dispatch"
    BY <2>2
  <2>4. Elsewhere
    BY <2>1
  <2>5. QED
    BY <2>2, <2>3, <2>4, WatchMoves
<1>14. QED
  BY <1>1, <1>2, <1>3, <1>4, <1>5, <1>6, <1>7, <1>8, <1>9, <1>10, <1>11, <1>12, <1>13
     DEF DogNext

LEMMA DogInvHolds == DogSpec => []DogInv
BY InitDog, NextDog, PTL DEF DogSpec

LEMMA DogTyped ==
  ASSUME DogInv
  PROVE  DogTypes
<1>1. OutcomeTypes
  <2>1. report.active \in {0, Active}
    BY DEF DogInv, VerdictInv, Report
  <2>2. QED
    BY <2>1 DEF DogInv, VerdictInv, Sums, OutcomeTypes, Phases, Exits
<1>2. /\ watch.step \in {"idle", "heartbeat", "start", "sleep", "dispatch"}
      /\ watch.left \in 0 .. Interval
  BY DEF DogInv, DogShape, Watches
<1>3. failures.late \in 0 .. MaxChain
  BY DEF DogInv, DogShape
<1>4. failures.early \in BOOLEAN
  BY Zenon DEF DogInv, DogShape
<1>5. latest.kind \in Starter \cup {"none"}
  BY DEF DogInv, DogShape
<1>6. QED
  BY <1>1, <1>2, <1>3, <1>4, <1>5 DEF DogInv, DogShape, DogTypes

(* Every variable of the runs, of the watchdog and of the verdict keeps to *)
(* its type; the counters of a report always add up.                       *)
THEOREM DogTypesHold == DogSpec => []DogTypes
BY DogTyped, DogInvHolds, PTL

(* A database that failed its check, a state not saved after a collection  *)
(* and the failure of every source are published as failures, however the  *)
(* run ended.                                                              *)
THEOREM FailuresArePublished == DogSpec => []FailuresShow
<1>1. DogInv => FailuresShow
  BY DEF DogInv, VerdictInv
<1>2. QED
  BY <1>1, DogInvHolds, PTL

(* And a run that came to its end is published as healthy only if every    *)
(* source is complete or no scan was due, provided that a degraded pass    *)
(* reads all the sources, as it does with the batch of 64 the code has by  *)
(* default and the 24 sources of config/sources.json.  With a smaller      *)
(* batch the classification of the attestation, which does not see the     *)
(* sources left out, calls a pass healthy whose whole batch failed.        *)
THEOREM VerdictFailsClosed ==
  ASSUME Degraded = Active
  PROVE  DogSpec => []FailsClosed
<1>1. DogInv => FailsClosed
  BY DEF DogInv, VerdictInv, FailuresShow, HealthyIsEarned, FailsClosed, FailedStatus
<1>2. QED
  BY <1>1, DogInvHolds, PTL

(* However the ends of runs, heartbeats, cancelled watchdogs and cron runs *)
(* interleave, there are never two recovery runs, and behind one that      *)
(* failed late the watchdog starts one more at most.                       *)
THEOREM RecoveryStaysBounded == DogSpec => []RecoveryIsBounded
<1>1. DogInv => RecoveryIsBounded
  BY DEF DogInv, Chain
<1>2. QED
  BY <1>1, DogInvHolds, PTL

----------------------------------------------------------------------------
(* Both, as the program runs them.                                         *)

LEMMA EachAsAlone ==
  OperationsSpec => Init /\ [][Next]_vars /\ DogInit /\ [][DogNext]_dogVars
<1>1. OperationsInit => Init /\ DogInit
  BY DEF OperationsInit
<1>2. [OperationsNext]_operations => [Next]_vars /\ [DogNext]_dogVars
  BY DEF OperationsNext, Alone, operations
<1>3. QED
  BY <1>1, <1>2, PTL DEF OperationsSpec

(* Every variable of the command loop, of the watchdog and of the verdict  *)
(* has its type when they run beside each other.                           *)
THEOREM OperationsTypesHold == OperationsSpec => []OperationsTypes
<1>1. TypeOK /\ DogTypes => OperationsTypes
  BY DEF OperationsTypes
<1>2. OperationsSpec => []TypeOK
  BY EachAsAlone, PollingTypes, PTL DEF Spec
<1>3. OperationsSpec => []DogInv
  BY EachAsAlone, InitDog, NextDog, PTL
<1>4. QED
  BY <1>1, <1>2, <1>3, DogTyped, PTL
=============================================================================
