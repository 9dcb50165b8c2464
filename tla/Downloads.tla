------------------------------ MODULE Downloads ------------------------------
(* The downloads of one (media, room, user): download_open calls that overlap, *)
(* the downloads rows they find or create, the claim on a row in the transfer  *)
(* registry, the transfer task each call may spawn, the user's pause and       *)
(* resume, a leave of the room (cancel_all), an import of the same content,    *)
(* and a crash of the app.                                                     *)
(*                                                                             *)
(* A row is named by the call that created it: every call mints a fresh id.    *)
(* What a transfer does chunk by chunk is module MultiSource; here it is one   *)
(* stage that ends well, ends in an error, or is cancelled. The media item has *)
(* at least one byte.                                                          *)
EXTENDS Integers, Sequences, FiniteSets

CONSTANTS Opens,        \* the download_open calls
          MaxTrouble    \* pauses, resumes, leaves, panics and crashes in all

ASSUME DownloadsAssumption ==
    /\ IsFiniteSet(Opens)
    /\ MaxTrouble \in Nat

Nobody == "nobody"
Nothing == <<>>

VARIABLES
    row,        \* downloads.state, "absent" before the INSERT
    born,       \* ids in the order of started_at
    local,      \* the content is in the library
    scratch,    \* ids with a tmp/incomplete/<id> directory
    task,       \* a call, then the task it spawned: where it stands and its
                \* locals (see Task)
    claim,      \* TransferRegistry: the call whose guard owns the entry of a row
    adopted,    \* entries that hold a run's token
    cancelled,  \* tokens cancelled
    leaving,    \* tokens a cancel_all has collected and not cancelled yet
    user,       \* a pause or resume between its fetch and its UPDATE
    troubles

db == <<row, born>>
disk == <<local, scratch>>
registry == <<claim, adopted, cancelled>>
outside == <<leaving, user, troubles>>
vars == <<row, born, local, scratch, task, claim, adopted, cancelled,
          leaving, user, troubles>>

Active == {"pending", "connecting", "transferring", "verifying", "paused"}
Terminal == {"complete", "failed", "cancelled"}
Held == {"setup", "start", "move", "chunks", "assemble", "record", "over",
         "panic"}
Run == Held \ {"setup"}
Tokens == Opens \X {"claim", "run"}

\* Where a call of download_open, and then its task, may stand.
Places == Held \cup {"idle", "find", "insert", "race", "mark", "claim", "done"}

(* hit: the dedup check found the content; mine: the row the call works on;   *)
(* goal: the state its transition() is on the way to; checked: fetch_state    *)
(* has passed is_valid_transition and the UPDATE is next.                     *)
Task == [pc: Held \cup {"idle", "find", "insert", "race", "mark", "claim", "done"},
         hit: BOOLEAN, mine: Opens, goal: Active \cup Terminal,
         checked: BOOLEAN]
NewTask(o) == [pc |-> "idle", hit |-> FALSE, mine |-> o, goal |-> "connecting",
               checked |-> FALSE]

TypeOK ==
    /\ row \in [Opens -> Active \cup Terminal \cup {"absent"}]
    /\ born \in Seq(Opens)
    /\ local \in BOOLEAN /\ scratch \subseteq Opens
    /\ task \in [Opens -> Task]
    /\ claim \in [Opens -> Opens \cup {Nobody}]
    /\ adopted \subseteq Opens
    /\ cancelled \subseteq Tokens /\ leaving \subseteq Tokens
    /\ user \in (Opens \X {"paused", "transferring"}) \cup {Nothing}
    /\ troubles \in 0..MaxTrouble

Init ==
    /\ row = [o \in Opens |-> "absent"] /\ born = <<>>
    /\ local = FALSE /\ scratch = {}
    /\ task = [o \in Opens |-> NewTask(o)]
    /\ claim = [o \in Opens |-> Nobody] /\ adopted = {} /\ cancelled = {}
    /\ leaving = {} /\ user = Nothing
    /\ troubles = 0

Trouble == troubles < MaxTrouble /\ troubles' = troubles + 1
Goto(o, next) == task' = [task EXCEPT ![o].pc = next]
Done(o) == task' = [task EXCEPT ![o] = [NewTask(o) EXCEPT !.pc = "done"]]
At(o, where) == task[o].pc = where
MyRow(o) == task[o].mine
ActiveRows == {d \in Opens: row[d] \in Active}

(* Mutant: the guard removes only an entry that holds a run's token.          *)
DropGuardAdopted(o) ==
    /\ claim' = [d \in Opens |-> IF claim[d] = o /\ d \in adopted THEN Nobody
                                 ELSE claim[d]]
    /\ adopted' = {d \in adopted: claim[d] # o}
    /\ UNCHANGED cancelled

(* The guard drops: the entry goes if it is still the guard's own.            *)
DropGuard(o) ==
    /\ claim' = [d \in Opens |-> IF claim[d] = o THEN Nobody ELSE claim[d]]
    /\ adopted' = {d \in adopted: claim[d] # o}
    /\ UNCHANGED cancelled

-----------------------------------------------------------------------------
(* download_open up to the row.                                               *)

(* Not in a room, no verified manifest, a malformed digest, over the quota.   *)
Refused(o) ==
    /\ At(o, "idle") /\ Done(o)
    /\ UNCHANGED <<db, disk, registry, outside>>

(* The dedup check, before any transfer machinery.                            *)
Dedup(o) ==
    /\ At(o, "idle")
    /\ task' = [task EXCEPT ![o].pc = "find", ![o].hit = local]
    /\ UNCHANGED <<db, disk, registry, outside>>

WithRow(o, d) ==
    task' = [task EXCEPT ![o].mine = d,
                         ![o].pc = IF task[o].hit THEN "mark" ELSE "claim"]

(* ORDER BY started_at DESC LIMIT 1.                                          *)
IsLatest(d, rows) ==
    \E i \in 1..Len(born):
        /\ born[i] = d /\ d \in rows
        /\ \A j \in (i + 1)..Len(born): born[j] \notin rows

Reusable(o) ==
    {d \in Opens: row[d] \in Active \/ (task[o].hit /\ row[d] = "complete")}

FindRow(o) ==
    /\ At(o, "find")
    /\ \/ Reusable(o) = {} /\ Goto(o, "insert")
       \/ \E d \in Reusable(o): IsLatest(d, Reusable(o)) /\ WithRow(o, d)
    /\ UNCHANGED <<db, disk, registry, outside>>

(* DownloadStore::create. The partial UNIQUE index allows one active row.     *)
CreateRow(o) ==
    /\ At(o, "insert")
    /\ IF ActiveRows # {}
       THEN Goto(o, "race") /\ UNCHANGED db
       ELSE /\ row' = [row EXCEPT ![o] = "pending"]
            /\ born' = Append(born, o)
            /\ WithRow(o, o)
    /\ UNCHANGED <<disk, registry, outside>>

(* The winner of the race may have ended its row since.                       *)
RaceRow(o) ==
    /\ At(o, "race")
    /\ \/ ActiveRows = {} /\ Done(o)
       \/ \E d \in ActiveRows: WithRow(o, d)
    /\ UNCHANGED <<db, disk, registry, outside>>

(* DownloadStore::mark_complete, one transaction: a paused or terminal row    *)
(* stays as it is.                                                            *)
MarkComplete(o) ==
    /\ At(o, "mark")
    /\ row' = IF row[MyRow(o)] \in Active \ {"paused"}
              THEN [row EXCEPT ![MyRow(o)] = "complete"] ELSE row
    /\ Done(o)
    /\ UNCHANGED <<born, disk, registry, outside>>

-----------------------------------------------------------------------------
(* The claim, the setup and the hand-over to the task.                        *)

(* A call that finds the row claimed answers with its state and is done.      *)
TryRegister(o) ==
    /\ At(o, "claim")
    /\ IF claim[MyRow(o)] = Nobody
       THEN claim' = [claim EXCEPT ![MyRow(o)] = o] /\ Goto(o, "setup")
       ELSE UNCHANGED claim /\ Done(o)
    /\ UNCHANGED <<db, disk, adopted, cancelled, outside>>

(* No source has an open channel, or a setup step fails.                      *)
SetupEnds(o) ==
    /\ At(o, "setup") /\ Done(o) /\ DropGuard(o)
    /\ UNCHANGED <<db, disk, outside>>

AdoptToken(o) ==
    /\ At(o, "setup")
    /\ IF claim[MyRow(o)] = o /\ <<o, "claim">> \notin cancelled
       THEN /\ adopted' = adopted \cup {MyRow(o)}
            /\ Goto(o, "start")
            /\ UNCHANGED <<claim, cancelled>>
       ELSE DropGuard(o) /\ Done(o)
    /\ UNCHANGED <<db, disk, outside>>

-----------------------------------------------------------------------------
(* The transfer task. transition() reads the state and, in a second query,    *)
(* writes it; an UPDATE to an active state fails on the UNIQUE index when     *)
(* another row is active.                                                     *)
ValidTransition(from, to) ==
    \/ from = to
    \/ <<from, to>> \in {<<"pending", "connecting">>, <<"pending", "transferring">>,
                         <<"pending", "verifying">>,
                         <<"connecting", "transferring">>,
                         <<"transferring", "verifying">>,
                         <<"verifying", "complete">>, <<"paused", "transferring">>}
    \/ from \in Active \ {"paused"} /\ to \in {"failed", "paused", "cancelled"}

CanWrite(d, to) == to \in Terminal \/ ActiveRows \subseteq {d}

Move(o, to) == task' = [task EXCEPT ![o].pc = "move", ![o].goal = to]

(* An error of the run itself: record_terminal_state_after_error comes next,  *)
(* and an error while recording is dropped.                                   *)
AfterError(o) ==
    IF task[o].goal \in {"failed", "cancelled"} THEN "over" ELSE "record"

StartRun(o) ==
    /\ At(o, "start")
    /\ IF row[MyRow(o)] \in {"transferring", "verifying"}
       THEN Goto(o, "chunks") ELSE Move(o, "connecting")
    /\ UNCHANGED <<db, disk, registry, outside>>

(* fetch_state and is_valid_transition; after a panic an error is logged.     *)
ReadState(o) ==
    /\ At(o, "move") \/ At(o, "panic")
    /\ ~task[o].checked
    /\ IF ValidTransition(row[MyRow(o)], task[o].goal)
       THEN task' = [task EXCEPT ![o].checked = TRUE] /\ UNCHANGED registry
       ELSE \/ At(o, "panic") /\ Done(o) /\ DropGuard(o)
            \/ At(o, "move") /\ Goto(o, AfterError(o)) /\ UNCHANGED registry
    /\ UNCHANGED <<db, disk, outside>>

(* connecting is followed by transferring.                                    *)
Arrive(o) ==
    LET to == task[o].goal
        next == CASE to = "connecting"   -> "move"
                  [] to = "transferring" -> "chunks"
                  [] to = "verifying"    -> "assemble"
                  [] to \in Terminal     -> "over"
    IN  task' = [task EXCEPT ![o].checked = FALSE, ![o].pc = next,
                             ![o].goal = IF to = "connecting"
                                         THEN "transferring" ELSE to]

WriteState(o) ==
    /\ At(o, "move") \/ At(o, "panic")
    /\ task[o].checked
    /\ LET ok == CanWrite(MyRow(o), task[o].goal)
       IN  /\ row' = IF ok THEN [row EXCEPT ![MyRow(o)] = task[o].goal] ELSE row
           /\ \/ At(o, "panic") /\ Done(o) /\ DropGuard(o)
              \/ At(o, "move") /\ ok /\ Arrive(o) /\ UNCHANGED registry
              \/ /\ At(o, "move") /\ ~ok
                 /\ task' = [task EXCEPT ![o].checked = FALSE,
                                         ![o].pc = AfterError(o)]
                 /\ UNCHANGED registry
    /\ UNCHANGED <<born, disk, outside>>

(* A chunk file, and with it the scratch directory.                           *)
WriteChunk(o) ==
    /\ At(o, "chunks") /\ MyRow(o) \notin scratch
    /\ scratch' = scratch \cup {MyRow(o)}
    /\ UNCHANGED <<db, local, task, registry, outside>>

AllVerified(o) ==
    /\ At(o, "chunks") /\ MyRow(o) \in scratch /\ Move(o, "verifying")
    /\ UNCHANGED <<db, disk, registry, outside>>

(* Mutant: the row is told before the rename.                                 *)
AssembleTellsFirst(o) ==
    /\ At(o, "assemble")
    /\ scratch' = scratch \ {MyRow(o)}
    /\ Move(o, "complete")
    /\ UNCHANGED <<db, local, registry, outside>>

(* The file is renamed into the library and the scratch files are removed,    *)
(* then the row is told.                                                      *)
Assemble(o) ==
    /\ At(o, "assemble")
    /\ local' = TRUE /\ scratch' = scratch \ {MyRow(o)}
    /\ Move(o, "complete")
    /\ UNCHANGED <<db, registry, outside>>

AssembleFails(o) ==
    /\ At(o, "assemble") /\ Move(o, "failed")
    /\ UNCHANGED <<db, disk, registry, outside>>

(* Every other way out: sources lost, budgets spent, I/O, the cancel token.   *)
RunFails(o) ==
    /\ At(o, "chunks") /\ Goto(o, "record")
    /\ UNCHANGED <<db, disk, registry, outside>>

RecordTerminal(o) ==
    /\ At(o, "record")
    /\ IF row[MyRow(o)] \in Terminal THEN Goto(o, "over")
       ELSE \/ <<o, "run">> \in cancelled /\ Move(o, "cancelled")
            \/ Move(o, "failed")
    /\ UNCHANGED <<db, disk, registry, outside>>

(* The token is cancelled, the scratch of a failed or cancelled row removed,  *)
(* and the task's guard drops.                                                *)
EndRun(o) ==
    /\ At(o, "over") /\ Done(o)
    /\ scratch' = IF row[MyRow(o)] \in {"failed", "cancelled"}
                  THEN scratch \ {MyRow(o)} ELSE scratch
    /\ DropGuard(o)
    /\ UNCHANGED <<db, local, outside>>

(* spawn_panic_safe: a panic anywhere in the task marks the row failed, and   *)
(* the guard drops.                                                           *)
Panic(o) ==
    /\ task[o].pc \in Run \ {"panic"} /\ Trouble
    /\ task' = [task EXCEPT ![o].pc = "panic", ![o].goal = "failed",
                            ![o].checked = FALSE]
    /\ UNCHANGED <<db, disk, registry, leaving, user>>

-----------------------------------------------------------------------------
(* room_leave, room_create and room_join for another room, and the app's      *)
(* close: cancel_all copies the tokens under the lock and cancels them after. *)
TokenOf(d) == <<claim[d], IF d \in adopted THEN "run" ELSE "claim">>
CancelAll ==
    /\ leaving = {} /\ Trouble
    /\ leaving' = {TokenOf(d): d \in {e \in Opens: claim[e] # Nobody}}
    /\ UNCHANGED <<db, disk, task, registry, user>>

CancelToken ==
    \E t \in leaving:
        /\ leaving' = leaving \ {t}
        /\ cancelled' = cancelled \cup {t}
        /\ UNCHANGED <<db, disk, task, claim, adopted, user, troubles>>

(* download_pause and download_resume name a row the webview has listed; they *)
(* start and stop no task.                                                    *)
PauseOrResume(d, to) ==
    /\ user = Nothing /\ Trouble
    /\ row[d] # "absent" /\ ValidTransition(row[d], to)
    /\ user' = <<d, to>>
    /\ UNCHANGED <<db, disk, task, registry, leaving>>

UserWrite ==
    /\ user # Nothing /\ user' = Nothing
    /\ row' = IF CanWrite(user[1], user[2])
              THEN [row EXCEPT ![user[1]] = user[2]] ELSE row
    /\ UNCHANGED <<born, disk, task, registry, leaving, troubles>>

(* The same content is imported from disk.                                    *)
Import ==
    /\ ~local /\ local' = TRUE
    /\ UNCHANGED <<db, scratch, task, registry, outside>>

(* The process dies: rows and files stay, calls, tasks and claims are gone.   *)
Crash ==
    /\ Trouble
    /\ task' = [o \in Opens |-> IF At(o, "idle") THEN task[o]
                                ELSE [NewTask(o) EXCEPT !.pc = "done"]]
    /\ claim' = [o \in Opens |-> Nobody] /\ adopted' = {}
    /\ leaving' = {} /\ user' = Nothing
    /\ UNCHANGED <<db, disk, cancelled>>

-----------------------------------------------------------------------------
OpenStep(o) ==
    \/ Dedup(o) \/ FindRow(o) \/ CreateRow(o) \/ RaceRow(o) \/ MarkComplete(o)
    \/ TryRegister(o) \/ AdoptToken(o)

RunStep(o) ==
    \/ StartRun(o) \/ ReadState(o) \/ WriteState(o) \/ WriteChunk(o)
    \/ AllVerified(o) \/ Assemble(o) \/ RecordTerminal(o) \/ EndRun(o)

Next ==
    \/ \E o \in Opens:
        \/ OpenStep(o) \/ RunStep(o)
        \/ Refused(o) \/ SetupEnds(o) \/ RunFails(o) \/ AssembleFails(o) \/ Panic(o)
    \/ \E d \in Opens, to \in {"paused", "transferring"}: PauseOrResume(d, to)
    \/ CancelAll \/ CancelToken \/ UserWrite \/ Import \/ Crash

(* A spawned task is polled until it ends, and so is a command once begun.    *)
(* That the chunk stage ends is Ends of module MultiSource.                   *)
Fairness ==
    /\ \A o \in Opens: WF_vars(~At(o, "idle") /\ (OpenStep(o) \/ RunStep(o)))
    /\ WF_vars(CancelToken)

Spec == Init /\ [][Next]_vars /\ Fairness

-----------------------------------------------------------------------------

(* A row that says complete has its content in the library, whoever wrote it  *)
(* (the task, or another call's dedup hit) and wherever a crash fell.         *)
CompleteHasFile == \A d \in Opens: row[d] = "complete" => local

(* The entry a call's guard owns in the registry is removed, whether the      *)
(* setup fails, the run ends well, in an error or a panic, is cancelled, or   *)
(* loses its row to another actor: no row stays claimed, and a later call can *)
(* take it up.                                                                *)
Owns(o) == \E d \in Opens: claim[d] = o
ClaimReleased == \A o \in Opens: Owns(o) ~> ~Owns(o)
=============================================================================
