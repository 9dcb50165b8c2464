------------------------------- MODULE Library -------------------------------
(* The local media library: imports, downloads that end in it, the scanner,   *)
(* deletes, the startup purge of scratch files, and a crash of the app. All   *)
(* of them share the media_items table and the content-addressed tree; only   *)
(* imports, the quota gate of a download and the purge take the per-root      *)
(* lock, the scanner, the deletes and the end of a download do not.           *)
(*                                                                            *)
(* A content is its digest. A file is found at <content, name>; what is in it *)
(* is the content the bytes really have. A row is named by the call that      *)
(* inserted it, which also is its provenance. How a download gathers its      *)
(* chunks is module MultiSource, how its row and claim move module Downloads; *)
(* here it is a gate, a transfer and an assembly.                             *)
EXTENDS Integers, FiniteSets

CONSTANTS Contents,     \* digests, naturals in their sort order
          Names,        \* file names, naturals in their sort order
          Asked,        \* <call, path>: the source files and manifest entries
          Size,         \* [Contents -> Nat]
          Cap,          \* library.quota_bytes
          Imports,      \* import_one calls
          Opens,        \* download_open calls
          Scans,        \* library_scan calls
          Deletes,      \* library_delete and delete_files_to_trash calls
          MaxTrouble    \* crashes, changed sources and failed statements in all

ASSUME LibraryAssumption ==
    /\ Contents \subseteq Nat \ {0} /\ IsFiniteSet(Contents)
    /\ Names \subseteq Nat \ {0} /\ IsFiniteSet(Names)
    /\ Asked \subseteq (Imports \cup Opens) \X (Contents \X Names)
    /\ Size \in [Contents -> Nat \ {0}] /\ Cap \in Nat
    /\ IsFiniteSet(Imports \cup Opens \cup Scans \cup Deletes)
    /\ Imports \cap (Opens \cup Scans \cup Deletes) = {}
    /\ Opens \cap (Scans \cup Deletes) = {} /\ Scans \cap Deletes = {}
    /\ {"nobody", "purge"} \cap (Imports \cup Opens \cup Scans \cup Deletes) = {}
    /\ MaxTrouble \in Nat

Calls == Imports \cup Opens \cup Scans \cup Deletes
Paths == Contents \X Names
Nobody == "nobody"
Nothing == 0            \* no file
Torn == -1              \* bytes of a copy that is not finished
Purger == "purge"

VARIABLES
    row,        \* media_items by sha256
    dl,         \* downloads: state and media_id
    library,    \* library/<sha>/<name>: the content of the bytes there
    trash,      \* <call, content> under trash/
    incomplete, \* opens with chunk files under tmp/incomplete
    staging,    \* tmp/staging/<call>/<sha>.partial
    lock,       \* the per-root mutex
    call,       \* where each call stands, and its locals
    purge,      \* the startup purge
    troubles

db == <<row, dl>>
tmp == <<incomplete, staging>>
disk == <<library, trash, tmp>>
vars == <<row, dl, library, trash, incomplete, staging, lock, call, purge,
          troubles>>

NoRow == [id |-> Nobody, status |-> "none", name |-> 0]
Row == [id: Calls, status: {"temporary", "permanent"}, name: Names]
NoDownload == [state |-> "none", media |-> Nobody]
Over == {"done", "refused", "failed", "dead", "deduped", "promoted", "copied"}
Transferring == {"transfer", "assemble", "check", "move", "complete"}
Inside == {"lookup", "present", "promote", "quota", "copy", "verify", "check",
           "move", "insert", "gate"}

Pcs == {"idle", "lock", "dedup", "walk", "hashed", "update", "select", "drop"}
       \cup Inside \cup Transferring \cup Over
Call == [pc: Pcs, what: Contents \cup {0}, name: Names \cup {0},
         held: Calls \cup {Nobody}, moved: BOOLEAN, left: SUBSET Paths]
Fresh == [pc |-> "idle", what |-> 0, name |-> 0, held |-> Nobody,
          moved |-> FALSE, left |-> {}]

TypeOK ==
    /\ row \in [Contents -> Row \cup {NoRow}]
    /\ dl \in [Opens -> [state: {"none", "active", "complete", "failed"},
                         media: Calls \cup {Nobody}]]
    /\ library \in [Paths -> Contents \cup {Nothing}]
    /\ trash \subseteq Deletes \X Contents
    /\ incomplete \subseteq Opens
    /\ staging \in [Imports \cup Opens -> Contents \cup {Nothing, Torn}]
    /\ lock \in Calls \cup {Nobody, Purger}
    /\ call \in [Calls -> Call]
    /\ purge \in [pc: {"waiting", "staging", "incomplete", "done"},
                  left: SUBSET (Imports \cup Opens)]
    /\ troubles \in 0..MaxTrouble

Init ==
    /\ row = [c \in Contents |-> NoRow]
    /\ dl = [w \in Opens |-> NoDownload]
    /\ library = [p \in Paths |-> Nothing] /\ trash = {}
    /\ incomplete = {} /\ staging = [j \in Imports \cup Opens |-> Nothing]
    /\ lock = Nobody
    /\ call = [j \in Calls |-> Fresh]
    /\ purge = [pc |-> "waiting", left |-> {}]
    /\ troubles = 0

Trouble == troubles < MaxTrouble /\ troubles' = troubles + 1
At(j, where) == call[j].pc = where
What(j) == call[j].what
Path(j) == <<call[j].what, call[j].name>>
Goto(j, next) == call' = [call EXCEPT ![j].pc = next]
Ended(j, how) == call' = [call EXCEPT ![j] = [Fresh EXCEPT !.pc = how,
                                                !.what = call[j].what]]
(* Every return path of a call drops its guard.                               *)
EndLocked(j, how) == Ended(j, how) /\ lock' = Nobody

-----------------------------------------------------------------------------
(* The quota engine: every row counts, whatever its status, and so do the     *)
(* scratch files. A sum of sizes is taken by counting the bytes.              *)
Sum(of) == Cardinality(UNION {{x} \X (1..of[x]): x \in DOMAIN of})
RowBytes(rows) == Sum([c \in rows |-> Size[c]])
Staged == {j \in Imports \cup Opens: staging[j] # Nothing}
TmpBytes == Sum([w \in incomplete |-> Size[What(w)]])
            + Sum([j \in Staged |-> Size[What(j)]])
UsedBytes == RowBytes({c \in Contents: row[c] # NoRow}) + TmpBytes
Fits(c) == UsedBytes + Size[c] <= Cap

\* Mutant: the gate of a download does not wait for an import's guard.
TakeLockShared(j) ==
    /\ At(j, "lock") /\ (lock = Nobody \/ j \in Opens)
    /\ lock' = j
    /\ Goto(j, IF j \in Imports THEN "lookup" ELSE "gate")
    /\ UNCHANGED <<db, disk, purge, troubles>>

(* lock_for_library: imports, the gate of a download, the purge.              *)
TakeLock(j) ==
    /\ At(j, "lock") /\ lock = Nobody
    /\ lock' = j
    /\ Goto(j, IF j \in Imports THEN "lookup" ELSE "gate")
    /\ UNCHANGED <<db, disk, purge, troubles>>

-----------------------------------------------------------------------------
(* import_one. The source is checked and the name sanitized before the lock.  *)
ImportCall(i, p) ==
    /\ At(i, "idle") /\ <<i, p>> \in Asked
    /\ call' = [call EXCEPT ![i].pc = "lock", ![i].what = p[1], ![i].name = p[2]]
    /\ UNCHANGED <<db, disk, lock, purge, troubles>>

\* Mutant: any row counts as a dedup hit, a placeholder too.
LookupAny(i) ==
    /\ At(i, "lookup")
    /\ LET r == row[What(i)] IN
         \/ r = NoRow /\ Goto(i, "quota") /\ UNCHANGED lock
         \/ r.status = "permanent" /\ EndLocked(i, "deduped")
         \/ /\ r.status = "temporary" /\ UNCHANGED lock
            /\ call' = [call EXCEPT ![i].pc = "promote", ![i].held = r.id]
    /\ UNCHANGED <<db, disk, purge, troubles>>

(* lookup_by_sha: a permanent row is a hit at once.                           *)
Lookup(i) ==
    /\ At(i, "lookup")
    /\ LET r == row[What(i)] IN
         \/ r = NoRow /\ Goto(i, "quota") /\ UNCHANGED lock
         \/ r.status = "permanent" /\ EndLocked(i, "deduped")
         \/ /\ r.status = "temporary" /\ UNCHANGED lock
            /\ call' = [call EXCEPT ![i].pc = "present", ![i].held = r.id,
                                    ![i].left = {<<What(i), r.name>>}]
    /\ UNCHANGED <<db, disk, purge, troubles>>

(* file_present: a temporary row is a hit only with its file there; else the  *)
(* import will adopt the row.                                                 *)
FilePresent(i) ==
    /\ At(i, "present")
    /\ call' = [call EXCEPT ![i].left = {},
                            ![i].pc = IF \E p \in call[i].left: library[p] = What(i)
                                      THEN "promote" ELSE "quota"]
    /\ UNCHANGED <<db, disk, lock, purge, troubles>>

Permanent(c, id) ==
    row' = [row EXCEPT ![c].status = IF row[c].id = id THEN "permanent" ELSE @]

PromoteToPermanent(i) ==
    /\ At(i, "promote")
    /\ Permanent(What(i), call[i].held)
    /\ EndLocked(i, "promoted")
    /\ UNCHANGED <<dl, disk, purge, troubles>>

(* A row that will be adopted counts already.                                 *)
QuotaCheck(i) ==
    /\ At(i, "quota")
    /\ IF call[i].held = Nobody /\ ~Fits(What(i))
       THEN EndLocked(i, "refused")
       ELSE Goto(i, "copy") /\ UNCHANGED lock
    /\ UNCHANGED <<db, disk, purge, troubles>>

(* stage_source: a second read of the source into the staging file ...        *)
CopySource(i) ==
    /\ At(i, "copy")
    /\ staging' = [staging EXCEPT ![i] = Torn]
    /\ Goto(i, "verify")
    /\ UNCHANGED <<db, library, trash, incomplete, lock, purge, troubles>>

(* ... hashed as it is written; a copy that failed or differs is removed.     *)
VerifyCopy(i) ==
    /\ At(i, "verify")
    /\ \/ /\ staging' = [staging EXCEPT ![i] = What(i)]
          /\ Goto(i, "check") /\ UNCHANGED <<lock, troubles>>
       \/ /\ Trouble
          /\ staging' = [staging EXCEPT ![i] = Nothing]
          /\ EndLocked(i, "failed")
    /\ UNCHANGED <<db, library, trash, incomplete, purge>>

(* complete_download, for an import and for a download: the staged file must  *)
(* be there and the destination free; on an error the file stays staged.      *)
CanComplete(j) == staging[j] # Nothing /\ library[Path(j)] = Nothing

ImportCheck(i) ==
    /\ At(i, "check")
    /\ IF CanComplete(i) THEN Goto(i, "move") /\ UNCHANGED lock
       ELSE EndLocked(i, "failed")
    /\ UNCHANGED <<db, disk, purge, troubles>>

(* rename(2): whatever came to the destination since is replaced.             *)
RenameInto(j) ==
    /\ library' = [library EXCEPT ![Path(j)] = staging[j]]
    /\ staging' = [staging EXCEPT ![j] = Nothing]
    /\ UNCHANGED <<trash, incomplete>>

ImportMove(i) ==
    /\ At(i, "move")
    /\ IF staging[i] = Nothing
       THEN EndLocked(i, "failed") /\ UNCHANGED disk
       ELSE RenameInto(i) /\ Goto(i, "insert") /\ UNCHANGED lock
    /\ UNCHANGED <<db, purge, troubles>>

(* The row: adopted by its id (an UPDATE of a row deleted since changes       *)
(* nothing), or inserted, which fails on the UNIQUE digest if the scanner was *)
(* first; the file stays in either case.                                      *)
NewRow(id, j) == [id |-> id, status |-> "permanent", name |-> call[j].name]
InsertMediaItem(i) ==
    /\ At(i, "insert")
    /\ LET c == What(i) IN
           \/ /\ call[i].held # Nobody
              /\ row' = [row EXCEPT ![c] = IF @.id = call[i].held
                                           THEN NewRow(@.id, i) ELSE @]
              /\ EndLocked(i, "copied") /\ UNCHANGED troubles
           \/ /\ call[i].held = Nobody /\ row[c] = NoRow
              /\ row' = [row EXCEPT ![c] = NewRow(i, i)]
              /\ EndLocked(i, "copied") /\ UNCHANGED troubles
           \/ /\ call[i].held = Nobody /\ row[c] # NoRow
              /\ EndLocked(i, "failed") /\ UNCHANGED <<row, troubles>>
           \/ Trouble /\ EndLocked(i, "failed") /\ UNCHANGED row
    /\ UNCHANGED <<dl, disk, purge>>

-----------------------------------------------------------------------------
(* download_open and the transfer behind it.                                  *)
OpenCall(w, p) ==
    /\ At(w, "idle") /\ <<w, p>> \in Asked
    /\ What(w) = 0 \/ Path(w) = p
    /\ call' = [call EXCEPT ![w].pc = "lock", ![w].what = p[1], ![w].name = p[2]]
    /\ UNCHANGED <<db, disk, lock, purge, troubles>>

(* The quota gate and the placeholder row, under the lock.                    *)
UpsertMediaItem(w) ==
    row' = [row EXCEPT ![What(w)] =
              IF @ # NoRow THEN @
              ELSE [id |-> w, status |-> "temporary", name |-> call[w].name]]
QuotaGate(w) ==
    /\ At(w, "gate")
    /\ LET c == What(w) IN
         IF row[c] = NoRow /\ ~Fits(c)
         THEN EndLocked(w, "refused") /\ UNCHANGED row
         ELSE /\ UpsertMediaItem(w)
              /\ Goto(w, "dedup") /\ lock' = Nobody
    /\ UNCHANGED <<dl, disk, purge, troubles>>

(* dedup_on_download: a row with its file is a hit, and permanent from now    *)
(* on; else the downloads row is found or created, which needs its media row. *)
DedupOnDownload(w) ==
    /\ At(w, "dedup")
    /\ LET c == What(w)
           r == row[c]
           hit == r # NoRow /\ library[<<c, r.name>>] # Nothing
           media == [state |-> IF hit THEN "complete" ELSE "active", media |-> r.id]
       IN  \/ r = NoRow /\ Ended(w, "failed") /\ UNCHANGED db
           \/ /\ r # NoRow
              /\ IF hit THEN Permanent(c, r.id) ELSE UNCHANGED row
              /\ dl' = [dl EXCEPT ![w] = media]
              /\ IF hit THEN Ended(w, "done") ELSE Goto(w, "transfer")
    /\ UNCHANGED <<disk, lock, purge, troubles>>

CleanupIncomplete(w) ==
    /\ incomplete' = incomplete \ {w}
    /\ staging' = [staging EXCEPT ![w] = Nothing]

(* The scratch files go, and the row gets its last state if it is still there. *)
EndDownload(w, state) ==
    /\ dl' = [dl EXCEPT ![w].state = IF @ = "active" THEN state ELSE @]
    /\ CleanupIncomplete(w)
    /\ Ended(w, IF state = "complete" /\ dl[w].state = "active" THEN "done" ELSE "failed")

(* The chunks; without the downloads row they cannot be recorded.             *)
Transfer(w) ==
    /\ At(w, "transfer")
    /\ \/ /\ dl[w].state = "active"
          /\ incomplete' = incomplete \cup {w} /\ Goto(w, "assemble")
          /\ UNCHANGED <<dl, staging, troubles>>
       \/ /\ (dl[w].state # "active" /\ UNCHANGED troubles) \/ Trouble
          /\ EndDownload(w, "failed")
    /\ UNCHANGED <<row, library, trash, lock, purge>>

(* assemble_and_finalize: the parts joined and hashed in staging ...          *)
AssembleParts(w) ==
    /\ At(w, "assemble")
    /\ IF dl[w].state = "active" /\ w \in incomplete
       THEN /\ staging' = [staging EXCEPT ![w] = What(w)]
            /\ Goto(w, "check") /\ UNCHANGED <<dl, incomplete>>
       ELSE EndDownload(w, "failed")
    /\ UNCHANGED <<row, library, trash, lock, purge, troubles>>

DownloadCheck(w) ==
    /\ At(w, "check")
    /\ IF CanComplete(w) THEN Goto(w, "move") /\ UNCHANGED <<dl, tmp>>
       ELSE EndDownload(w, "failed")
    /\ UNCHANGED <<row, library, trash, lock, purge, troubles>>

(* ... and renamed into the library, without the lock.                        *)
DownloadMove(w) ==
    /\ At(w, "move")
    /\ IF staging[w] = Nothing
       THEN EndDownload(w, "failed") /\ UNCHANGED <<library, trash>>
       ELSE RenameInto(w) /\ Goto(w, "complete") /\ UNCHANGED dl
    /\ UNCHANGED <<row, lock, purge, troubles>>

DownloadComplete(w) ==
    /\ At(w, "complete")
    /\ EndDownload(w, "complete")
    /\ UNCHANGED <<row, library, trash, lock, purge, troubles>>

-----------------------------------------------------------------------------
(* library_scan: one at a time, without the lock, file by file.               *)
ScanCall(s) ==
    /\ At(s, "idle")
    /\ \A t \in Scans: call[t].pc \in Over \cup {"idle"}
    /\ call' = [call EXCEPT ![s].pc = "walk", ![s].left = Paths]
    /\ UNCHANGED <<db, disk, lock, purge, troubles>>

(* walk_library and the first half of process_file: the next file, digests in *)
(* the order the stack pops them and names in their order; it is hashed, and  *)
(* skipped when it is misplaced.                                              *)
Visited(p, q) == p[1] > q[1] \/ (p[1] = q[1] /\ p[2] <= q[2])
ScanFile(s) ==
    /\ At(s, "walk")
    /\ LET found == {p \in call[s].left: library[p] # Nothing} IN
         \E p \in found:
            /\ \A q \in found: Visited(p, q)
            /\ call' = [call EXCEPT
                          ![s].left = {q \in @: q # p /\ Visited(p, q)},
                          ![s].what = p[1], ![s].name = p[2],
                          ![s].pc = IF library[p] = p[1] THEN "hashed" ELSE "walk"]
    /\ UNCHANGED <<db, disk, lock, purge, troubles>>

(* The row is looked up by the digest ...                                     *)
ScanSelect(s) ==
    /\ At(s, "hashed")
    /\ LET r == row[What(s)] IN
         \/ r = NoRow /\ Goto(s, "insert")
         \/ r # NoRow /\ r.name = call[s].name /\ Goto(s, "walk")
         \/ r # NoRow /\ r.name # call[s].name /\ Goto(s, "update")
    /\ UNCHANGED <<db, disk, lock, purge, troubles>>

(* ... and inserted, unless somebody was faster, or moved to the path found.  *)
ScanInsert(s) ==
    /\ At(s, "insert")
    /\ row' = [row EXCEPT ![What(s)] =
                 IF @ # NoRow THEN @
                 ELSE NewRow(s, s)]
    /\ Goto(s, "walk")
    /\ UNCHANGED <<dl, disk, lock, purge, troubles>>

ScanUpdate(s) ==
    /\ At(s, "update")
    /\ row' = [row EXCEPT ![What(s)] =
                 IF @ = NoRow THEN @ ELSE [@ EXCEPT !.name = call[s].name]]
    /\ Goto(s, "walk")
    /\ UNCHANGED <<dl, disk, lock, purge, troubles>>

(* mark_missing_files only touches last_seen_at.                              *)
ScanEnd(s) ==
    /\ At(s, "walk") /\ \A p \in call[s].left: library[p] = Nothing
    /\ Ended(s, "done")
    /\ UNCHANGED <<db, disk, lock, purge, troubles>>

-----------------------------------------------------------------------------
(* The deletes. is_active: a live transfer task for the item.                 *)
ActiveFor(id) == \E w \in Opens: dl[w].media = id /\ call[w].pc \in Transferring
RoomTempFile(c) ==
    /\ row[c].status = "temporary"
    /\ \E w \in Opens: dl[w] = [state |-> "complete", media |-> row[c].id]

(* library_delete refuses an item that is being downloaded; a leave deletes   *)
(* the temporary items whose download is complete.                            *)
DeleteCall(d, c) ==
    /\ At(d, "idle") /\ row[c] # NoRow
    /\ ~ActiveFor(row[c].id) \/ RoomTempFile(c)
    /\ call' = [call EXCEPT ![d].pc = "select", ![d].what = c, ![d].held = row[c].id]
    /\ UNCHANGED <<db, disk, lock, purge, troubles>>

SelectItem(d) ==
    /\ At(d, "select")
    /\ LET r == row[What(d)] IN
         IF r.id = call[d].held
         THEN call' = [call EXCEPT ![d].pc = "move", ![d].name = r.name]
         ELSE Ended(d, "failed")
    /\ UNCHANGED <<db, disk, lock, purge, troubles>>

(* The file goes to the trash; one that is missing is not an error.           *)
MoveToTrash(d) ==
    /\ At(d, "move")
    /\ LET found == library[Path(d)] # Nothing IN
         /\ call' = [call EXCEPT ![d].pc = "drop", ![d].moved = found]
         /\ trash' = IF found THEN trash \cup {<<d, library[Path(d)]>>} ELSE trash
         /\ library' = [library EXCEPT ![Path(d)] = Nothing]
    /\ UNCHANGED <<db, tmp, lock, purge, troubles>>

(* The row goes and its downloads with it, or the move is undone.             *)
DeleteRow(d) ==
    /\ At(d, "drop")
    /\ LET c == What(d)
           hit == row[c].id = call[d].held
       IN  \/ /\ row' = IF hit THEN [row EXCEPT ![c] = NoRow] ELSE row
              /\ dl' = [w \in Opens |-> IF hit /\ dl[w].media = call[d].held
                                        THEN NoDownload ELSE dl[w]]
              /\ Ended(d, "done")
              /\ UNCHANGED <<library, trash, troubles>>
           \/ /\ Trouble
              /\ IF call[d].moved
                 THEN /\ library' = [library EXCEPT ![Path(d)] = c]
                      /\ trash' = {t \in trash: t[1] # d}
                 ELSE UNCHANGED <<library, trash>>
              /\ Ended(d, "failed")
              /\ UNCHANGED db
    /\ UNCHANGED <<tmp, lock, purge>>

(* library_make_permanent takes any row; Keep only a room's temporary file.   *)
MakePermanent(c) ==
    /\ row[c].status = "temporary"
    /\ Permanent(c, row[c].id)
    /\ UNCHANGED <<dl, disk, lock, call, purge, troubles>>

-----------------------------------------------------------------------------
(* The app dies and is started again: the calls are gone, the purge runs.     *)
Crash ==
    /\ Trouble
    /\ call' = [j \in Calls |->
                  IF call[j].pc \in Over \cup {"idle"} THEN call[j]
                  ELSE IF j \in Opens THEN [call[j] EXCEPT !.pc = "idle"]
                  ELSE [Fresh EXCEPT !.pc = "dead", !.what = call[j].what]]
    /\ lock' = Nobody
    /\ purge' = [pc |-> "waiting", left |-> {}]
    /\ UNCHANGED <<db, disk>>

(* The purge takes the lock and lists tmp/staging ...                         *)
PurgeLock ==
    /\ purge.pc = "waiting" /\ lock = Nobody
    /\ lock' = Purger
    /\ purge' = [pc |-> "staging",
                 left |-> Staged]
    /\ UNCHANGED <<db, disk, call, troubles>>

(* ... removes every entry of it ...                                          *)
PurgeStaging ==
    /\ purge.pc = "staging"
    /\ \E j \in purge.left:
         /\ staging' = [staging EXCEPT ![j] = Nothing]
         /\ purge' = [purge EXCEPT !.left = @ \ {j}]
    /\ UNCHANGED <<db, library, trash, incomplete, lock, call, troubles>>

(* ... and then the chunk files that no resumable download owns.              *)
PurgeListed ==
    /\ purge.pc = "staging" /\ purge.left = {}
    /\ purge' = [pc |-> "incomplete", left |-> incomplete]
    /\ UNCHANGED <<db, disk, lock, call, troubles>>

PurgeIncomplete ==
    /\ purge.pc = "incomplete"
    /\ \E w \in purge.left:
         /\ incomplete' = IF dl[w].state = "active" THEN incomplete ELSE incomplete \ {w}
         /\ purge' = [purge EXCEPT !.left = @ \ {w}]
    /\ UNCHANGED <<db, library, trash, staging, lock, call, troubles>>

PurgeEnd ==
    /\ purge.pc = "incomplete" /\ purge.left = {}
    /\ purge' = [pc |-> "done", left |-> {}]
    /\ lock' = IF lock = Purger THEN Nobody ELSE lock
    /\ UNCHANGED <<db, disk, call, troubles>>

-----------------------------------------------------------------------------
Import(i) == \/ TakeLock(i) \/ Lookup(i) \/ FilePresent(i) \/ PromoteToPermanent(i)
             \/ QuotaCheck(i) \/ CopySource(i) \/ VerifyCopy(i) \/ ImportCheck(i)
             \/ ImportMove(i) \/ InsertMediaItem(i)
Download(w) == \/ TakeLock(w) \/ QuotaGate(w) \/ DedupOnDownload(w) \/ Transfer(w)
               \/ AssembleParts(w) \/ DownloadCheck(w) \/ DownloadMove(w)
               \/ DownloadComplete(w)
Scan(s) == ScanFile(s) \/ ScanSelect(s) \/ ScanInsert(s) \/ ScanUpdate(s) \/ ScanEnd(s)
Delete(d) == SelectItem(d) \/ MoveToTrash(d) \/ DeleteRow(d)
Purge == PurgeLock \/ PurgeStaging \/ PurgeListed \/ PurgeIncomplete \/ PurgeEnd

Next ==
    \/ \E i \in Imports: Import(i) \/ \E p \in Paths: ImportCall(i, p)
    \/ \E w \in Opens: Download(w) \/ \E p \in Paths: OpenCall(w, p)
    \/ \E s \in Scans: ScanCall(s) \/ Scan(s)
    \/ \E d \in Deletes: Delete(d) \/ \E c \in Contents: DeleteCall(d, c)
    \/ \E c \in Contents: MakePermanent(c)
    \/ Crash \/ Purge

Spec == Init /\ [][Next]_vars
-----------------------------------------------------------------------------
(* The contents whose row a call inserted, and what an import in the middle   *)
(* of its copy was promised room for.                                         *)
Inserted == {c \in Contents: row[c].id \in Imports \cup Opens}
Admitted == {"copy", "verify", "check", "move", "insert"}
Promised == {What(i): i \in {k \in Imports: call[k].pc \in Admitted
                                           /\ call[k].held = Nobody}}

(* The rows imports and downloads inserted and what is promised to an import  *)
(* never exceed the cap together (core/quota.rs check_allow, under            *)
(* lock_for_library). This says nothing of rows the scanner found on the      *)
(* disk, of files without a row, and of scratch files: these may exceed it.   *)
CommittedWithinCap == RowBytes(Inserted \cup Promised) <= Cap

(* An import that reports a copy, or a promotion of what was there, has its   *)
(* bytes in the library, or in the trash after a delete: no crash, undone     *)
(* delete, purge or second call loses them.                                   *)
ReportedIsKept ==
    \A i \in Imports:
        call[i].pc \in {"copied", "promoted"} =>
            \/ \E n \in Names: library[<<What(i), n>>] = What(i)
            \/ \E d \in Deletes: <<d, What(i)>> \in trash

=============================================================================
