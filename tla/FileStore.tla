------------------------------ MODULE FileStore ------------------------------
(***************************************************************************)
(* The store in JSON files (FileGatewayStore, store/file.rs).              *)
(*                                                                         *)
(* A table is changed in memory under its write lock; then a flush takes   *)
(* disk_write_lock, copies the table under its read lock, which it keeps,  *)
(* writes the copy to a new file and renames it.  Skills are read, changed *)
(* and written in their file under disk_write_lock; usage is appended      *)
(* without it.  A call is one of Callers until it returns.                 *)
(*                                                                         *)
(* The content of a table or file is the set of the changes it has seen:   *)
(* what a row holds is decided by the last of them, in the same order in   *)
(* memory and on the disk.                                                 *)
(***************************************************************************)
EXTENDS Naturals, FiniteSets

CONSTANTS
    Tables,      \* users, sessions, cron_jobs and credentials
    Skills,      \* the file of a chat's skills
    Callers,     \* calls that are under way at once
    NoCaller,
    MaxCalls,    \* bound: calls
    MaxBreaks    \* bound: failing writes, torn appends and stops

ASSUME FileAssumption ==
    /\ Skills \notin Tables
    /\ NoCaller \notin Callers
    /\ {MaxCalls, MaxBreaks} \subseteq Nat

VARIABLES
    memory,      \* table -> the changes in memory
    disk,        \* file -> the changes in the file
    usage,       \* the usage records of the day that can be read
    torn,        \* the last line of the usage file does not end
    locked,      \* who has disk_write_lock
    call,        \* caller -> [at, file, change, copy]
    calls, broken,
    \* history: changes that were acknowledged, and usage records that were appended
    \* to a torn line
    answered, glued

fileVars == <<memory, disk, usage, torn, locked, call, calls, broken, answered, glued>>

Files == Tables \union {Skills}
Changes == 1..MaxCalls

\* The file of a call that has none is that of the skills.
NoCall == [at |-> "idle", file |-> Skills, change |-> 0, copy |-> {}]

FileInit ==
    /\ memory = [t \in Tables |-> {}] /\ disk = [f \in Files |-> {}]
    /\ usage = {} /\ torn = FALSE
    /\ locked = NoCaller /\ call = [c \in Callers |-> NoCall]
    /\ calls = 0 /\ broken = 0
    /\ answered = {} /\ glued = {}

At(c, place) == call[c].at = place
Go(c, place) == call' = [call EXCEPT ![c].at = place]
Fault == broken < MaxBreaks /\ broken' = broken + 1

BeginCall(c, place, file) ==
    /\ At(c, "idle") /\ calls < MaxCalls
    /\ calls' = calls + 1
    /\ call' = [call EXCEPT ![c] = [at |-> place, file |-> file, change |-> calls + 1,
                                    copy |-> {}]]

-----------------------------------------------------------------------------
(* The tables. *)

\* A flush keeps the read lock of the table until its file is written.
ReadLocked(t) == \E c \in Callers : call[c].file = t /\ call[c].at = "writing"

\* upsert_user, set_current_session, create_cron_job, save_credential and all others
\* that change a table.  Those that find nothing to change return at once.
ChangeTable(c, t) ==
    /\ ~ReadLocked(t)
    /\ BeginCall(c, "flush", t)
    /\ memory' = [memory EXCEPT ![t] = @ \union {calls + 1}]
    /\ UNCHANGED <<disk, usage, torn, locked, broken, answered, glued>>

\* upsert_skill and delete_skill.
ChangeSkill(c) ==
    /\ BeginCall(c, "flush", Skills)
    /\ UNCHANGED <<memory, disk, usage, torn, locked, broken, answered, glued>>

LockFree_Always == TRUE
LockFree == locked = NoCaller

LockDisk(c) ==
    /\ At(c, "flush") /\ LockFree
    /\ locked' = c
    /\ Go(c, "locked")
    /\ UNCHANGED <<memory, disk, usage, torn, calls, broken, answered, glued>>

\* What is written: the table as it is now, or the file with the change.
Content(c) == LET f == call[c].file
              IN  IF f \in Tables THEN memory[f] ELSE disk[f] \union {call[c].change}

Copy(c) ==
    /\ At(c, "locked")
    /\ call' = [call EXCEPT ![c].at = "writing", ![c].copy = Content(c)]
    /\ UNCHANGED <<memory, disk, usage, torn, locked, calls, broken, answered, glued>>

\* atomic_write: the file is replaced as a whole.
Rename(c) ==
    /\ At(c, "writing")
    /\ disk' = [disk EXCEPT ![call[c].file] = call[c].copy]
    /\ Go(c, "renamed")
    /\ UNCHANGED <<memory, usage, torn, locked, calls, broken, answered, glued>>

Release(c) == locked' = IF locked = c THEN NoCaller ELSE locked

\* An error before the rename: the table keeps the change, and a later flush writes it.
WriteFails(c) ==
    /\ call[c].at \in {"locked", "writing"}
    /\ Fault
    /\ call' = [call EXCEPT ![c] = NoCall] /\ Release(c)
    /\ UNCHANGED <<memory, disk, usage, torn, calls, answered, glued>>

Acknowledge(c) ==
    /\ At(c, "renamed")
    /\ answered' = answered \union {call[c].change}
    /\ call' = [call EXCEPT ![c] = NoCall] /\ Release(c)
    /\ UNCHANGED <<memory, disk, usage, torn, calls, broken, glued>>

-----------------------------------------------------------------------------
(* Usage. *)

\* record_usage.  A line that begins within a torn one cannot be read, and readers
\* skip it.
RecordUsage(c) ==
    /\ At(c, "idle") /\ calls < MaxCalls
    /\ calls' = calls + 1
    /\ answered' = answered \union {calls + 1}
    /\ IF torn THEN glued' = glued \union {calls + 1} /\ UNCHANGED usage
               ELSE usage' = usage \union {calls + 1} /\ UNCHANGED glued
    /\ torn' = FALSE
    /\ UNCHANGED <<memory, disk, locked, call, broken>>

\* The write ends early, with an error or because the gateway stops.
RecordTears(c) ==
    /\ At(c, "idle") /\ calls < MaxCalls
    /\ Fault
    /\ calls' = calls + 1
    /\ torn' = TRUE
    /\ UNCHANGED <<memory, disk, usage, locked, call, answered, glued>>

-----------------------------------------------------------------------------

\* The gateway stops at any point; open reads the files.
Reopen ==
    /\ Fault
    /\ memory' = [t \in Tables |-> disk[t]]
    /\ locked' = NoCaller /\ call' = [c \in Callers |-> NoCall]
    /\ UNCHANGED <<disk, usage, torn, calls, answered, glued>>

FileNext ==
    \/ \E c \in Callers :
          \/ \E t \in Tables : ChangeTable(c, t)
          \/ ChangeSkill(c) \/ LockDisk(c) \/ Copy(c) \/ Rename(c)
          \/ WriteFails(c) \/ Acknowledge(c)
          \/ RecordUsage(c) \/ RecordTears(c)
    \/ Reopen

FileSpec == FileInit /\ [][FileNext]_fileVars

-----------------------------------------------------------------------------
(* Properties. *)

Places == {"idle", "flush", "locked", "writing", "renamed"}

FileTypeOK ==
    /\ memory \in [Tables -> SUBSET Changes]
    /\ disk \in [Files -> SUBSET Changes]
    /\ usage \subseteq Changes /\ torn \in BOOLEAN
    /\ locked \in Callers \union {NoCaller}
    /\ call \in [Callers -> [at : Places, file : Files, change : 0..MaxCalls,
                             copy : SUBSET Changes]]
    /\ calls \in 0..MaxCalls /\ broken \in 0..MaxBreaks
    /\ answered \subseteq Changes /\ glued \subseteq Changes

\* What can be read after a stop.
Kept == usage \union UNION {disk[f] : f \in Files}

\* A change that a call acknowledged is on the disk, whatever other calls write, fail
\* or leave unfinished: no flush puts an older table over a newer one, and no skill is
\* lost between the read and the write of another.  Only usage appended to a torn line
\* is lost.
AcknowledgedSurvives == answered \subseteq Kept \union glued
=============================================================================
