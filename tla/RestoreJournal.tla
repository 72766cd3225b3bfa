--------------------------- MODULE RestoreJournal ---------------------------
(***************************************************************************)
(* The write-ahead journal of a backup restore: `RestoreJournal` in        *)
(* crates/zenclash-core/src/backup/recovery.rs, `activate` and `rollback`  *)
(* of backup/transaction.rs, `BackupRestoreTransaction` and                *)
(* `recover_interrupted_restore` of backup/mod.rs, and startup             *)
(* (crates/zenclash-ui/src/main.rs).                                       *)
(*                                                                         *)
(* One file system operation is one step.  It may fail without effect; a   *)
(* save of the journal may fail after its rename, in the fsync; removing a *)
(* directory may fail half-way.  The process may die between two steps.  A *)
(* restore holds the data directory's exclusive lease from Activate until  *)
(* its transaction is dropped, so no other writer interleaves.  What a     *)
(* rename leaves behind after a loss of power is not modelled.             *)
(***************************************************************************)
EXTENDS Naturals

CONSTANTS
    N,         \* the number of LIVE_ITEMS
    Versions,  \* contents an item can have
    Absent,    \* the path does not exist
    Torn,      \* a directory that was removed half-way
    NoJournal  \* there is no journal file

ASSUME JournalAssumption ==
    /\ N \in Nat \ {0}
    /\ Absent \notin Versions
    /\ Torn \notin Versions \cup {Absent}

Items == 1 .. N
ItemStates == {"Untouched", "Preserving", "Installing", "Restoring", "Restored"}
Journals == [states: [Items -> ItemStates], original: [Items -> BOOLEAN], committed: BOOLEAN]

ASSUME NoJournalAssumption == NoJournal \notin Journals

VARIABLES
    live,     \* the items of the data directory
    saved,    \* the items of the rollback directory
    staged,   \* the imported data (the staging directory, then what became of it)
    journal,  \* the journal file
    mem,      \* the RestoreJournal the process works with
    task,     \* what holds the lease
    pc,       \* its next step
    item,     \* the item it works on
    again,    \* a failed rollback is retried when the transaction is dropped
    before,   \* history: the data the restore replaces
    outcome   \* history: what the last restore reported

disk == <<live, saved, journal>>
control == <<mem, task, pc, item, again>>
history == <<staged, before, outcome>>
vars == <<live, saved, staged, journal, mem, task, pc, item, again, before, outcome>>

Tasks == {"none", "restore", "rollback", "commit", "recover"}
Steps == {"down", "startup", "open",
          "create", "savePreserving", "preserve", "saveInstalling", "install", "active",
          "undo", "remove", "putBack", "saveRestored", "sweep", "forget"}
Outcomes == {"none", "committed", "rolled back", "failed"}

TypeOK ==
    /\ live \in [Items -> Versions \cup {Absent, Torn}]
    /\ saved \in [Items -> Versions \cup {Absent}]
    /\ staged \in [Items -> Versions]
    /\ journal \in Journals \cup {NoJournal}
    /\ mem \in Journals \cup {NoJournal}
    /\ task \in Tasks
    /\ pc \in Steps
    /\ item \in Items
    /\ again \in BOOLEAN
    /\ before \in [Items -> Versions \cup {Absent}]
    /\ outcome \in Outcomes

Init ==
    /\ live \in [Items -> Versions \cup {Absent}]
    /\ saved = [i \in Items |-> Absent]
    /\ staged \in [Items -> Versions]
    /\ journal = NoJournal
    /\ mem = NoJournal
    /\ task = "none"
    /\ pc = "down"
    /\ item = 1
    /\ again = FALSE
    /\ before = live
    /\ outcome = "none"

\* A journal that is_pending refuses every ordinary write.
Pending == journal # NoJournal /\ ~journal.committed

Marked(state) == [mem EXCEPT !.states[item] = state]

\* save() replaces the file as a whole; it can report an error after doing so.
Save(m) == mem' = m /\ journal' = m
MayHaveSaved(m) == journal' \in {journal, m}

At(step) == pc' = step /\ UNCHANGED <<task, item, again>>

Released ==
    /\ task' = "none"
    /\ pc' = "open"
    /\ mem' = NoJournal
    /\ item' = 1
    /\ again' = FALSE

(***************************************************************************)
(* Ending in failure.                                                      *)
(***************************************************************************)
\* rollback begins with the journal m; if it fails, retry says whether the drop of the
\* transaction still tries again (only rollback() and rollback_in_place() leave that).
Rollback(m, retry) ==
    /\ task' = "rollback"
    /\ pc' = "undo"
    /\ item' = N
    /\ again' = retry
    /\ mem' = [m EXCEPT !.committed = FALSE]
    /\ UNCHANGED outcome

\* Dropping the transaction is the last try.
TryForEver == TRUE
LastTry == FALSE

\* main() returns the error of recover_interrupted_restore().
StartupError == "down"

\* A step of rollback() or recover() failed with the journal m in memory.
Fails(m) ==
    \/ /\ task = "rollback" /\ again
       /\ Rollback(m, LastTry)
    \/ /\ task = "rollback" /\ ~again
       /\ Released
       /\ outcome' = "failed"
    \/ /\ task = "recover"
       /\ task' = "none"
       /\ pc' = StartupError
       /\ mem' = NoJournal
       /\ item' = 1
       /\ UNCHANGED <<again, outcome>>

(***************************************************************************)
(* Activation: create(), then install() for each item.                     *)
(***************************************************************************)
Activate(snapshot) ==
    /\ pc = "open"
    /\ ~Pending
    /\ staged' = snapshot
    /\ before' = live
    /\ outcome' = "none"
    /\ task' = "restore"
    /\ mem' = journal
    /\ pc' = IF journal = NoJournal THEN "create" ELSE "sweep"
    /\ UNCHANGED <<disk, item, again>>

Create ==
    LET fresh == [states |-> [i \in Items |-> "Untouched"],
                  original |-> [i \in Items |-> live[i] # Absent],
                  committed |-> FALSE]
    IN  /\ pc = "create"
        /\ \/ Save(fresh) /\ At("savePreserving")
           \/ MayHaveSaved(fresh) /\ Released
        /\ UNCHANGED <<live, saved, history>>

SavePreserving ==
    /\ pc = "savePreserving"
    /\ LET m == Marked("Preserving")
       IN  \/ Save(m) /\ At("preserve") /\ UNCHANGED outcome
           \/ MayHaveSaved(m) /\ Rollback(m, TRUE)
    /\ UNCHANGED <<live, saved, staged, before>>

Preserve ==
    /\ pc = "preserve"
    /\ \/ /\ IF mem.original[item]
             THEN /\ saved' = [saved EXCEPT ![item] = live[item]]
                  /\ live' = [live EXCEPT ![item] = Absent]
             ELSE UNCHANGED <<live, saved>>
          /\ At("saveInstalling")
          /\ UNCHANGED <<mem, outcome>>
       \/ /\ mem.original[item]
          /\ Rollback(mem, TRUE)
          /\ UNCHANGED <<live, saved>>
    /\ UNCHANGED <<journal, staged, before>>

SaveInstalling ==
    /\ pc = "saveInstalling"
    /\ LET m == Marked("Installing")
       IN  \/ Save(m) /\ At("install") /\ UNCHANGED outcome
           \/ MayHaveSaved(m) /\ Rollback(m, TRUE)
    /\ UNCHANGED <<live, saved, staged, before>>

Install ==
    /\ pc = "install"
    /\ \/ /\ live' = [live EXCEPT ![item] = staged[item]]
          /\ IF item = N
             THEN pc' = "active" /\ UNCHANGED item
             ELSE pc' = "savePreserving" /\ item' = item + 1
          /\ UNCHANGED <<mem, task, again, outcome>>
       \/ /\ Rollback(mem, TRUE)
          /\ UNCHANGED live
    /\ UNCHANGED <<saved, journal, staged, before>>

(***************************************************************************)
(* The holder of the transaction: it validates the imported data, which    *)
(* may write to it, and commits or rolls back.  A transaction that is      *)
(* dropped (also by a failed commit()) rolls back once.                    *)
(***************************************************************************)
Validate(i, v) ==
    /\ pc = "active"
    /\ live' = [live EXCEPT ![i] = v]
    /\ staged' = [staged EXCEPT ![i] = v]
    /\ UNCHANGED <<saved, journal, control, before, outcome>>

Reject(retry) ==
    /\ pc = "active"
    /\ Rollback(mem, retry)
    /\ UNCHANGED <<disk, staged, before>>

Commit ==
    LET m == [mem EXCEPT !.committed = TRUE]
    IN  /\ pc = "active"
        /\ \/ /\ Save(m)
              /\ task' = "commit"
              /\ pc' = "sweep"
              /\ outcome' = "committed"
              /\ UNCHANGED <<item, again>>
           \/ /\ MayHaveSaved(m)
              /\ \E retry \in BOOLEAN : Rollback(mem, retry)
        /\ UNCHANGED <<live, saved, staged, before>>

(***************************************************************************)
(* rollback(): the items in reverse order.                                 *)
(***************************************************************************)
PastFirstItem == item = 0
FirstItem == item = 1

\* The item is done.
Undone ==
    /\ IF FirstItem
       THEN pc' = "sweep" /\ UNCHANGED item
       ELSE pc' = "undo" /\ item' = item - 1
    /\ UNCHANGED <<task, again, outcome>>

Done == mem.states[item] \in {"Untouched", "Restored"}

UndoSkip ==
    /\ pc = "undo"
    /\ Done
    /\ Undone
    /\ UNCHANGED <<disk, mem, staged, before>>

NotSaved == mem.original[item] /\ saved[item] = Absent

\* The original is neither in the rollback directory nor where it belongs.
Missing ==
    /\ NotSaved
    /\ mem.states[item] \notin {"Preserving", "Restoring"} \/ live[item] = Absent

\* The preserve rename did not happen, or the restore rename already did.
UndoNothing ==
    /\ pc = "undo"
    /\ ~Done
    /\ \/ /\ NotSaved /\ ~Missing
          /\ At("saveRestored")
          /\ UNCHANGED <<mem, outcome>>
       \/ Fails(mem)    \* exists() failed, or the item is Missing
    /\ UNCHANGED <<disk, staged, before>>

\* A variant for comparison: the removal is not announced.
RestoringUnmarked == mem
RestoringMark == Marked("Restoring")

SaveRestoring ==
    /\ pc = "undo"
    /\ ~Done
    /\ ~NotSaved
    /\ LET m == RestoringMark
       IN  \/ Save(m) /\ At("remove") /\ UNCHANGED outcome
           \/ MayHaveSaved(m) /\ Fails(m)
    /\ UNCHANGED <<live, saved, staged, before>>

Remove ==
    /\ pc = "remove"
    /\ \/ /\ live' = [live EXCEPT ![item] = Absent]
          /\ At("putBack")
          /\ UNCHANGED <<mem, outcome>>
       \/ /\ \/ UNCHANGED live
             \/ live[item] # Absent /\ live' = [live EXCEPT ![item] = Torn]
          /\ Fails(mem)
    /\ UNCHANGED <<saved, journal, staged, before>>

PutBack ==
    /\ pc = "putBack"
    /\ \/ /\ IF mem.original[item]
             THEN /\ live' = [live EXCEPT ![item] = saved[item]]
                  /\ saved' = [saved EXCEPT ![item] = Absent]
             ELSE UNCHANGED <<live, saved>>
          /\ At("saveRestored")
          /\ UNCHANGED <<mem, outcome>>
       \/ /\ mem.original[item]
          /\ Fails(mem)
          /\ UNCHANGED <<live, saved>>
    /\ UNCHANGED <<journal, staged, before>>

SaveRestored ==
    /\ pc = "saveRestored"
    /\ LET m == Marked("Restored")
       IN  \/ Save(m) /\ Undone
           \/ MayHaveSaved(m) /\ Fails(m)
    /\ UNCHANGED <<live, saved, staged, before>>

(***************************************************************************)
(* cleanup(): of a restore that was rolled back or committed, and of the   *)
(* committed one before it.                                                *)
(***************************************************************************)
\* What a failed cleanup does: create() gives the restore up, commit() reports a warning
\* and leaves the imported data active, rollback() and recover() fail.
CleanupFails ==
    \/ task \in {"restore", "commit"} /\ Released /\ UNCHANGED outcome
    \/ Fails(mem)

KeptAside == saved' = saved
Emptied == saved' = [i \in Items |-> Absent]

Sweep ==
    /\ pc = "sweep"
    /\ \/ /\ Emptied
          /\ At("forget")
          /\ UNCHANGED <<mem, outcome>>
       \/ /\ \E kept \in SUBSET Items :
                saved' = [i \in Items |-> IF i \in kept THEN saved[i] ELSE Absent]
          /\ CleanupFails
    /\ UNCHANGED <<live, journal, staged, before>>

Forget ==
    /\ pc = "forget"
    /\ \/ /\ journal' = NoJournal
          /\ \/ task = "restore" /\ At("create") /\ UNCHANGED <<mem, outcome>>
             \/ task = "rollback" /\ Released /\ outcome' = "rolled back"
             \/ task \in {"commit", "recover"} /\ Released /\ UNCHANGED outcome
       \/ /\ \/ UNCHANGED journal
             \/ ~mem.committed /\ journal' = NoJournal   \* remove_dir of an empty root failed
          /\ CleanupFails
    /\ UNCHANGED <<live, saved, staged, before>>

(***************************************************************************)
(* The process and the other writers.                                      *)
(***************************************************************************)
Launch ==
    /\ pc = "down"
    /\ pc' = "startup"
    /\ UNCHANGED <<disk, history, mem, task, item, again>>

RollsBackAlways == FALSE
OnlyCleansUp == journal.committed

\* recover_interrupted_restore(), before any store is opened.
Startup ==
    /\ pc = "startup"
    /\ \/ /\ journal = NoJournal
          /\ At("open")
          /\ UNCHANGED <<mem, outcome>>
       \/ /\ journal # NoJournal
          /\ mem' = journal
          /\ task' = "recover"
          /\ again' = FALSE
          /\ IF OnlyCleansUp
             THEN pc' = "sweep" /\ UNCHANGED item
             ELSE pc' = "undo" /\ item' = N
          /\ UNCHANGED outcome
       \/ At("down") /\ UNCHANGED <<mem, outcome>>   \* the journal cannot be read
    /\ UNCHANGED <<disk, staged, before>>

\* A store writes an item.  ensure_writes_available is asked under the store's own lease.
\* The holder of a transaction that was rolled back writes in the same way when it restores
\* the preceding runtime.
Write(i, v) ==
    /\ pc = "open"
    /\ ~Pending
    /\ live' = [live EXCEPT ![i] = v]
    /\ UNCHANGED <<saved, journal, control, history>>

\* The process dies or quits.
Exit ==
    /\ pc # "down"
    /\ task' = "none"
    /\ pc' = "down"
    /\ mem' = NoJournal
    /\ item' = 1
    /\ again' = FALSE
    /\ UNCHANGED <<disk, history>>

Work ==
    \/ Create \/ SavePreserving \/ Preserve \/ SaveInstalling \/ Install
    \/ \E retry \in BOOLEAN : Reject(retry)
    \/ Commit
    \/ UndoSkip \/ UndoNothing \/ SaveRestoring \/ Remove \/ PutBack \/ SaveRestored
    \/ Sweep \/ Forget
    \/ Startup

Next ==
    \/ Work
    \/ \E snapshot \in [Items -> Versions] : Activate(snapshot)
    \/ \E i \in Items, v \in Versions : Validate(i, v) \/ Write(i, v)
    \/ Launch
    \/ Exit

Spec == Init /\ [][Next]_vars

\* A thread that works on the journal keeps running until it is done or the process dies.
\* Nobody is obliged to start the application again.
FairSpec == Spec /\ WF_vars(Work)

(***************************************************************************)
(* Properties.                                                             *)
(***************************************************************************)
Undecided == Pending \/ task \in {"restore", "rollback"}

Data == IF Undecided THEN before ELSE live

Promise == INSTANCE AtomicRestore WITH
    data <- Data, undecided <- Undecided, offered <- staged, answer <- outcome

\* However often a restore, its rollback and the recovery at startup fail half-way or are
\* cut short by the death of the process, the data directory stands for the data before the
\* restore or for the imported data, never for a mixture; what was accepted is not taken
\* back by a later recovery, and ordinary writes are never undone.
ImplementsRestore == Promise!Spec

\* Until a restore is decided, each item it replaces is still there, in the rollback
\* directory or in its place (recovery.rs:108-157), and rollback() never runs into "missing
\* original backup item" (137-140), from whatever point a failure or a crash left the
\* journal at.
NothingLost ==
    /\ Undecided => \A i \in Items : before[i] \in {Absent, live[i], saved[i]}
    /\ pc = "undo" /\ ~Done => ~Missing

\* No copy of the user's data stays behind when there is no journal left that names it.
NoOrphans ==
    journal = NoJournal => \A i \in Items : saved[i] = Absent

\* Every restore gives the data directory's lease back: no failure makes the rollback
\* repeat for ever or leaves the transaction waiting.  A startup that finds an unfinished
\* restore decides it or exits: the application never opens its stores on an undecided
\* directory (main.rs:147).
JournalSettles ==
    /\ task # "none" ~> task = "none"
    /\ pc = "startup" ~> pc = "down" \/ (pc = "open" /\ ~Pending)

\* "If rollback remains unfinished, ordinary writes are refused until
\* [`BackupManager::recover_interrupted_restore`] succeeds." (backup/mod.rs:548-549): a
\* rollback that is given up leaves a pending journal, unless the data is back.
FailedRollbackRefusesWrites ==
    [][outcome' = "failed" /\ outcome # "failed" => Pending' \/ live' = before]_vars
=============================================================================
