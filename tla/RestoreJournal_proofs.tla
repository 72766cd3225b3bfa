----------------------- MODULE RestoreJournal_proofs -----------------------
(***************************************************************************)
(* What RestoreJournal guarantees for any number of items and any set of   *)
(* contents: wherever a restore, a rollback or a recovery stops, each      *)
(* item's place agrees with the state the journal gives it, so that        *)
(* another recovery can take over.                                         *)
(***************************************************************************)
EXTENDS RestoreJournal, TLAPS

\* Item i is where it was before the restore, and nowhere else.
Back(i) == live[i] = before[i] /\ saved[i] = Absent

\* Where item i can be when the journal, or the process, says it is in the given state.
\* An item that did not exist before is its own (absent) copy in the rollback directory.
Place(i, state) ==
    /\ state \in {"Untouched", "Restored"} => Back(i)
    /\ state = "Preserving" => Back(i) \/ (saved[i] = before[i] /\ live[i] = Absent)
    /\ state = "Installing" => saved[i] = before[i] /\ live[i] \in {Absent, staged[i]}
    /\ state = "Restoring" => Back(i) \/ saved[i] = before[i]

Tells(j) ==
    /\ j \in Journals
    /\ ~j.committed
    /\ \A i \in Items : Place(i, j.states[i]) /\ (j.original[i] <=> before[i] # Absent)

Installed(i) == mem.states[i] = "Installing" /\ saved[i] = before[i] /\ live[i] = staged[i]
Fresh(i) == mem.states[i] = "Untouched" /\ Back(i)

Installs == {"savePreserving", "preserve", "saveInstalling", "install", "active"}
Undoes == {"undo", "remove", "putBack", "saveRestored"}
Cleans == {"sweep", "forget"}

CommittedOnDisk == journal # NoJournal /\ journal.committed

\* The journal on disk describes the data directory; without one nothing is left to undo.
Disk ==
    /\ Pending => Tells(journal)
    /\ ~Undecided => live \in [Items -> Versions \cup {Absent}]
    /\ NoOrphans

Phases ==
    /\ task = "none" => pc \in {"down", "startup", "open"}
    /\ task = "restore" => pc \in {"create"} \cup Installs \cup Cleans
    /\ task \in {"rollback", "recover"} => pc \in Undoes \cup Cleans
    /\ task = "commit" => pc \in Cleans
    /\ pc = "forget" => \A i \in Items : saved[i] = Absent

\* Before create() has written its journal, nothing has moved.
Preparing ==
    /\ task = "restore" /\ pc \in {"create"} \cup Cleans => live = before
    /\ task = "restore" /\ pc \in Cleans => mem = journal /\ CommittedOnDisk
    /\ pc = "create" => journal = NoJournal
    /\ task \in {"none"} \/ (task = "restore" /\ pc \notin Installs) => item = 1

\* install() goes through the items in order, one write ahead of each rename.
Installing ==
    pc \in Installs =>
        /\ task = "restore"
        /\ mem = journal /\ Pending
        /\ \A i \in Items : i < item => Installed(i)
        /\ \A i \in Items : item < i => Fresh(i)
        /\ pc = "savePreserving" => Fresh(item)
        /\ pc = "preserve" => mem.states[item] = "Preserving" /\ Back(item)
        /\ pc = "saveInstalling" =>
              mem.states[item] = "Preserving" /\ saved[item] = before[item] /\ live[item] = Absent
        /\ pc = "install" =>
              mem.states[item] = "Installing" /\ saved[item] = before[item] /\ live[item] = Absent
        /\ pc = "active" => item = N /\ Installed(item)

Reverting == task = "rollback" \/ (task = "recover" /\ ~mem.committed)

\* What a rollback can find on disk.  A commit that failed after its rename leaves a
\* committed journal until the rollback's first save; a cleanup that failed after it
\* removed the journal leaves none.
Undoable ==
    \/ Pending
    \/ CommittedOnDisk /\ \A i \in Items : live[i] = staged[i] /\ saved[i] = before[i]
    \/ journal = NoJournal /\ \A i \in Items : Back(i)

\* How far rollback() has come.
UndoneSoFar ==
    /\ \A i \in Items : item < i => Back(i)
    /\ pc \in {"remove", "putBack"} =>
          /\ Pending
          /\ journal.states[item] = "Restoring"
          /\ mem.states[item] = "Restoring"
          /\ saved[item] = before[item]
    /\ pc = "putBack" => live[item] = Absent
    /\ pc = "saveRestored" => Back(item)
    /\ pc \in Cleans => \A i \in Items : Back(i)

\* rollback() works from memory, which may be ahead of the disk by a failed save.
Undoing ==
    Reverting => Tells(mem) /\ Undoable /\ (task = "recover" => Pending) /\ UndoneSoFar

Cleaning ==
    task = "commit" \/ (task = "recover" /\ ~Reverting) =>
        /\ mem = journal /\ CommittedOnDisk
        /\ pc \in Cleans

IInv == TypeOK /\ Disk /\ Phases /\ Preparing /\ Installing /\ Undoing /\ Cleaning

-----------------------------------------------------------------------------
\* The data directory and the journal as another rollback can take them over.
Intact ==
    /\ live \in [Items -> Versions \cup {Absent, Torn}]
    /\ saved \in [Items -> Versions \cup {Absent}]
    /\ staged \in [Items -> Versions]
    /\ journal \in Journals \cup {NoJournal}
    /\ before \in [Items -> Versions \cup {Absent}]
    /\ Pending => Tells(journal)
    /\ NoOrphans
    /\ Undoable

LEMMA MarkedType ==
    ASSUME mem \in Journals, item \in Items, NEW s \in ItemStates
    PROVE  /\ Marked(s) \in Journals
           /\ Marked(s).committed = mem.committed
           /\ Marked(s).original = mem.original
           /\ \A i \in Items : Marked(s).states[i] = IF i = item THEN s ELSE mem.states[i]
  BY DEF Marked, Journals

\* The same where a decided restore needs no undoing.
Sound ==
    /\ live \in [Items -> Versions \cup {Absent, Torn}]
    /\ saved \in [Items -> Versions \cup {Absent}]
    /\ staged \in [Items -> Versions]
    /\ journal \in Journals \cup {NoJournal}
    /\ before \in [Items -> Versions \cup {Absent}]
    /\ Pending => Tells(journal)
    /\ ~Pending => live \in [Items -> Versions \cup {Absent}]
    /\ NoOrphans

LEMMA IntactIsSound ==
    ASSUME Intact
    PROVE  Sound
  <1>1. ~Pending => live \in [Items -> Versions \cup {Absent}]
    BY DEF Intact, Undoable, Back, CommittedOnDisk, Pending
  <1> QED BY <1>1 DEF Intact, Sound

\* Whoever lets the lease go leaves the rest to the next restore or recovery.
LEMMA IdleKeeps ==
    ASSUME Sound', task' = "none", pc' \in {"down", "startup", "open"},
           mem' = NoJournal, item' = 1, again' \in BOOLEAN, outcome' \in Outcomes
    PROVE  IInv'
  <1>1. TypeOK'
    <2>1. item' \in Items
      BY JournalAssumption DEF Items
    <2> QED BY <2>1 DEF Sound, TypeOK, Tasks, Steps
  <1>2. Disk'
    BY DEF Disk, Sound, Undecided
  <1>3. Phases' /\ Preparing' /\ Installing' /\ Undoing' /\ Cleaning'
    BY DEF Phases, Preparing, Installing, Installs, Undoing, Reverting, Cleaning, Cleans
  <1> QED BY <1>1, <1>2, <1>3 DEF IInv

\* A rollback may start, or start again, from every intact directory.
LEMMA RollbackKeeps ==
    ASSUME NEW m, NEW retry \in BOOLEAN, Rollback(m, retry), ~m.committed,
           Intact', Tells(m)', outcome \in Outcomes
    PROVE  IInv'
  <1> USE JournalAssumption
  <1>1. mem' = m
    BY DEF Rollback, Tells, Journals
  <1>2. TypeOK'
    <2>1. mem' \in Journals
      BY <1>1 DEF Tells
    <2>2. item' \in Items
      BY DEF Rollback, Items
    <2> QED BY <2>1, <2>2 DEF Rollback, Intact, TypeOK, Tasks, Steps
  <1>3. Disk'
    BY DEF Rollback, Intact, Disk, Undecided
  <1>4. Phases' /\ Preparing' /\ Installing' /\ Cleaning'
    BY DEF Rollback, Phases, Preparing, Installing, Installs, Undoes, Cleans, Cleaning
  <1>5. Undoing'
    <2>1. Tells(mem)'
      BY <1>1 DEF Tells
    <2>2. \A i \in Items : ~(item' < i)
      BY DEF Rollback, Items
    <2> QED BY <2>1, <2>2 DEF Rollback, Undoing, UndoneSoFar, Intact, Cleans
  <1> QED BY <1>2, <1>3, <1>4, <1>5 DEF IInv

LEMMA FailsKeeps ==
    ASSUME NEW m, Fails(m), ~m.committed, Intact', Tells(m)',
           outcome \in Outcomes, again \in BOOLEAN
    PROVE  IInv'
  <1>0. Sound'
    BY IntactIsSound, PTL
  <1>1. CASE Rollback(m, FALSE)
    BY <1>1, RollbackKeeps
  <1>2. CASE task = "rollback" /\ Released /\ outcome' = "failed"
    <2>1. again' \in BOOLEAN
      BY <1>2 DEF Released
    <2> QED BY <1>2, <1>0, <2>1, IdleKeeps DEF Released, Outcomes
  <1>3. CASE task = "recover" /\ ~Rollback(m, FALSE)
    BY <1>3, <1>0, IdleKeeps DEF Fails, StartupError
  <1> QED BY <1>1, <1>2, <1>3 DEF Fails, LastTry

\* Saving a journal that tells the truth, whether or not the save reports an error.
LEMMA SavedIsIntact ==
    ASSUME IInv, Undoable, NEW m, Tells(m), journal' \in {journal, m},
           UNCHANGED <<live, saved, staged, before>>
    PROVE  Intact' /\ Tells(m)'
  <1>1. Tells(m)'
    BY DEF Tells, Place, Back
  <1>2. Pending' => Tells(journal)'
    BY <1>1 DEF IInv, Disk, Tells, Place, Back, Pending
  <1>3. Undoable'
    <2>1. CASE journal' = m
      BY <2>1, NoJournalAssumption DEF Undoable, Pending, Tells
    <2>2. CASE journal' = journal
      BY <2>2 DEF Undoable, Pending, CommittedOnDisk, Back
    <2> QED BY <2>1, <2>2
  <1>4. NoOrphans'
    BY NoJournalAssumption DEF IInv, Disk, NoOrphans, Tells
  <1> QED BY <1>1, <1>2, <1>3, <1>4 DEF Intact, IInv, TypeOK, Tells

LEMMA SameIsIntact ==
    ASSUME IInv, Undoable, UNCHANGED <<live, saved, journal, staged, before>>
    PROVE  /\ Intact'
           /\ \A m : Tells(m) => Tells(m)'
  <1>1. \A m : Tells(m) => Tells(m)'
    BY DEF Tells, Place, Back
  <1>2. Pending' => Tells(journal)'
    BY DEF IInv, Disk, Tells, Place, Back, Pending
  <1>3. Undoable'
    BY DEF Undoable, Pending, CommittedOnDisk, Back
  <1> QED BY <1>1, <1>2, <1>3 DEF Intact, IInv, TypeOK, Disk, NoOrphans

-----------------------------------------------------------------------------
\* Activation.
LEMMA InitKeeps ==
    ASSUME Init
    PROVE  IInv
  <1>1. Items # {} /\ 1 \in Items
    BY JournalAssumption DEF Items
  <1>2. TypeOK
    BY <1>1 DEF Init, TypeOK, Tasks, Steps, Outcomes
  <1>3. Disk
    BY DEF Init, Disk, Pending, Undecided, NoOrphans
  <1>4. Phases /\ Preparing /\ Installing /\ Undoing /\ Cleaning
    BY DEF Init, Phases, Preparing, Installing, Installs, Undoing, Reverting, Cleaning, Cleans
  <1> QED BY <1>2, <1>3, <1>4 DEF IInv

LEMMA ActivateKeeps ==
    ASSUME IInv, NEW snapshot \in [Items -> Versions], Activate(snapshot)
    PROVE  IInv'
  <1>1. task = "none"
    BY DEF Activate, IInv, Phases, Installs, Undoes, Cleans, TypeOK, Tasks
  <1>2. before' \in [Items -> Versions \cup {Absent}]
    BY <1>1 DEF Activate, IInv, Disk, Undecided
  <1>3. TypeOK'
    BY <1>2 DEF Activate, IInv, TypeOK, Tasks, Steps, Outcomes, disk
  <1>4. Disk'
    BY DEF Activate, IInv, Disk, Pending, Undecided, NoOrphans, disk
  <1>5. Phases' /\ Preparing'
    <2>1. item = 1 /\ item' = item
      BY <1>1 DEF Activate, IInv, Preparing
    <2> QED BY <2>1
        DEF Activate, IInv, TypeOK, Phases, Preparing, Cleans, CommittedOnDisk, Pending, disk
  <1>6. Installing' /\ Undoing' /\ Cleaning'
    BY DEF Activate, Installing, Installs, Undoing, Reverting, Cleaning
  <1> QED BY <1>3, <1>4, <1>5, <1>6 DEF IInv

LEMMA CreateKeeps ==
    ASSUME IInv, Create
    PROVE  IInv'
  <1> DEFINE fresh == [states |-> [i \in Items |-> "Untouched"],
                       original |-> [i \in Items |-> live[i] # Absent],
                       committed |-> FALSE]
  <1>1. /\ pc = "create" /\ task = "restore"
        /\ UNCHANGED <<live, saved, staged, before, outcome>>
        /\ live = before /\ journal = NoJournal
    BY DEF Create, IInv, TypeOK, Tasks, Phases, Undoes, Cleans, Preparing, history
  <1>2. \A i \in Items : Back(i)
    BY <1>1 DEF IInv, Disk, NoOrphans, Back
  <1>3. PICK m : m = fresh
    OBVIOUS
  <1>4. /\ m \in Journals /\ ~m.committed
        /\ \A i \in Items : m.states[i] = "Untouched"
        /\ \A i \in Items : m.original[i] <=> before[i] # Absent
    BY <1>1, <1>3 DEF Journals, ItemStates
  <1>5. Tells(m)
    BY <1>2, <1>4 DEF Tells, Place
  <1>6. CASE Save(fresh) /\ At("savePreserving")
    <2>1. mem' = m /\ journal' = m /\ pc' = "savePreserving" /\ UNCHANGED <<task, item, again>>
      BY <1>3, <1>6 DEF Save, At
    <2>2. Pending' /\ Tells(journal)' /\ \A i \in Items : Back(i)'
      BY <1>1, <1>2, <1>4, <1>5, <2>1, NoJournalAssumption DEF Pending, Tells, Place, Back
    <2>3. TypeOK'
      BY <1>1, <1>4, <2>1 DEF IInv, TypeOK, Steps
    <2>4. Disk' /\ Phases' /\ Preparing' /\ Undoing' /\ Cleaning'
      BY <1>1, <2>1, <2>2 DEF Disk, Undecided, NoOrphans, Phases, Installs, Preparing,
         Undoing, Reverting, Cleaning, Cleans, Pending
    <2>5. item = 1
      BY <1>1 DEF IInv, Preparing, Installs
    <2>6. \A i \in Items : Fresh(i)'
      BY <1>4, <2>1, <2>2 DEF Fresh
    <2>7. item' \in Items /\ \A i \in Items : ~(i < item')
      BY <2>1, <2>5, JournalAssumption DEF Items
    <2>8. Installing'
      BY <1>1, <2>1, <2>2, <2>6, <2>7 DEF Installing
    <2> QED BY <2>3, <2>4, <2>8 DEF IInv
  <1>7. CASE MayHaveSaved(fresh) /\ Released
    <2>1. Undoable
      BY <1>1, <1>2 DEF Undoable
    <2>2. Intact'
      BY <1>1, <1>3, <1>5, <1>7, <2>1, SavedIsIntact DEF MayHaveSaved
    <2>3. Sound'
      BY <2>2, IntactIsSound, PTL
    <2> QED BY <1>1, <1>7, <2>3, IdleKeeps DEF Released, IInv, TypeOK
  <1> QED BY <1>6, <1>7 DEF Create

\* What the install steps have in common: an undo may begin at each of them.
LEMMA InstallsIntact ==
    ASSUME IInv, pc \in Installs
    PROVE  /\ task = "restore" /\ mem = journal /\ Pending
           /\ mem \in Journals /\ ~mem.committed
           /\ Tells(mem) /\ Undoable
  BY DEF IInv, Installing, Disk, Tells, Undoable

\* A rollback of the journal m begins after a step that changed nothing but the journal.
LEMMA InstallFails ==
    ASSUME IInv, pc \in Installs, NEW m, Tells(m), NEW retry \in BOOLEAN, Rollback(m, retry),
           journal' \in {journal, m}, UNCHANGED <<live, saved, staged, before>>
    PROVE  IInv'
  <1>1. Intact' /\ Tells(m)'
    BY InstallsIntact, SavedIsIntact
  <1> QED BY <1>1, RollbackKeeps DEF Tells, IInv, TypeOK

\* The other invariants while items are being installed.
LEMMA InstallGoesOn ==
    ASSUME IInv, pc \in Installs, pc' \in Installs, TypeOK', Installing', Tells(journal)',
           UNCHANGED <<task, before>>
    PROVE  IInv'
  <1>1. task = "restore"
    BY InstallsIntact
  <1>2. journal' # NoJournal /\ Pending'
    BY NoJournalAssumption DEF Tells, Pending
  <1>3. Disk' /\ Phases' /\ Preparing' /\ Undoing' /\ Cleaning'
    BY <1>1, <1>2 DEF Disk, Undecided, NoOrphans, Phases, Installs, Preparing, Undoing,
       Reverting, Cleaning, Cleans
  <1> QED BY <1>3 DEF IInv

LEMMA SavePreservingKeeps ==
    ASSUME IInv, SavePreserving
    PROVE  IInv'
  <1>1. pc = "savePreserving" /\ pc \in Installs
        /\ UNCHANGED <<live, saved, staged, before>>
    BY DEF SavePreserving, Installs
  <1>2. PICK m : m = Marked("Preserving")
    OBVIOUS
  <1>3. /\ m \in Journals /\ ~m.committed
        /\ m.original = mem.original
        /\ \A i \in Items : m.states[i] = IF i = item THEN "Preserving" ELSE mem.states[i]
    BY <1>1, <1>2, InstallsIntact, MarkedType DEF IInv, TypeOK, ItemStates
  <1>4. Fresh(item) /\ item \in Items
    BY <1>1 DEF IInv, Installing, TypeOK
  <1>5. Tells(m)
    BY <1>1, <1>3, <1>4, InstallsIntact DEF Tells, Place, Fresh
  <1>6. CASE Save(m) /\ At("preserve") /\ UNCHANGED outcome
    <2>1. /\ mem' = m /\ journal' = m /\ pc' = "preserve"
          /\ UNCHANGED <<live, saved, staged, before, task, item, again, outcome>>
      BY <1>1, <1>6 DEF Save, At
    <2>2. TypeOK'
      BY <1>3, <2>1 DEF IInv, TypeOK, Steps
    <2>3. Tells(journal)'
      BY <1>5, <2>1 DEF Tells, Place, Back
    <2>4. \A i \in Items : /\ i < item => Installed(i)'
                           /\ item < i => Fresh(i)'
      BY <1>1, <1>3, <2>1 DEF IInv, Installing, Installed, Fresh, Back, Items
    <2>5. mem'.states[item] = "Preserving" /\ Back(item)'
      BY <1>3, <1>4, <2>1 DEF Fresh, Back
    <2>6. Installing'
      BY <1>1, <2>1, <2>3, <2>4, <2>5, InstallsIntact, NoJournalAssumption
      DEF Installing, Tells, Pending
    <2> QED BY <1>1, <2>1, <2>2, <2>3, <2>6, InstallGoesOn DEF Installs
  <1>7. CASE MayHaveSaved(m) /\ Rollback(m, TRUE)
    BY <1>1, <1>5, <1>7, InstallFails DEF MayHaveSaved
  <1> QED BY <1>2, <1>6, <1>7 DEF SavePreserving

\* An item that is renamed under a state that allows both places.
LEMMA MovedTells ==
    ASSUME NEW m, Tells(m), NEW k \in Items, UNCHANGED <<staged, before>>,
           \A i \in Items : i # k => live'[i] = live[i] /\ saved'[i] = saved[i],
           Place(k, m.states[k])'
    PROVE  Tells(m)'
  <1>1. \A i \in Items : Place(i, m.states[i])'
    <2>1. ASSUME NEW i \in Items, i # k
          PROVE  Place(i, m.states[i])'
      BY <2>1 DEF Tells, Place, Back
    <2> QED BY <2>1
  <1> QED BY <1>1 DEF Tells

LEMMA PreserveKeeps ==
    ASSUME IInv, Preserve
    PROVE  IInv'
  <1>1. pc = "preserve" /\ pc \in Installs /\ UNCHANGED <<journal, staged, before>>
    BY DEF Preserve, Installs
  <1>2. /\ mem.states[item] = "Preserving" /\ Back(item) /\ item \in Items
        /\ mem.original[item] <=> before[item] # Absent
    BY <1>1, InstallsIntact DEF IInv, Installing, TypeOK, Tells
  <1>3. CASE mem.original[item] /\ Rollback(mem, TRUE) /\ UNCHANGED <<live, saved>>
    <2>1. PICK m : m = mem
      OBVIOUS
    <2> QED BY <1>1, <1>3, <2>1, InstallsIntact, InstallFails
  <1>4. CASE /\ IF mem.original[item]
                THEN /\ saved' = [saved EXCEPT ![item] = live[item]]
                     /\ live' = [live EXCEPT ![item] = Absent]
                ELSE UNCHANGED <<live, saved>>
             /\ At("saveInstalling")
             /\ UNCHANGED <<mem, outcome>>
    <2>1. pc' = "saveInstalling" /\ UNCHANGED <<mem, task, item, again, outcome>>
      BY <1>4 DEF At
    <2>2. saved'[item] = before[item] /\ live'[item] = Absent
      BY <1>2, <1>4 DEF Back, IInv, TypeOK
    <2>3. \A i \in Items : i # item => live'[i] = live[i] /\ saved'[i] = saved[i]
      BY <1>4 DEF IInv, TypeOK
    <2>4. TypeOK'
      <3>1. live[item] \in Versions \cup {Absent}
        BY <1>2 DEF Back, IInv, TypeOK
      <3> QED BY <1>1, <1>2, <1>4, <2>1, <3>1 DEF IInv, TypeOK, Steps
    <2>5. PICK m : m = journal
      OBVIOUS
    <2>6. Tells(m)'
      BY <1>1, <1>2, <2>2, <2>3, <2>5, InstallsIntact, MovedTells DEF Place
    <2>7. Tells(journal)'
      BY <1>1, <2>5, <2>6 DEF Tells, Place, Back
    <2>8. Installing'
      BY <1>1, <1>2, <2>1, <2>2, <2>3, InstallsIntact
      DEF IInv, Installing, Installed, Fresh, Back, Pending, Items
    <2> QED BY <1>1, <2>1, <2>4, <2>7, <2>8, InstallGoesOn DEF Installs
  <1> QED BY <1>3, <1>4 DEF Preserve

LEMMA SaveInstallingKeeps ==
    ASSUME IInv, SaveInstalling
    PROVE  IInv'
  <1>1. pc = "saveInstalling" /\ pc \in Installs
        /\ UNCHANGED <<live, saved, staged, before>>
    BY DEF SaveInstalling, Installs
  <1>2. PICK m : m = Marked("Installing")
    OBVIOUS
  <1>3. /\ m \in Journals /\ ~m.committed
        /\ m.original = mem.original
        /\ \A i \in Items : m.states[i] = IF i = item THEN "Installing" ELSE mem.states[i]
    BY <1>1, <1>2, InstallsIntact, MarkedType DEF IInv, TypeOK, ItemStates
  <1>4. saved[item] = before[item] /\ live[item] = Absent /\ item \in Items
    BY <1>1 DEF IInv, Installing, TypeOK
  <1>5. Tells(m)
    BY <1>1, <1>3, <1>4, InstallsIntact DEF Tells, Place
  <1>6. CASE Save(m) /\ At("install") /\ UNCHANGED outcome
    <2>1. /\ mem' = m /\ journal' = m /\ pc' = "install"
          /\ UNCHANGED <<live, saved, staged, before, task, item, again, outcome>>
      BY <1>1, <1>6 DEF Save, At
    <2>2. TypeOK'
      BY <1>3, <2>1 DEF IInv, TypeOK, Steps
    <2>3. Tells(journal)'
      BY <1>5, <2>1 DEF Tells, Place, Back
    <2>4. \A i \in Items : /\ i < item => Installed(i)'
                           /\ item < i => Fresh(i)'
      BY <1>1, <1>3, <2>1 DEF IInv, Installing, Installed, Fresh, Back, Items
    <2>5. mem'.states[item] = "Installing"
      BY <1>3, <1>4, <2>1
    <2>6. Installing'
      BY <1>1, <1>4, <2>1, <2>3, <2>4, <2>5, InstallsIntact, NoJournalAssumption
      DEF Installing, Tells, Pending
    <2> QED BY <1>1, <2>1, <2>2, <2>3, <2>6, InstallGoesOn DEF Installs
  <1>7. CASE MayHaveSaved(m) /\ Rollback(m, TRUE)
    BY <1>1, <1>5, <1>7, InstallFails DEF MayHaveSaved
  <1> QED BY <1>2, <1>6, <1>7 DEF SaveInstalling

LEMMA InstallKeeps ==
    ASSUME IInv, Install
    PROVE  IInv'
  <1>1. pc = "install" /\ pc \in Installs /\ UNCHANGED <<saved, journal, staged, before>>
    BY DEF Install, Installs
  <1>2. /\ mem.states[item] = "Installing" /\ item \in Items
        /\ saved[item] = before[item]
    BY <1>1 DEF IInv, Installing, TypeOK
  <1>3. CASE Rollback(mem, TRUE) /\ UNCHANGED live
    <2>1. PICK m : m = mem
      OBVIOUS
    <2> QED BY <1>1, <1>3, <2>1, InstallsIntact, InstallFails
  <1>4. CASE /\ live' = [live EXCEPT ![item] = staged[item]]
             /\ IF item = N
                THEN pc' = "active" /\ UNCHANGED item
                ELSE pc' = "savePreserving" /\ item' = item + 1
             /\ UNCHANGED <<mem, task, again, outcome>>
    <2>1. /\ live'[item] = staged[item]
          /\ \A i \in Items : i # item => live'[i] = live[i]
      BY <1>2, <1>4 DEF IInv, TypeOK
    <2>2. item' \in Items
      BY <1>2, <1>4, JournalAssumption DEF Items
    <2>3. TypeOK'
      BY <1>1, <1>2, <1>4, <2>2 DEF IInv, TypeOK, Steps
    <2>4. PICK m : m = journal
      OBVIOUS
    <2>5. Tells(m)'
      BY <1>1, <1>2, <2>1, <2>4, InstallsIntact, MovedTells DEF Place
    <2>6. Tells(journal)'
      BY <1>1, <2>4, <2>5 DEF Tells, Place, Back
    <2>7. PICK k \in Items : k = item
      BY <1>2
    <2>8. \A i \in Items : /\ i <= k => Installed(i)'
                           /\ k < i => Fresh(i)'
      <3>1. ASSUME NEW i \in Items, i <= k
            PROVE  Installed(i)'
        <4>1. i = k \/ i < k
          BY <3>1 DEF Items
        <4> QED BY <1>1, <1>2, <1>4, <2>1, <2>7, <4>1 DEF IInv, Installing, Installed
      <3>2. ASSUME NEW i \in Items, k < i
            PROVE  Fresh(i)'
        BY <1>1, <1>2, <1>4, <2>1, <2>7, <3>2 DEF IInv, Installing, Fresh, Back, Items
      <3> QED BY <3>1, <3>2
    <2>9. Installing'
      <3>1. CASE item = N
        <4>1. \A i \in Items : i <= N
          BY DEF Items
        <4>2. \A i \in Items : Installed(i)'
          BY <2>7, <2>8, <3>1, <4>1
        <4>3. \A i \in Items : ~(item' < i)
          BY <1>4, <3>1, JournalAssumption DEF Items
        <4> QED BY <1>1, <1>4, <2>2, <3>1, <4>2, <4>3, InstallsIntact
            DEF Installing, Installed, Pending
      <3>2. CASE item # N
        <4>1. \A i \in Items : /\ i < item' => i <= k
                               /\ item' <= i => k < i
          BY <1>4, <2>7, <3>2 DEF Items
        <4>2. Fresh(item)' /\ \A i \in Items : /\ i < item' => Installed(i)'
                                               /\ item' < i => Fresh(i)'
          <5>1. \A i \in Items : i < item' => Installed(i)'
            BY <2>8, <4>1
          <5>2. \A i \in Items : item' <= i => Fresh(i)'
            BY <2>8, <4>1
          <5>3. \A i \in Items : item' < i => item' <= i
            BY <2>2 DEF Items
          <5>4. item' <= item'
            BY <2>2 DEF Items
          <5>5. PICK j \in Items : j = item'
            BY <2>2
          <5>6. Fresh(j)'
            BY <5>2, <5>4, <5>5
          <5>7. Fresh(item)'
            BY <5>5, <5>6 DEF Fresh, Back
          <5> QED BY <5>1, <5>2, <5>3, <5>7
        <4> QED BY <1>1, <1>4, <3>2, <4>2, InstallsIntact DEF Installing, Pending
      <3> QED BY <3>1, <3>2
    <2> QED BY <1>1, <1>4, <2>3, <2>6, <2>9, InstallGoesOn DEF Installs
  <1> QED BY <1>3, <1>4 DEF Install

-----------------------------------------------------------------------------
\* The holder of the transaction.
LEMMA ActiveFacts ==
    ASSUME IInv, pc = "active"
    PROVE  /\ pc \in Installs /\ item = N
           /\ \A i \in Items : Installed(i)
  <1>1. \A i \in Items : i = N \/ i < N
    BY JournalAssumption DEF Items
  <1> QED BY <1>1 DEF IInv, Installing, Installs

LEMMA ValidateKeeps ==
    ASSUME IInv, NEW k \in Items, NEW v \in Versions, Validate(k, v)
    PROVE  IInv'
  <1>1. pc = "active" /\ pc \in Installs
        /\ UNCHANGED <<saved, journal, control, before, outcome>>
    BY DEF Validate, Installs
  <1>2. TypeOK'
    BY <1>1 DEF Validate, IInv, TypeOK, control
  <1>3. \A i \in Items : Installed(i)'
    BY <1>1, ActiveFacts DEF Validate, Installed, IInv, TypeOK, control
  <1>4. PICK m : m = journal
    OBVIOUS
  <1>5. Tells(m)'
    <2>1. m \in Journals /\ ~m.committed /\ m = mem
          /\ \A i \in Items : m.original[i] <=> before[i] # Absent
      BY <1>1, <1>4, InstallsIntact DEF Tells
    <2>2. \A i \in Items : m.states[i] = "Installing" /\ Place(i, "Installing")'
      BY <1>1, <1>3, <2>1, ActiveFacts DEF Installed, Place, control
    <2> QED BY <1>1, <2>1, <2>2 DEF Tells
  <1>6. Tells(journal)'
    BY <1>1, <1>4, <1>5 DEF Tells, Place, Back
  <1>7. Installing'
    <2>1. item' = N /\ \A i \in Items : ~(N < i)
      BY <1>1, ActiveFacts, JournalAssumption DEF control, Items
    <2>2. Installed(item)'
      BY <1>1, <1>2, <1>3 DEF control, IInv, TypeOK, Installed
    <2> QED BY <1>1, <1>3, <2>1, <2>2, InstallsIntact DEF Installing, Pending, control
  <1> QED BY <1>1, <1>2, <1>6, <1>7, InstallGoesOn DEF control

LEMMA RejectKeeps ==
    ASSUME IInv, NEW retry \in BOOLEAN, Reject(retry)
    PROVE  IInv'
  <1>1. pc \in Installs
    BY DEF Reject, Installs
  <1>2. PICK m : m = mem
    OBVIOUS
  <1> QED BY <1>1, <1>2, InstallsIntact, InstallFails DEF Reject, disk

LEMMA CommitKeeps ==
    ASSUME IInv, Commit
    PROVE  IInv'
  <1>1. pc = "active" /\ pc \in Installs /\ UNCHANGED <<live, saved, staged, before>>
    BY DEF Commit, Installs
  <1>2. PICK m : m = [mem EXCEPT !.committed = TRUE]
    OBVIOUS
  <1>3. m \in Journals /\ m.committed /\ m # NoJournal
    BY <1>1, <1>2, InstallsIntact, NoJournalAssumption DEF Journals
  <1>4. \A i \in Items : live[i] = staged[i] /\ saved[i] = before[i]
    BY <1>1, ActiveFacts DEF Installed
  <1>5. CASE /\ Save(m)
             /\ task' = "commit"
             /\ pc' = "sweep"
             /\ outcome' = "committed"
             /\ UNCHANGED <<item, again>>
    <2>1. mem' = m /\ journal' = m
      BY <1>5 DEF Save
    <2>2. TypeOK'
      BY <1>1, <1>3, <1>5, <2>1 DEF IInv, TypeOK, Tasks, Steps, Outcomes
    <2>3. live' \in [Items -> Versions \cup {Absent}]
      BY <1>1, <1>4 DEF IInv, TypeOK
    <2>4. Disk' /\ Phases' /\ Preparing' /\ Installing' /\ Undoing' /\ Cleaning'
      BY <1>3, <1>5, <2>1, <2>3 DEF Disk, Pending, Undecided, NoOrphans, Phases, Preparing,
         Installing, Installs, Undoing, Reverting, Cleaning, Cleans, CommittedOnDisk
    <2> QED BY <2>2, <2>4 DEF IInv
  <1>6. ASSUME NEW retry \in BOOLEAN, MayHaveSaved(m), Rollback(mem, retry)
        PROVE  IInv'
    <2>1. PICK u : u = mem
      OBVIOUS
    <2>2. Tells(u) /\ ~u.committed
      BY <1>1, <2>1, InstallsIntact
    <2>3. CASE journal' = journal
      BY <1>1, <1>6, <2>1, <2>2, <2>3, InstallFails
    <2>4. CASE journal' = m
      <3>1. Tells(u)'
        BY <1>1, <2>2 DEF Tells, Place, Back
      <3>2. ~Pending' /\ NoOrphans' /\ Undoable'
        BY <1>1, <1>3, <1>4, <2>4 DEF Pending, NoOrphans, Undoable, CommittedOnDisk
      <3>3. Intact'
        BY <1>1, <1>3, <2>4, <3>2 DEF Intact, IInv, TypeOK
      <3> QED BY <1>6, <2>1, <2>2, <3>1, <3>3, RollbackKeeps DEF IInv, TypeOK
    <2> QED BY <1>6, <2>3, <2>4 DEF MayHaveSaved
  <1> QED BY <1>2, <1>5, <1>6 DEF Commit

-----------------------------------------------------------------------------
\* The undo steps.
LEMMA UndoesFacts ==
    ASSUME IInv, pc \in Undoes
    PROVE  /\ Reverting /\ task \in {"rollback", "recover"}
           /\ mem \in Journals /\ ~mem.committed
           /\ Tells(mem) /\ Undoable /\ UndoneSoFar
           /\ task = "recover" => Pending
           /\ item \in Items
  <1>1. task \in {"rollback", "recover"}
    BY DEF IInv, TypeOK, Tasks, Phases, Installs, Undoes, Cleans
  <1>2. Reverting
    BY <1>1 DEF IInv, Cleaning, Undoes, Cleans, Reverting
  <1> QED BY <1>1, <1>2 DEF IInv, Undoing, Tells, TypeOK

\* The other invariants while items are being put back.
LEMMA UndoGoesOn ==
    ASSUME IInv, pc \in Undoes, pc' \in Undoes \cup {"sweep"}, UNCHANGED <<task, again, outcome>>,
           item' \in Items, Intact', Tells(mem)', UndoneSoFar', task = "recover" => Pending'
    PROVE  IInv'
  <1>1. task \in {"rollback", "recover"}
    BY UndoesFacts
  <1>2. TypeOK'
    BY DEF IInv, TypeOK, Intact, Tells, Steps, Undoes
  <1>3. Reverting' /\ ~mem'.committed
    BY <1>1 DEF Tells, Reverting
  <1>4. Disk'
    BY <1>1 DEF Disk, Intact, Undecided
  <1>5. Phases' /\ Preparing' /\ Installing' /\ Cleaning'
    BY <1>1, <1>3 DEF Phases, Preparing, Installing, Installs, Undoes, Cleans, Cleaning
  <1>6. Undoing'
    BY <1>1 DEF Undoing, Intact
  <1> QED BY <1>2, <1>4, <1>5, <1>6 DEF IInv

\* A step fails that changed nothing but the journal.
LEMMA UndoFails ==
    ASSUME IInv, pc \in Undoes, NEW m, Tells(m), Fails(m), journal' \in {journal, m},
           UNCHANGED <<live, saved, staged, before>>
    PROVE  IInv'
  <1>1. Intact' /\ Tells(m)'
    BY UndoesFacts, SavedIsIntact
  <1> QED BY <1>1, FailsKeeps DEF Tells, IInv, TypeOK

\* The item is back: the next one, or the cleanup.
LEMMA UndoneGoesOn ==
    ASSUME IInv, pc \in Undoes, Undone, Intact', Tells(mem)', UNCHANGED <<live, saved, before>>,
           Back(item), \A i \in Items : item < i => Back(i), task = "recover" => Pending'
    PROVE  IInv'
  <1>1. item \in Items
    BY UndoesFacts
  <1>2. item' \in Items /\ pc' \in {"undo", "sweep"}
    <2>1. CASE item = 1
      BY <1>1, <2>1 DEF Undone, FirstItem
    <2>2. CASE item # 1
      <3>1. item - 1 \in Items
        BY <1>1, <2>2, JournalAssumption DEF Items
      <3> QED BY <2>2, <3>1 DEF Undone, FirstItem
    <2> QED BY <2>1, <2>2
  <1>3. \A i \in Items : item' < i \/ pc' = "sweep" => Back(i)
    <2>1. ASSUME NEW i \in Items, item' < i \/ pc' = "sweep"
          PROVE  i = item \/ item < i
      BY <1>1, <2>1 DEF Undone, FirstItem, Items
    <2> QED BY <2>1
  <1>4. UndoneSoFar'
    BY <1>2, <1>3 DEF UndoneSoFar, Back, Cleans
  <1> QED BY <1>2, <1>4, UndoGoesOn DEF Undone, Undoes

LEMMA UndoSkipKeeps ==
    ASSUME IInv, UndoSkip
    PROVE  IInv'
  <1>1. pc \in Undoes /\ Done /\ Undone /\ UNCHANGED <<live, saved, journal, mem, staged, before>>
    BY DEF UndoSkip, Undoes, disk
  <1>2. Back(item) /\ \A i \in Items : item < i => Back(i)
    BY <1>1, UndoesFacts DEF Tells, Place, Done, UndoneSoFar
  <1>3. Intact' /\ Tells(mem)'
    <2>1. PICK m : m = mem
      OBVIOUS
    <2>2. Intact' /\ Tells(m)'
      BY <1>1, <2>1, UndoesFacts, SameIsIntact
    <2> QED BY <1>1, <2>1, <2>2 DEF Tells, Place, Back
  <1> QED BY <1>1, <1>2, <1>3, UndoesFacts, UndoneGoesOn DEF Pending

LEMMA UndoNothingKeeps ==
    ASSUME IInv, UndoNothing
    PROVE  IInv'
  <1>1. /\ pc = "undo" /\ pc \in Undoes /\ ~Done
        /\ UNCHANGED <<live, saved, journal, staged, before>>
    BY DEF UndoNothing, Undoes, disk
  <1>2. PICK m : m = mem
    OBVIOUS
  <1>3. Tells(m)
    BY <1>1, <1>2, UndoesFacts
  <1>4. CASE Fails(mem)
    BY <1>1, <1>2, <1>3, <1>4, UndoFails
  <1>5. CASE NotSaved /\ ~Missing /\ At("saveRestored") /\ UNCHANGED <<mem, outcome>>
    <2>1. Back(item)
      BY <1>1, <1>5, UndoesFacts DEF NotSaved, Missing, Tells, Place
    <2>2. Intact' /\ Tells(m)'
      BY <1>1, <1>3, UndoesFacts, SameIsIntact
    <2>3. Tells(mem)'
      BY <1>2, <1>5, <2>2 DEF Tells, Place, Back
    <2>4. UndoneSoFar'
      BY <1>1, <1>5, <2>1, UndoesFacts DEF UndoneSoFar, Back, At, Cleans
    <2> QED BY <1>1, <1>5, <2>2, <2>3, <2>4, UndoesFacts, UndoGoesOn DEF At, Undoes, Pending
  <1> QED BY <1>4, <1>5 DEF UndoNothing

LEMMA SaveRestoringKeeps ==
    ASSUME IInv, SaveRestoring
    PROVE  IInv'
  <1>1. /\ pc = "undo" /\ pc \in Undoes /\ ~Done /\ ~NotSaved
        /\ UNCHANGED <<live, saved, staged, before>>
    BY DEF SaveRestoring, Undoes
  <1>2. PICK m : m = Marked("Restoring")
    OBVIOUS
  <1>3. /\ m \in Journals /\ ~m.committed
        /\ m.original = mem.original
        /\ \A i \in Items : m.states[i] = IF i = item THEN "Restoring" ELSE mem.states[i]
    BY <1>1, <1>2, UndoesFacts, MarkedType DEF ItemStates
  <1>4. saved[item] = before[item] /\ item \in Items
    <2>1. mem.states[item] \in {"Preserving", "Installing", "Restoring"}
      BY <1>1, UndoesFacts DEF Done, Journals, ItemStates
    <2> QED BY <1>1, <2>1, UndoesFacts DEF NotSaved, Tells, Place, Back
  <1>5. Tells(m)
    BY <1>1, <1>3, <1>4, UndoesFacts DEF Tells, Place
  <1>6. CASE Save(m) /\ At("remove") /\ UNCHANGED outcome
    <2>1. /\ mem' = m /\ journal' = m /\ pc' = "remove"
          /\ UNCHANGED <<live, saved, staged, before, task, item, again, outcome>>
      BY <1>1, <1>6 DEF Save, At
    <2>2. Intact' /\ Tells(m)'
      BY <1>1, <1>5, <2>1, UndoesFacts, SavedIsIntact
    <2>3. Tells(mem)' /\ Pending'
      BY <2>1, <2>2, NoJournalAssumption DEF Tells, Place, Back, Pending
    <2>4. UndoneSoFar'
      BY <1>1, <1>3, <1>4, <2>1, <2>3, UndoesFacts DEF UndoneSoFar, Back, Cleans
    <2> QED BY <1>1, <1>4, <2>1, <2>2, <2>3, <2>4, UndoGoesOn DEF Undoes
  <1>7. CASE MayHaveSaved(m) /\ Fails(m)
    BY <1>1, <1>5, <1>7, UndoFails DEF MayHaveSaved
  <1> QED BY <1>2, <1>6, <1>7 DEF SaveRestoring, RestoringMark

\* While the journal says Restoring and the copy is there, the item's place may be anything.
LEMMA RestoringIsIntact ==
    ASSUME IInv, pc \in {"remove", "putBack"}, UNCHANGED <<journal, staged, before>>,
           live' \in [Items -> Versions \cup {Absent, Torn}],
           saved' \in [Items -> Versions \cup {Absent}],
           \A i \in Items : i # item => live'[i] = live[i] /\ saved'[i] = saved[i],
           saved'[item] = before[item] \/ (live'[item] = before[item] /\ saved'[item] = Absent)
    PROVE  Intact' /\ Pending' /\ (\A m : Tells(m) /\ m.states[item] = "Restoring" => Tells(m)')
  <1>1. /\ item \in Items /\ Pending /\ journal.states[item] = "Restoring"
    BY UndoesFacts DEF UndoneSoFar, Undoes
  <1>2. ASSUME NEW m, Tells(m), m.states[item] = "Restoring"
        PROVE  Tells(m)'
    <2>1. PICK k \in Items : k = item
      BY <1>1
    <2>2. Place(k, m.states[k])'
      BY <1>2, <2>1 DEF Place, Back
    <2> QED BY <1>2, <2>1, <2>2, MovedTells
  <1>3. PICK j : j = journal
    OBVIOUS
  <1>4. Tells(j)'
    BY <1>1, <1>2, <1>3 DEF IInv, Disk
  <1>5. Tells(journal)' /\ Pending'
    BY <1>1, <1>3, <1>4 DEF Tells, Place, Back, Pending
  <1>6. NoOrphans' /\ Undoable'
    BY <1>5 DEF NoOrphans, Undoable, Pending
  <1> QED BY <1>2, <1>5, <1>6 DEF Intact, IInv, TypeOK

LEMMA RemoveKeeps ==
    ASSUME IInv, Remove
    PROVE  IInv'
  <1>1. pc = "remove" /\ pc \in Undoes /\ UNCHANGED <<saved, journal, staged, before>>
    BY DEF Remove, Undoes
  <1>2. /\ mem.states[item] = "Restoring" /\ journal.states[item] = "Restoring" /\ Pending
        /\ saved[item] = before[item] /\ item \in Items
        /\ Tells(mem)
    BY <1>1, UndoesFacts DEF UndoneSoFar
  <1>3. /\ live' \in [Items -> Versions \cup {Absent, Torn}]
        /\ \A i \in Items : i # item => live'[i] = live[i]
    BY <1>2 DEF Remove, IInv, TypeOK
  <1>4. PICK m : m = mem
    OBVIOUS
  <1>5. Intact' /\ Pending' /\ Tells(m)'
    BY <1>1, <1>2, <1>3, <1>4, RestoringIsIntact DEF IInv, TypeOK
  <1>6. CASE Fails(mem)
    BY <1>2, <1>4, <1>5, <1>6, FailsKeeps DEF Tells, IInv, TypeOK
  <1>7. CASE /\ live' = [live EXCEPT ![item] = Absent]
             /\ At("putBack")
             /\ UNCHANGED <<mem, outcome>>
    <2>1. Tells(mem)'
      BY <1>4, <1>5, <1>7 DEF Tells, Place, Back
    <2>2. live'[item] = Absent
      BY <1>2, <1>7 DEF IInv, TypeOK
    <2>3. \A i \in Items : item < i => Back(i)'
      BY <1>1, <1>2, <1>3, UndoesFacts DEF UndoneSoFar, Back, Items
    <2>4. UndoneSoFar'
      BY <1>1, <1>2, <1>5, <1>7, <2>2, <2>3 DEF UndoneSoFar, At, Cleans
    <2> QED BY <1>1, <1>2, <1>5, <1>7, <2>1, <2>4, UndoGoesOn DEF At, Undoes
  <1> QED BY <1>6, <1>7 DEF Remove

LEMMA PutBackKeeps ==
    ASSUME IInv, PutBack
    PROVE  IInv'
  <1>1. pc = "putBack" /\ pc \in Undoes /\ UNCHANGED <<journal, staged, before>>
    BY DEF PutBack, Undoes
  <1>2. /\ mem.states[item] = "Restoring" /\ journal.states[item] = "Restoring" /\ Pending
        /\ saved[item] = before[item] /\ live[item] = Absent /\ item \in Items
        /\ Tells(mem)
        /\ mem.original[item] <=> before[item] # Absent
    BY <1>1, UndoesFacts DEF UndoneSoFar, Tells
  <1>3. PICK m : m = mem
    OBVIOUS
  <1>4. CASE mem.original[item] /\ Fails(mem) /\ UNCHANGED <<live, saved>>
    BY <1>1, <1>2, <1>3, <1>4, UndoFails
  <1>5. CASE /\ IF mem.original[item]
                THEN /\ live' = [live EXCEPT ![item] = saved[item]]
                     /\ saved' = [saved EXCEPT ![item] = Absent]
                ELSE UNCHANGED <<live, saved>>
             /\ At("saveRestored")
             /\ UNCHANGED <<mem, outcome>>
    <2>1. /\ live'[item] = before[item] /\ saved'[item] = Absent
          /\ \A i \in Items : i # item => live'[i] = live[i] /\ saved'[i] = saved[i]
      BY <1>2, <1>5 DEF IInv, TypeOK
    <2>2. /\ live' \in [Items -> Versions \cup {Absent, Torn}]
          /\ saved' \in [Items -> Versions \cup {Absent}]
      BY <1>2, <1>5 DEF IInv, TypeOK
    <2>3. Intact' /\ Pending' /\ Tells(m)'
      BY <1>1, <1>2, <1>3, <2>1, <2>2, RestoringIsIntact
    <2>4. Tells(mem)'
      BY <1>3, <1>5, <2>3 DEF Tells, Place, Back
    <2>5. \A i \in Items : item < i => Back(i)'
      BY <1>1, <1>2, <2>1, UndoesFacts DEF UndoneSoFar, Back, Items
    <2>6. UndoneSoFar'
      BY <1>1, <1>5, <2>1, <2>5 DEF UndoneSoFar, At, Cleans, Back
    <2> QED BY <1>1, <1>2, <1>5, <2>3, <2>4, <2>6, UndoGoesOn DEF At, Undoes
  <1> QED BY <1>4, <1>5 DEF PutBack

LEMMA SaveRestoredKeeps ==
    ASSUME IInv, SaveRestored
    PROVE  IInv'
  <1>1. pc = "saveRestored" /\ pc \in Undoes /\ UNCHANGED <<live, saved, staged, before>>
    BY DEF SaveRestored, Undoes
  <1>2. PICK m : m = Marked("Restored")
    OBVIOUS
  <1>3. /\ m \in Journals /\ ~m.committed
        /\ m.original = mem.original
        /\ \A i \in Items : m.states[i] = IF i = item THEN "Restored" ELSE mem.states[i]
    BY <1>1, <1>2, UndoesFacts, MarkedType DEF ItemStates
  <1>4. Back(item) /\ \A i \in Items : item < i => Back(i)
    BY <1>1, UndoesFacts DEF UndoneSoFar
  <1>5. Tells(m)
    BY <1>1, <1>3, <1>4, UndoesFacts DEF Tells, Place
  <1>6. CASE Save(m) /\ Undone
    <2>1. mem' = m /\ journal' = m
      BY <1>6 DEF Save
    <2>2. Intact' /\ Tells(m)'
      BY <1>1, <1>5, <2>1, UndoesFacts, SavedIsIntact
    <2>3. Tells(mem)' /\ Pending'
      BY <2>1, <2>2, NoJournalAssumption DEF Tells, Place, Back, Pending
    <2> QED BY <1>1, <1>4, <1>6, <2>2, <2>3, UndoneGoesOn
  <1>7. CASE MayHaveSaved(m) /\ Fails(m)
    BY <1>1, <1>5, <1>7, UndoFails DEF MayHaveSaved
  <1> QED BY <1>2, <1>6, <1>7 DEF SaveRestored

-----------------------------------------------------------------------------
\* Cleanup.  A cleanup after a rollback finds every item back; the others belong to a
\* committed journal.
LEMMA CleansFacts ==
    ASSUME IInv, pc \in Cleans
    PROVE  /\ task \in Tasks \ {"none"}
           /\ Reverting => /\ \A i \in Items : Back(i)
                           /\ Tells(mem) /\ Undoable
                           /\ task = "recover" => Pending
           /\ ~Reverting => /\ mem = journal /\ CommittedOnDisk
                            /\ mem.committed
                            /\ task = "restore" => live = before /\ item = 1
  <1>1. task \in Tasks \ {"none"} /\ pc \notin Installs
    BY DEF IInv, TypeOK, Phases, Cleans, Installs
  <1>2. CASE Reverting
    BY <1>1, <1>2 DEF IInv, Undoing, UndoneSoFar, Reverting
  <1>3. CASE ~Reverting
    BY <1>1, <1>3 DEF IInv, Preparing, Cleaning, Reverting, Tasks, CommittedOnDisk
  <1> QED BY <1>1, <1>2, <1>3

\* The directory is still sound, or undoable, after a step of the cleanup.
LEMMA CleansIntact ==
    ASSUME IInv, pc \in Cleans, UNCHANGED <<live, staged, before>>,
           \A i \in Items : saved'[i] \in {saved[i], Absent},
           saved' \in [Items -> Versions \cup {Absent}],
           \/ UNCHANGED journal
           \/ journal' = NoJournal /\ \A i \in Items : saved'[i] = Absent
    PROVE  /\ Reverting => Intact' /\ (\A m : Tells(m) => Tells(m)')
           /\ ~Reverting => Sound'
  <1>1. NoOrphans'
    BY DEF IInv, Disk, NoOrphans
  <1>2. CASE Reverting
    <2>1. \A i \in Items : Back(i) /\ saved'[i] = saved[i]
      BY <1>2, CleansFacts DEF Back
    <2>2. \A m : Tells(m) => Tells(m)'
      BY <2>1 DEF Tells, Place, Back
    <2>3. Pending' => Tells(journal)'
      BY <2>1 DEF IInv, Disk, Tells, Place, Back, Pending
    <2>4. Undoable'
      <3>1. CASE journal' = NoJournal
        BY <2>1, <3>1 DEF Undoable, Back
      <3>2. CASE UNCHANGED journal
        BY <1>2, <2>1, <3>2, CleansFacts DEF Undoable, Pending, CommittedOnDisk, Back
      <3> QED BY <3>1, <3>2
    <2> QED BY <1>1, <1>2, <2>2, <2>3, <2>4 DEF Intact, IInv, TypeOK
  <1>3. CASE ~Reverting
    <2>1. ~Pending /\ ~Pending'
      BY <1>3, CleansFacts DEF CommittedOnDisk, Pending
    <2>2. live \in [Items -> Versions \cup {Absent}]
      BY <1>3, <2>1, CleansFacts DEF IInv, Disk, Undecided, Reverting, TypeOK
    <2> QED BY <1>1, <1>3, <2>1, <2>2 DEF Sound, IInv, TypeOK
  <1> QED BY <1>2, <1>3

\* A cleanup that fails leaves the lease, or makes the rollback or the recovery fail.
LEMMA CleanupFailsKeeps ==
    ASSUME IInv, pc \in Cleans, CleanupFails,
           Reverting => Intact' /\ (\A m : Tells(m) => Tells(m)'),
           ~Reverting => Sound'
    PROVE  IInv'
  <1>1. CASE Reverting
    <2>1. PICK m : m = mem
      OBVIOUS
    <2>2. Tells(m) /\ ~m.committed
      BY <1>1, <2>1, CleansFacts DEF Tells
    <2>3. Fails(m)
      BY <1>1, <2>1 DEF CleanupFails, Reverting
    <2> QED BY <1>1, <2>2, <2>3, FailsKeeps DEF IInv, TypeOK
  <1>2. CASE ~Reverting
    <2>1. task # "rollback"
      BY <1>2 DEF Reverting
    <2>2. /\ task' = "none" /\ pc' \in {"open", "down"} /\ mem' = NoJournal /\ item' = 1
          /\ outcome' = outcome
      BY <2>1 DEF CleanupFails, Fails, Released, StartupError
    <2>3. again' \in BOOLEAN
      BY <2>1 DEF CleanupFails, Fails, Released, IInv, TypeOK
    <2> QED BY <1>2, <2>2, <2>3, IdleKeeps DEF IInv, TypeOK
  <1> QED BY <1>1, <1>2

LEMMA SweepKeeps ==
    ASSUME IInv, Sweep
    PROVE  IInv'
  <1>1. pc = "sweep" /\ pc \in Cleans /\ UNCHANGED <<live, journal, staged, before>>
    BY DEF Sweep, Cleans
  <1>2. /\ \A i \in Items : saved'[i] \in {saved[i], Absent}
        /\ saved' \in [Items -> Versions \cup {Absent}]
    BY DEF Sweep, Emptied, IInv, TypeOK
  <1>3. /\ Reverting => Intact' /\ (\A m : Tells(m) => Tells(m)')
        /\ ~Reverting => Sound'
    BY <1>1, <1>2, CleansIntact
  <1>4. CASE CleanupFails
    BY <1>1, <1>3, <1>4, CleanupFailsKeeps
  <1>5. CASE Emptied /\ At("forget") /\ UNCHANGED <<mem, outcome>>
    <2>1. \A i \in Items : saved'[i] = Absent
      BY <1>5 DEF Emptied
    <2>2. pc' = "forget" /\ UNCHANGED <<task, item, again, mem, outcome>>
      BY <1>5 DEF At
    <2>3. TypeOK'
      BY <1>1, <1>2, <2>2 DEF IInv, TypeOK, Steps
    <2>4. Phases' /\ Preparing' /\ Installing' /\ Cleaning'
      BY <1>1, <2>1, <2>2 DEF IInv, Phases, Preparing, Installing, Installs, Undoes, Cleans,
         Cleaning, Reverting, CommittedOnDisk
    <2>5. CASE Reverting
      <3>1. PICK m : m = mem
        OBVIOUS
      <3>2. Tells(mem)'
        BY <1>3, <2>2, <2>5, <3>1, CleansFacts, <1>1 DEF Tells, Place, Back
      <3>3. Disk'
        BY <1>1, <1>3, <2>2, <2>5, CleansFacts DEF Disk, Intact, Undecided, Reverting, Pending
      <3>4. UndoneSoFar'
        BY <1>1, <2>1, <2>2, <2>5, CleansFacts DEF UndoneSoFar, Back, Cleans
      <3>5. Undoing'
        BY <1>1, <1>3, <2>2, <2>5, <3>2, <3>4, CleansFacts DEF Undoing, Intact, Pending
      <3> QED BY <2>3, <2>4, <3>3, <3>5 DEF IInv
    <2>6. CASE ~Reverting
      BY <1>3, <2>2, <2>3, <2>4, <2>6 DEF IInv, Disk, Sound, Undoing, Undecided, Reverting
    <2> QED BY <2>5, <2>6
  <1> QED BY <1>4, <1>5 DEF Sweep

LEMMA ForgetKeeps ==
    ASSUME IInv, Forget
    PROVE  IInv'
  <1>1. /\ pc = "forget" /\ pc \in Cleans /\ UNCHANGED <<live, saved, staged, before>>
        /\ \A i \in Items : saved[i] = Absent
    BY DEF Forget, Cleans, IInv, Phases
  <1>2. UNCHANGED journal \/ journal' = NoJournal
    BY DEF Forget
  <1>3. /\ Reverting => Intact' /\ (\A m : Tells(m) => Tells(m)')
        /\ ~Reverting => Sound'
    BY <1>1, <1>2, CleansIntact DEF IInv, TypeOK
  <1>4. Sound'
    <2>1. Intact' => Sound'
      BY IntactIsSound, PTL
    <2> QED BY <1>3, <2>1
  <1>5. CASE CleanupFails
    BY <1>1, <1>3, <1>5, CleanupFailsKeeps
  <1>6. CASE Released /\ outcome' \in {outcome, "rolled back"}
    <2>1. again' \in BOOLEAN
      BY <1>6 DEF Released
    <2> QED BY <1>4, <1>6, <2>1, IdleKeeps DEF Released, IInv, TypeOK, Outcomes
  <1>7. CASE /\ journal' = NoJournal
             /\ task = "restore" /\ At("create") /\ UNCHANGED <<mem, outcome>>
    <2>1. pc' = "create" /\ UNCHANGED <<task, item, again, mem, outcome>>
      BY <1>7 DEF At
    <2>2. live = before /\ item = 1 /\ ~Reverting
      BY <1>1, <1>7, CleansFacts DEF Reverting
    <2>3. TypeOK' /\ Disk'
      BY <1>1, <1>4, <1>7, <2>1 DEF IInv, TypeOK, Steps, Disk, Sound, Undecided
    <2>4. Phases' /\ Preparing' /\ Installing' /\ Undoing' /\ Cleaning'
      BY <1>1, <1>7, <2>1, <2>2 DEF Phases, Preparing, Installing, Installs, Undoing, Reverting,
         Cleaning, Cleans
    <2> QED BY <2>3, <2>4 DEF IInv
  <1> QED BY <1>5, <1>6, <1>7 DEF Forget

-----------------------------------------------------------------------------
\* The process.
LEMMA IdleIsSound ==
    ASSUME IInv, UNCHANGED <<saved, journal, staged, before>>, UNCHANGED live
    PROVE  Sound'
  <1>1. ~Pending => live \in [Items -> Versions \cup {Absent}]
    <2>1. CASE ~Undecided
      BY <2>1 DEF IInv, Disk
    <2>2. CASE task = "restore" /\ ~Pending
      BY <2>2 DEF IInv, TypeOK, Preparing, Phases, Installing, Undoes, Cleans
    <2>3. CASE task = "rollback" /\ ~Pending
      BY <2>3 DEF IInv, TypeOK, Undoing, Reverting, Undoable, Back
    <2> QED BY <2>1, <2>2, <2>3 DEF Undecided
  <1>2. Pending' => Tells(journal)'
    BY DEF IInv, Disk, Tells, Place, Back, Pending
  <1> QED BY <1>1, <1>2 DEF Sound, IInv, TypeOK, Disk, Pending, NoOrphans

LEMMA ExitKeeps ==
    ASSUME IInv, Exit
    PROVE  IInv'
  <1>1. Sound'
    BY IdleIsSound DEF Exit, disk, history
  <1>2. again' \in BOOLEAN
    BY DEF Exit
  <1> QED BY <1>1, <1>2, IdleKeeps DEF Exit, IInv, TypeOK, history

LEMMA IdleFacts ==
    ASSUME IInv, pc \in {"down", "startup", "open"}
    PROVE  task = "none" /\ item = 1
  <1>1. task = "none"
    BY DEF IInv, TypeOK, Tasks, Phases, Installs, Undoes, Cleans
  <1> QED BY <1>1 DEF IInv, Preparing

LEMMA LaunchKeeps ==
    ASSUME IInv, Launch
    PROVE  IInv'
  <1>1. pc' = "startup" /\ task = "none"
    BY IdleFacts DEF Launch
  <1>2. UNCHANGED <<live, saved, journal, staged, before, outcome, mem, task, item, again>>
    BY DEF Launch, disk, history
  <1>3. Sound'
    BY <1>2, IdleIsSound
  <1>4. TypeOK' /\ Disk'
    BY <1>1, <1>2, <1>3 DEF IInv, TypeOK, Steps, Disk, Sound, Undecided
  <1>5. Phases' /\ Preparing' /\ Installing' /\ Undoing' /\ Cleaning'
    BY <1>1, <1>2 DEF IInv, Phases, Preparing, Installing, Installs, Undoing, Reverting, Cleaning, Cleans
  <1> QED BY <1>4, <1>5 DEF IInv

LEMMA WriteKeeps ==
    ASSUME IInv, NEW k \in Items, NEW v \in Versions, Write(k, v)
    PROVE  IInv'
  <1>1. /\ pc = "open" /\ task = "none" /\ ~Pending
        /\ UNCHANGED <<saved, journal, mem, task, pc, item, again, staged, before, outcome>>
    BY IdleFacts DEF Write, control, history
  <1>2. live' \in [Items -> Versions \cup {Absent}]
    BY <1>1 DEF Write, IInv, Disk, Undecided
  <1>3. TypeOK' /\ Disk'
    BY <1>1, <1>2 DEF IInv, TypeOK, Disk, Pending, Undecided, NoOrphans
  <1>4. Phases' /\ Preparing' /\ Installing' /\ Undoing' /\ Cleaning'
    BY <1>1 DEF IInv, Phases, Preparing, Installing, Installs, Undoing, Reverting, Cleaning, Cleans
  <1> QED BY <1>3, <1>4 DEF IInv

LEMMA StartupKeeps ==
    ASSUME IInv, Startup
    PROVE  IInv'
  <1>1. /\ pc = "startup" /\ task = "none" /\ item = 1
        /\ UNCHANGED <<live, saved, journal, staged, before, outcome>>
    BY IdleFacts DEF Startup, disk
  <1>2. Sound'
    BY <1>1, IdleIsSound
  <1>3. CASE (At("open") \/ At("down")) /\ UNCHANGED mem
    <2>1. pc' \in {"open", "down"} /\ UNCHANGED <<task, item, again, mem>>
      BY <1>3 DEF At
    <2>2. TypeOK' /\ Disk'
      BY <1>1, <1>2, <2>1 DEF IInv, TypeOK, Steps, Disk, Sound, Undecided
    <2>3. Phases' /\ Preparing' /\ Installing' /\ Undoing' /\ Cleaning'
      BY <1>1, <2>1 DEF IInv, Phases, Preparing, Installing, Installs, Undoing, Reverting, Cleaning, Cleans
    <2> QED BY <2>2, <2>3 DEF IInv
  <1>4. CASE /\ journal # NoJournal
             /\ mem' = journal
             /\ task' = "recover"
             /\ again' = FALSE
             /\ IF OnlyCleansUp
                THEN pc' = "sweep" /\ UNCHANGED item
                ELSE pc' = "undo" /\ item' = N
    <2>1. item' \in Items
      BY <1>1, <1>4, JournalAssumption DEF Items
    <2>2. TypeOK'
      BY <1>1, <1>2, <1>4, <2>1 DEF IInv, TypeOK, Tasks, Steps, Sound
    <2>3. Disk'
      BY <1>2, <1>4 DEF Disk, Sound, Undecided
    <2>4. Phases' /\ Preparing' /\ Installing' /\ Cleaning'
      BY <1>1, <1>4 DEF Phases, Preparing, Installing, Installs, Undoes, Cleans, Cleaning, Reverting,
         OnlyCleansUp, CommittedOnDisk
    <2>5. Undoing'
      <3>1. CASE journal.committed
        BY <1>1, <1>4, <3>1 DEF Undoing, Reverting
      <3>2. CASE ~journal.committed
        <4>1. Pending' /\ Undoable'
          BY <1>1, <1>4, <3>2 DEF Pending, Undoable
        <4>2. Tells(mem)'
          BY <1>1, <1>2, <1>4, <4>1 DEF Sound, Tells, Place, Back
        <4>3. pc' = "undo" /\ \A i \in Items : ~(item' < i)
          BY <1>4, <3>2, JournalAssumption DEF OnlyCleansUp, Items
        <4> QED BY <4>1, <4>2, <4>3 DEF Undoing, UndoneSoFar, Cleans
      <3> QED BY <3>1, <3>2
    <2> QED BY <2>2, <2>3, <2>4, <2>5 DEF IInv
  <1> QED BY <1>3, <1>4 DEF Startup

-----------------------------------------------------------------------------
LEMMA NextKeeps ==
    ASSUME IInv, [Next]_vars
    PROVE  IInv'
  <1>1. CASE Create \/ SavePreserving \/ Preserve \/ SaveInstalling \/ Install
    BY <1>1, CreateKeeps, SavePreservingKeeps, PreserveKeeps, SaveInstallingKeeps, InstallKeeps
  <1>2. CASE Commit \/ \E retry \in BOOLEAN : Reject(retry)
    BY <1>2, CommitKeeps, RejectKeeps
  <1>3. CASE UndoSkip \/ UndoNothing \/ SaveRestoring \/ Remove \/ PutBack \/ SaveRestored
    BY <1>3, UndoSkipKeeps, UndoNothingKeeps, SaveRestoringKeeps, RemoveKeeps, PutBackKeeps,
       SaveRestoredKeeps
  <1>4. CASE Sweep \/ Forget \/ Startup \/ Launch \/ Exit
    BY <1>4, SweepKeeps, ForgetKeeps, StartupKeeps, LaunchKeeps, ExitKeeps
  <1>5. ASSUME NEW snapshot \in [Items -> Versions], Activate(snapshot)
        PROVE  IInv'
    BY <1>5, ActivateKeeps
  <1>6. ASSUME NEW i \in Items, NEW v \in Versions, Validate(i, v) \/ Write(i, v)
        PROVE  IInv'
    BY <1>6, ValidateKeeps, WriteKeeps
  <1>7. CASE UNCHANGED vars
    BY <1>7 DEF vars, IInv, TypeOK, Disk, Tells, Place, Back, Pending, Undecided, NoOrphans,
       Phases, Preparing, CommittedOnDisk, Installing, Installed, Fresh, Undoing, Undoable,
       UndoneSoFar, Reverting, Cleaning
  <1> QED BY <1>1, <1>2, <1>3, <1>4, <1>5, <1>6, <1>7 DEF Next, Work

\* IInv holds in every behaviour: recovery.rs, transaction.rs and startup keep the journal
\* and the data directory in agreement at every step, for any number of items.
THEOREM Invariance == Spec => []IInv
  <1> QED BY InitKeeps, NextKeeps, PTL DEF Spec

\* Every variable keeps its type; rollback()'s index stays within LIVE_ITEMS.
THEOREM TypeCorrect == Spec => []TypeOK
  <1>1. IInv => TypeOK
    BY DEF IInv
  <1> QED BY <1>1, Invariance, PTL

\* Until a restore is decided no item it replaces is lost, and rollback() never fails for a
\* missing original (recovery.rs:108-157).
THEOREM NothingIsLost == Spec => []NothingLost
  <1>1. ASSUME IInv, Undecided, NEW i \in Items
        PROVE  before[i] \in {Absent, live[i], saved[i]}
    <2>1. ASSUME NEW j, Tells(j)
          PROVE  before[i] \in {Absent, live[i], saved[i]}
      BY <2>1 DEF Tells, Place, Back, Journals, ItemStates
    <2>2. CASE Pending
      BY <1>1, <2>1, <2>2 DEF IInv, Disk
    <2>3. CASE task = "restore" /\ ~Pending
      BY <1>1, <2>3 DEF IInv, TypeOK, Preparing, Phases, Installing
    <2>4. CASE task = "rollback"
      BY <1>1, <2>1, <2>4 DEF IInv, Undoing, Reverting
    <2> QED BY <1>1, <2>2, <2>3, <2>4 DEF Undecided
  <1>2. ASSUME IInv, pc = "undo", ~Done
        PROVE  ~Missing
    <2>1. pc \in Undoes
      BY <1>2 DEF Undoes
    <2>2. mem.states[item] \in {"Preserving", "Installing", "Restoring"}
      BY <1>2, <2>1, UndoesFacts DEF Done, Journals, ItemStates
    <2> QED BY <1>2, <2>1, <2>2, UndoesFacts DEF Missing, NotSaved, Tells, Place, Back
  <1>3. IInv => NothingLost
    BY <1>1, <1>2 DEF NothingLost
  <1> QED BY <1>3, Invariance, PTL

\* No copy of the user's data outlives the journal that names it (recovery.rs:167-174).
THEOREM NoOrphansAreLeft == Spec => []NoOrphans
  <1>1. IInv => NoOrphans
    BY DEF IInv, Disk
  <1> QED BY <1>1, Invariance, PTL

-----------------------------------------------------------------------------
\* The refinement of AtomicRestore.
PromiseKept == [Promise!Next]_(Promise!directory)

\* A step in the middle of a restore that takes nothing back and reports nothing, or ends
\* it with one of the two whole directories.
LEMMA UndecidedStep ==
    ASSUME Undecided, UNCHANGED <<staged, before>>, outcome' \in {outcome, "failed"},
           ~Undecided' => live' \in {before, staged}
    PROVE  PromiseKept
  <1> USE DEF PromiseKept, Data, Promise!directory
  <1>1. CASE Undecided' /\ outcome' = outcome
    BY <1>1
  <1>2. CASE Undecided' /\ outcome' = "failed"
    BY <1>2 DEF Promise!Next, Promise!GiveUp
  <1>3. CASE ~Undecided' /\ outcome' = outcome
    BY <1>3 DEF Promise!Next, Promise!Recover
  <1>4. CASE ~Undecided' /\ outcome' = "failed"
    BY <1>4 DEF Promise!Next, Promise!GiveUp
  <1> QED BY <1>1, <1>2, <1>3, <1>4

LEMMA DecidedStep ==
    ASSUME ~Undecided, ~Undecided', UNCHANGED <<live, staged, outcome>>
    PROVE  PromiseKept
  <1>1. Undecided' = Undecided
    BY DEF Undecided
  <1> QED BY <1>1 DEF PromiseKept, Data, Promise!directory

LEMMA UndoableIsWhole ==
    ASSUME IInv, Undoable, ~Pending
    PROVE  live \in {before, staged}
  <1>1. CASE \A i \in Items : live[i] = staged[i]
    BY <1>1 DEF IInv, TypeOK
  <1>2. CASE \A i \in Items : live[i] = before[i]
    BY <1>2 DEF IInv, TypeOK
  <1> QED BY <1>1, <1>2 DEF Undoable, Back

LEMMA BackIsBefore ==
    ASSUME IInv, \A i \in Items : Back(i)
    PROVE  live = before
  BY DEF IInv, TypeOK, Back

LEMMA InstallStep ==
    ASSUME IInv, pc \in Installs, task' \in {"restore", "rollback"},
           UNCHANGED <<staged, before, outcome>>
    PROVE  PromiseKept
  BY InstallsIntact, UndecidedStep DEF Undecided

LEMMA UndoStep ==
    ASSUME IInv, pc \in Undoes, Pending => Pending', Pending \/ UNCHANGED live,
           UNCHANGED <<staged, before>>, outcome' \in {outcome, "failed"}
    PROVE  PromiseKept
  <1>1. Undecided
    BY UndoesFacts DEF Undecided
  <1>2. ~Undecided' => live' \in {before, staged}
    BY UndoesFacts, UndoableIsWhole DEF Undecided
  <1> QED BY <1>1, <1>2, UndecidedStep

\* create() failing, a cleanup of the previous restore failing, or an exit.
LEMMA RestoreEnds ==
    ASSUME IInv, task = "restore", pc \notin Installs, UNCHANGED <<live, staged, before, outcome>>
    PROVE  PromiseKept
  <1>1. live = before
    BY DEF IInv, TypeOK, Phases, Preparing
  <1> QED BY <1>1, UndecidedStep DEF Undecided

\* The steps of a cleanup other than the answer of a rollback.
LEMMA CleanStep ==
    ASSUME IInv, pc \in Cleans, UNCHANGED <<live, staged, before>>,
           outcome' \in {outcome, "failed"}, outcome' = outcome \/ Reverting,
           ~Reverting /\ task # "restore" => ~Undecided'
    PROVE  PromiseKept
  <1>1. CASE Reverting
    <2>1. live = before /\ Undecided
      BY <1>1, CleansFacts, BackIsBefore DEF Reverting, Undecided
    <2> QED BY <2>1, UndecidedStep
  <1>2. CASE ~Reverting /\ task = "restore"
    BY <1>2, RestoreEnds DEF Installs, Cleans
  <1>3. CASE ~Reverting /\ task # "restore"
    <2>1. ~Undecided
      BY <1>3, CleansFacts DEF Undecided, Reverting, CommittedOnDisk, Pending
    <2> QED BY <1>3, <2>1, DecidedStep
  <1> QED BY <1>1, <1>2, <1>3

LEMMA FailsOutcome ==
    ASSUME NEW m, Fails(m)
    PROVE  outcome' \in {outcome, "failed"} /\ task' \in {"rollback", "none"}
  BY DEF Fails, Rollback, Released

LEMMA SweepStep ==
    ASSUME IInv, Sweep
    PROVE  PromiseKept
  <1>1. pc \in Cleans /\ UNCHANGED <<live, journal, staged, before>>
    BY DEF Sweep, Cleans
  <1>2. ASSUME ~Reverting, task # "restore"
        PROVE  ~Undecided' /\ outcome' = outcome
    <2>1. CommittedOnDisk /\ task \in {"commit", "recover"}
      BY <1>1, <1>2, CleansFacts DEF Reverting, Tasks
    <2>2. task' \in {task, "none"} /\ outcome' = outcome
      BY <2>1 DEF Sweep, At, CleanupFails, Fails, Released
    <2> QED BY <1>1, <2>1, <2>2 DEF Undecided, Pending, CommittedOnDisk
  <1>3. outcome' \in {outcome, "failed"} /\ (outcome' = outcome \/ Reverting)
    <2>1. CASE Reverting
      <3>1. PICK m : m = mem
        OBVIOUS
      <3> QED BY <2>1, <3>1, FailsOutcome DEF Sweep, CleanupFails
    <2>2. CASE ~Reverting /\ task = "restore"
      BY <2>2 DEF Sweep, CleanupFails, Fails
    <2>3. CASE ~Reverting /\ task # "restore"
      BY <2>3, <1>2
    <2> QED BY <2>1, <2>2, <2>3
  <1> QED BY <1>1, <1>2, <1>3, CleanStep

LEMMA ForgetStep ==
    ASSUME IInv, Forget
    PROVE  PromiseKept
  <1>1. pc \in Cleans /\ UNCHANGED <<live, saved, staged, before>>
    BY DEF Forget, Cleans
  <1>2. ~Pending => ~Pending'
    BY NoJournalAssumption DEF Forget, Pending
  <1>3. CASE task = "rollback" /\ Released /\ outcome' = "rolled back" /\ journal' = NoJournal
    <2>1. live = before /\ Undecided /\ ~Undecided'
      BY <1>1, <1>3, CleansFacts, BackIsBefore DEF Reverting, Undecided, Pending, Released
    <2> QED BY <1>1, <1>3, <2>1
        DEF PromiseKept, Data, Promise!directory, Promise!Next, Promise!TakeBack
  <1>4. CASE ~(task = "rollback" /\ Released /\ outcome' = "rolled back" /\ journal' = NoJournal)
    <2>1. ASSUME ~Reverting, task # "restore"
          PROVE  ~Undecided' /\ outcome' = outcome
      <3>1. ~Pending /\ task \in {"commit", "recover"}
        BY <1>1, <2>1, CleansFacts DEF Reverting, Tasks, CommittedOnDisk, Pending
      <3>2. task' = "none" /\ outcome' = outcome
        BY <3>1 DEF Forget, At, CleanupFails, Fails, Released
      <3> QED BY <1>2, <3>1, <3>2 DEF Undecided
    <2>2. outcome' \in {outcome, "failed"} /\ (outcome' = outcome \/ Reverting)
      <3>1. CASE Reverting
        <4>1. PICK m : m = mem
          OBVIOUS
        <4> QED BY <1>4, <3>1, <4>1, FailsOutcome DEF Forget, CleanupFails
      <3>2. CASE ~Reverting /\ task = "restore"
        BY <3>2 DEF Forget, CleanupFails, Fails
      <3>3. CASE ~Reverting /\ task # "restore"
        BY <3>3, <2>1
      <3> QED BY <3>1, <3>2, <3>3
    <2> QED BY <1>1, <2>1, <2>2, CleanStep
  <1> QED BY <1>3, <1>4

LEMMA CommitStep ==
    ASSUME IInv, Commit
    PROVE  PromiseKept
  <1>1. pc = "active" /\ pc \in Installs /\ UNCHANGED <<live, saved, staged, before>>
    BY DEF Commit, Installs
  <1>2. CASE task' = "rollback" /\ UNCHANGED outcome
    BY <1>1, <1>2, InstallStep
  <1>3. CASE /\ Save([mem EXCEPT !.committed = TRUE])
             /\ task' = "commit"
             /\ outcome' = "committed"
    <2>1. live = staged
      BY <1>1, ActiveFacts DEF Installed, IInv, TypeOK
    <2>2. Undecided
      BY <1>1, InstallsIntact DEF Undecided
    <2>3. journal'.committed
      BY <1>1, <1>3, InstallsIntact DEF Save, Journals
    <2>4. ~Undecided'
      BY <1>3, <2>3 DEF Undecided, Pending
    <2> QED BY <1>1, <1>3, <2>1, <2>2, <2>4
        DEF PromiseKept, Data, Promise!directory, Promise!Next, Promise!Accept
  <1> QED BY <1>2, <1>3 DEF Commit, Rollback

LEMMA UndoesStep ==
    ASSUME IInv,
           UndoSkip \/ UndoNothing \/ SaveRestoring \/ Remove \/ PutBack \/ SaveRestored
    PROVE  PromiseKept
  <1>1. pc \in Undoes /\ UNCHANGED <<staged, before>>
    BY DEF UndoSkip, UndoNothing, SaveRestoring, Remove, PutBack, SaveRestored, Undoes
  <1>2. outcome' \in {outcome, "failed"}
    BY DEF UndoSkip, UndoNothing, SaveRestoring, Remove, PutBack, SaveRestored, Undone, Fails,
       Rollback, Released
  <1>3. Pending \/ UNCHANGED live
    BY UndoesFacts DEF UndoSkip, UndoNothing, SaveRestoring, Remove, PutBack, SaveRestored,
       UndoneSoFar, Undoes, disk
  <1>4. Pending => Pending'
    <2>1. ASSUME NEW s \in ItemStates, Save(Marked(s)) \/ MayHaveSaved(Marked(s)), Pending
          PROVE  Pending'
      <3>1. Marked(s) \in Journals /\ ~Marked(s).committed
        BY <1>1, UndoesFacts, MarkedType
      <3> QED BY <2>1, <3>1, NoJournalAssumption DEF Save, MayHaveSaved, Pending
    <2>2. CASE UNCHANGED journal
      BY <2>2 DEF Pending
    <2>3. CASE SaveRestoring \/ SaveRestored
      BY <2>1, <2>3 DEF SaveRestoring, SaveRestored, RestoringMark, ItemStates
    <2> QED BY <2>2, <2>3 DEF UndoSkip, UndoNothing, Remove, PutBack, disk
  <1> QED BY <1>1, <1>2, <1>3, <1>4, UndoStep

LEMMA ProcessStep ==
    ASSUME IInv, Launch \/ Startup \/ Exit
    PROVE  PromiseKept
  <1>1. UNCHANGED <<live, saved, journal, staged, before, outcome>>
        /\ task' \in {"none", "recover"}
    BY IdleFacts DEF Launch, Startup, Exit, At, disk, history
  <1>2. CASE ~Undecided
    BY <1>1, <1>2, DecidedStep DEF Undecided, Pending
  <1>3. CASE Undecided
    <2>1. ASSUME ~Pending
          PROVE  live \in {before, staged}
      <3>1. CASE task = "restore"
        BY <2>1, <3>1 DEF IInv, TypeOK, Phases, Preparing, Installing
      <3>2. CASE task = "rollback"
        BY <2>1, <3>2, UndoableIsWhole DEF IInv, Undoing, Reverting
      <3> QED BY <1>3, <2>1, <3>1, <3>2 DEF Undecided
    <2>2. ~Undecided' => live' \in {before, staged}
      BY <1>1, <2>1 DEF Undecided, Pending
    <2> QED BY <1>1, <1>3, <2>2, UndecidedStep
  <1> QED BY <1>2, <1>3

LEMMA NextStep ==
    ASSUME IInv, [Next]_vars
    PROVE  PromiseKept
  <1>1. ASSUME NEW snapshot \in [Items -> Versions], Activate(snapshot)
        PROVE  PromiseKept
    <2>1. ~Undecided /\ Undecided'
      BY <1>1, IdleFacts DEF Activate, Undecided
    <2> QED BY <1>1, <2>1
        DEF Activate, PromiseKept, Data, Promise!directory, Promise!Next, Promise!Begin
  <1>2. CASE Create
    <2>1. pc = "create" /\ task = "restore"
      BY <1>2 DEF Create, IInv, TypeOK, Tasks, Phases, Undoes, Cleans
    <2> QED BY <1>2, <2>1, RestoreEnds DEF Create, history, Installs
  <1>3. CASE SavePreserving \/ Preserve \/ SaveInstalling \/ Install \/ \E r \in BOOLEAN : Reject(r)
    <2>1. pc \in Installs /\ UNCHANGED <<staged, before, outcome>>
      BY <1>3 DEF SavePreserving, Preserve, SaveInstalling, Install, Reject, Rollback, Installs
    <2>2. task' \in {"restore", "rollback"}
      BY <1>3, <2>1, InstallsIntact
      DEF SavePreserving, Preserve, SaveInstalling, Install, Reject, Rollback, At
    <2> QED BY <2>1, <2>2, InstallStep
  <1>4. ASSUME NEW i \in Items, NEW v \in Versions, Validate(i, v)
        PROVE  PromiseKept
    <2>1. Undecided /\ Undecided'
      BY <1>4, InstallsIntact DEF Validate, Undecided, Installs, control
    <2>2. staged' \in [Items -> Versions] /\ UNCHANGED <<before, outcome>>
      BY <1>4 DEF Validate, IInv, TypeOK
    <2> QED BY <2>1, <2>2
        DEF PromiseKept, Data, Promise!directory, Promise!Next, Promise!Validate
  <1>5. ASSUME NEW i \in Items, NEW v \in Versions, Write(i, v)
        PROVE  PromiseKept
    <2>1. ~Undecided /\ ~Undecided' /\ live' = [live EXCEPT ![i] = v]
          /\ UNCHANGED <<staged, outcome>>
      BY <1>5, IdleFacts DEF Write, Undecided, Pending, control, history
    <2>2. Undecided' = Undecided
      BY <2>1 DEF Undecided
    <2> QED BY <2>1, <2>2 DEF PromiseKept, Data, Promise!directory, Promise!Next, Promise!Write
  <1>6. CASE UNCHANGED vars
    BY <1>6 DEF vars, PromiseKept, Data, Undecided, Pending, Promise!directory
  <1> QED BY <1>1, <1>2, <1>3, <1>4, <1>5, <1>6, CommitStep, UndoesStep, SweepStep, ForgetStep,
      ProcessStep DEF Next, Work

\* The journal implements the atomic swap: for any number of items and any contents, through
\* every failure of the file system and every crash, a restore leaves the data before it or
\* the imported data, an accepted one stays, and no write is taken back.
THEOREM RestoreIsAtomic == Spec => ImplementsRestore
  <1>1. Init => Promise!Init
    <2>1. ASSUME Init
          PROVE  ~Undecided
      BY <2>1 DEF Init, Undecided, Pending
    <2> QED BY <2>1 DEF Init, Promise!Init, Data
  <1>2. IInv /\ [Next]_vars => PromiseKept
    BY NextStep
  <1> QED BY <1>1, <1>2, Invariance, PTL DEF Spec, ImplementsRestore, Promise!Spec, PromiseKept
=============================================================================
