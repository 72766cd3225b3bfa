------------------------ MODULE SystemProxy_proofs ------------------------
(***************************************************************************)
(* What SystemProxy guarantees for any network services, endpoints and PAC *)
(* listeners, and any bounds.                                              *)
(***************************************************************************)
EXTENDS SystemProxy, SequenceTheorems, TLAPS

Theirs == On(Foreign)

\* A sequence of commands switches to the other program's proxy only to end there,
\* and only if y is that proxy.
EndsAt(p, y) == \A k \in DOMAIN p : p[k] = Theirs => k = Len(p) /\ y = Theirs

\* The recovery is pending only while an operation may be recovering, and then, as
\* in a transaction, there is an entry for the last service and one for every job.
\* A reconciliation that is about to stage has chosen its endpoint.
EntriesKept ==
    /\ op.pc \in {"recover", "retry", "reobserve"} => recovery
    /\ recovery => op.pc \in {"idle", "stage", "recover", "retry", "reobserve"}
    /\ \/ recovery \/ Entries # {}
       \/ op.pc \in {"apply", "rollback", "undo", "safety", "giveup"}
       => target \in Entries
    /\ jobs # <<>> => op.pc \in Writing
    /\ \A i \in DOMAIN jobs : jobs[i].svc \in Entries
    /\ op.pc = "stage" => op.claim \in Claims

\* What a change or a recovery knows to be another program's proxy is what it found.
EvidenceFound ==
    \A s \in Services :
        Theirs \in undo[s].known \cup {undo[s].observed} => undo[s].prev = Theirs

\* A write that finds another program's proxy finds what the entry found; only a
\* staged change then switches it off, and only a restoration ends there.
JobFound(j) ==
    /\ j.at = Theirs =>
         /\ undo[j.svc].prev = Theirs
         /\ j.path # <<>> => op.pc = "apply" /\ op.kind \in {"enable", "restore"}
    /\ EndsAt(j.path, undo[j.svc].prev)
JobsFound == \A i \in DOMAIN jobs : JobFound(jobs[i])

ProxyInv == TypeOK /\ EntriesKept /\ EvidenceFound /\ JobsFound

-----------------------------------------------------------------------------
(* Settings and commands *)

LEMMA NoStateApart == NoState \notin States /\ Theirs \in States /\ NoState # Theirs
BY ProxyAssumption DEF NoState, States, Addresses, Theirs, On

\* Short sequences of commands.
LEMMA EndsAtShort ==
    ASSUME NEW y, NEW a \in States, NEW b \in States, a # Theirs,
           b = Theirs => y = Theirs
    PROVE  /\ EndsAt(<<>>, y) /\ EndsAt(<<b>>, y) /\ EndsAt(<<a, b>>, y)
           /\ <<>> \in Seq(States) /\ <<b>> \in Seq(States) /\ <<a, b>> \in Seq(States)
BY DEF EndsAt

\* The commands that switch a setting off.
LEMMA SwitchOffTyped ==
    ASSUME NEW x \in States, NEW y
    PROVE  SwitchOff(x) \in Seq(States) /\ EndsAt(SwitchOff(x), y)
<1> DEFINE half == [x EXCEPT !.flag = "half"]
<1>1. /\ Off(x) \in States /\ Off(x) # Theirs
      /\ half \in States /\ half # Theirs
      /\ x.at \in Urls => On(x.at) \in States /\ On(x.at) # Theirs
  BY ProxyAssumption DEF States, Off, On, Theirs, Addresses
<1>2. \/ SwitchOff(x) = <<>>
      \/ SwitchOff(x) = <<Off(x)>>
      \/ SwitchOff(x) = <<half, Off(x)>>
      \/ x.at \in Urls /\ SwitchOff(x) = <<On(x.at), Off(x)>>
  BY DEF SwitchOff, States
<1> HIDE DEF half
<1>3. CASE x.at \in Urls /\ SwitchOff(x) = <<On(x.at), Off(x)>>
  BY <1>1, <1>3, EndsAtShort
<1>4. CASE SwitchOff(x) = <<half, Off(x)>>
  BY <1>1, <1>4, EndsAtShort
<1>5. CASE SwitchOff(x) = <<>> \/ SwitchOff(x) = <<Off(x)>>
  BY <1>1, <1>5, EndsAtShort
<1> QED BY <1>2, <1>3, <1>4, <1>5

\* The commands that set an address.
LEMMA SetAddressTyped ==
    ASSUME NEW x \in States, NEW y \in States, NEW z
    PROVE  SetAddress(x, y) \in Seq(States) /\ EndsAt(SetAddress(x, y), z)
<1> DEFINE first == [at |-> y.at, flag |-> IF y.at \in Urls THEN "on" ELSE "half"]
<1>1. first \in States /\ first # Theirs /\ Off(y) \in States /\ Off(y) # Theirs
  BY ProxyAssumption DEF States, Off, On, Theirs, Addresses
<1>2. SetAddress(x, y) = <<>> \/ SetAddress(x, y) = <<first, Off(y)>>
  BY DEF SetAddress
<1> HIDE DEF first
<1> QED BY <1>1, <1>2, EndsAtShort

\* The commands that switch a setting on.
LEMMA SwitchOnTyped ==
    ASSUME NEW y \in States
    PROVE  SwitchOn(y) \in Seq(States) /\ EndsAt(SwitchOn(y), y)
<1> DEFINE half == [y EXCEPT !.flag = "half"]
<1>1. half \in States /\ half # Theirs
  BY DEF States, On, Theirs
<1>2. SwitchOn(y) = <<>> \/ SwitchOn(y) = <<half, y>> \/ SwitchOn(y) = <<y>>
  BY DEF SwitchOn
<1> HIDE DEF half
<1>3. CASE SwitchOn(y) = <<half, y>>
  BY <1>1, <1>3, EndsAtShort
<1>4. CASE SwitchOn(y) = <<>> \/ SwitchOn(y) = <<y>>
  BY <1>1, <1>4, EndsAtShort
<1> QED BY <1>2, <1>3, <1>4

\* Sequences of commands, one after the other.
LEMMA EndsAtConcat ==
    ASSUME NEW p \in Seq(States), NEW q \in Seq(States), NEW y,
           EndsAt(p, <<>>), EndsAt(q, y)
    PROVE  p \o q \in Seq(States) /\ EndsAt(p \o q, y)
<1>1. <<>> # Theirs
  BY DEF Theirs, On
<1>2. \A k \in DOMAIN p : p[k] # Theirs
  BY <1>1 DEF EndsAt
<1> QED BY <1>2, ConcatProperties DEF EndsAt

LEMMA CommandsTyped ==
    ASSUME NEW x \in States, NEW y \in States
    PROVE  Commands(x, y) \in Seq(States) /\ EndsAt(Commands(x, y), y)
<1> DEFINE p == SwitchOff(x)  q == SetAddress(x, y)  r == SwitchOn(y)
<1>1. CASE x = y
  <2>1. Commands(x, y) = <<>>
    BY <1>1 DEF Commands
  <2>2. <<>> \in Seq(States) /\ EndsAt(<<>>, y)
    BY EmptySeq DEF EndsAt
  <2> QED BY <2>1, <2>2
<1>2. CASE x # y
  <2>1. /\ p \in Seq(States) /\ EndsAt(p, <<>>)
        /\ q \in Seq(States) /\ EndsAt(q, <<>>)
        /\ r \in Seq(States) /\ EndsAt(r, y)
    BY SwitchOffTyped, SetAddressTyped, SwitchOnTyped
  <2>2. Commands(x, y) = (p \o q) \o r
    BY <1>2 DEF Commands
  <2> HIDE DEF p, q, r
  <2>3. p \o q \in Seq(States) /\ EndsAt(p \o q, <<>>)
    BY <2>1, EndsAtConcat
  <2> DEFINE pq == p \o q
  <2>4. pq \o r \in Seq(States) /\ EndsAt(pq \o r, y)
    <3>1. pq \in Seq(States) /\ EndsAt(pq, <<>>)
      BY <2>3
    <3> HIDE DEF pq
    <3> QED BY <2>1, <3>1, EndsAtConcat
  <2> QED BY <2>2, <2>4
<1> QED BY <1>1, <1>2

LEMMA WriteTyped ==
    ASSUME NEW s \in Services, NEW x \in States, NEW y \in States
    PROVE  /\ Write(s, x, y) \in Job
           /\ Write(s, x, y).svc = s /\ Write(s, x, y).at = x
           /\ EndsAt(Write(s, x, y).path, y)
           /\ x = y => Write(s, x, y).path = <<>>
BY CommandsTyped DEF Write, Job, Commands

-----------------------------------------------------------------------------
(* The initial states, and what the steps have in common *)

LEMMA ProxyInit == Init => ProxyInv
<1> SUFFICES ASSUME Init PROVE ProxyInv
  OBVIOUS
<1>1. NoUndo \in [Services -> Entry] /\ \A s \in Services : NoUndo[s].prev = NoState
  BY DEF NoUndo, NoEntry, Entry
<1>2. Idle \in [pc : Pcs, kind : Kinds, claim : Claims \cup {NoClaim}]
  BY DEF Idle, Pcs, Kinds
<1>3. jobs \in Seq(Job)
  BY EmptySeq DEF Init
<1>4. TypeOK
  <2>1. os \in [Services -> States]
    BY DEF Init, States, Addresses
  <2>2. /\ writer \in [Services -> {"us", "foreign"}]
        /\ prefs \in [enabled : BOOLEAN, claim : Claims \cup {NoClaim}]
        /\ spent \in [intrusions : 0..MaxIntrusions, faults : 0..MaxFaults]
    BY ProxyAssumption DEF Init
  <2> QED BY <1>1, <1>2, <1>3, <2>1, <2>2 DEF Init, TypeOK
<1>5. EntriesKept
  BY <1>1 DEF Init, EntriesKept, Entries, Idle
<1>6. EvidenceFound /\ JobsFound
  BY <1>1, NoStateApart DEF Init, EvidenceFound, JobsFound, NoUndo, NoEntry
<1> QED BY <1>4, <1>5, <1>6 DEF ProxyInv

\* Steps that leave the transaction alone, between its writes.
LEMMA UntouchedKeeps ==
    ASSUME ProxyInv, UNCHANGED <<entries, recovery, jobs>>, jobs = <<>>,
           op'.pc = "stage" => op'.claim \in Claims,
           op'.pc \in {"recover", "retry", "reobserve"} => recovery,
           recovery => op'.pc \in {"idle", "stage", "recover", "retry", "reobserve"},
           op'.pc \in {"apply", "rollback", "undo", "safety", "giveup"} => target \in Entries
    PROVE  EntriesKept' /\ EvidenceFound' /\ JobsFound'
<1>1. Entries' = Entries
  BY DEF entries, Entries
<1>2. EntriesKept'
  BY <1>1 DEF ProxyInv, EntriesKept, entries
<1> QED BY <1>2 DEF ProxyInv, EvidenceFound, JobsFound, entries

\* The operation's types, after a step that changes where it is.
LEMMA OpTyped ==
    ASSUME TypeOK, NEW p \in Pcs
    PROVE  [op EXCEPT !.pc = p] \in [pc : Pcs, kind : Kinds, claim : Claims \cup {NoClaim}]
BY DEF TypeOK

LEMMA IdleTyped == Idle \in [pc : Pcs, kind : Kinds, claim : Claims \cup {NoClaim}]
BY DEF Idle, Pcs, Kinds

LEMMA FaultTyped ==
    ASSUME TypeOK, Fault
    PROVE  spent' \in [intrusions : 0..MaxIntrusions, faults : 0..MaxFaults]
BY ProxyAssumption DEF TypeOK, Fault

LEMMA ClaimTyped ==
    ASSUME TypeOK
    PROVE  /\ CurrentClaim \in Claims \cup {NoClaim}
           /\ NoClaim \notin Claims
           /\ \A c \in Claims : /\ c.svc \in Services
                               /\ c.at \in Addresses /\ c.at # Foreign
                               /\ On(c.at) \in States /\ On(c.at) # Theirs
BY ProxyAssumption DEF TypeOK, CurrentClaim, Claims, NoClaim, Addresses, On, States, Theirs

-----------------------------------------------------------------------------
(* How an operation begins *)

\* A new entry holds what its service shows.
LEMMA NewEntryTyped ==
    ASSUME TypeOK, NEW s \in Services
    PROVE  /\ NewEntry(s) \in Entry
           /\ NewEntry(s).prev = os[s] /\ os[s] \in States
           /\ NewEntry(s).known = {os[s]} /\ NewEntry(s).observed = NoState
BY DEF TypeOK, NewEntry, Entry

\* One or two jobs.
LEMMA JobsTyped ==
    ASSUME NEW a \in Job, NEW b \in Job
    PROVE  /\ <<a>> \in Seq(Job) /\ <<a, b>> \in Seq(Job)
           /\ \A i \in DOMAIN <<a>> : <<a>>[i] = a
           /\ \A i \in DOMAIN <<a, b>> : <<a, b>>[i] \in {a, b}
OBVIOUS

LEMMA StageKeeps ==
    ASSUME ProxyInv, NEW c \in Claims, NEW kind \in {"enable", "restore"}, Stage(kind, c),
           UNCHANGED <<native, prefs, accepted, running, retained, recovery, spent>>
    PROVE  ProxyInv'
<1> DEFINE o == CurrentClaim
           change == Write(c.svc, os[c.svc], On(c.at))
           release == Write(o.svc, os[o.svc], Off(os[o.svc]))
<1>1. /\ c.svc \in Services /\ On(c.at) \in States /\ On(c.at) # Theirs
      /\ os[c.svc] \in States
  BY ClaimTyped DEF ProxyInv, TypeOK
<1>2. ASSUME OldService(c) # {}
      PROVE  /\ OldService(c) = {o.svc} /\ o.svc \in Services
             /\ os[o.svc] = On(o.at) /\ os[o.svc] \in States /\ os[o.svc] # Theirs
             /\ Off(os[o.svc]) \in States /\ Off(os[o.svc]) # Theirs
  <2>1. OldService(c) = {o.svc} /\ Matches(o)
    BY <1>2 DEF OldService
  <2>2. o \in Claims /\ os[o.svc] = On(o.at)
    BY <2>1, ClaimTyped DEF Matches, ProxyInv
  <2>3. o.svc \in Services /\ On(o.at) \in States /\ On(o.at) # Theirs
    BY <2>2, ClaimTyped DEF ProxyInv
  <2>4. Off(On(o.at)) \in States /\ Off(On(o.at)) # Theirs
    BY <2>3 DEF Off, On, States, Theirs
  <2> QED BY <2>1, <2>2, <2>3, <2>4
<1>3. OldService(c) \subseteq Services
  BY <1>2
<1>4. /\ undo' \in [Services -> Entry]
      /\ \A s \in OldService(c) \cup {c.svc} :
           undo'[s].prev = os[s] /\ undo'[s].known = {os[s]} /\ undo'[s].observed = NoState
      /\ \A s \in Services \ (OldService(c) \cup {c.svc}) : undo'[s] = NoEntry
  BY <1>1, <1>3, NewEntryTyped DEF Stage, ProxyInv, NoEntry, Entry
<1>5. Entries' = OldService(c) \cup {c.svc} /\ c.svc \in Entries'
  BY <1>1, <1>3, <1>4, NoStateApart DEF Entries, NoEntry, ProxyInv, TypeOK
<1>6. target' = c.svc /\ op' = [pc |-> "apply", kind |-> kind, claim |-> c] /\ recovery' = FALSE
  BY DEF Stage, ProxyInv, TypeOK
<1>7. /\ change \in Job /\ change.svc = c.svc /\ change.at = os[c.svc]
      /\ EndsAt(change.path, undo'[c.svc].prev)
  <2>1. EndsAt(change.path, On(c.at)) /\ change \in Job /\ change.svc = c.svc
        /\ change.at = os[c.svc]
    BY <1>1, WriteTyped
  <2> QED BY <1>1, <2>1 DEF EndsAt
<1>8. ASSUME OldService(c) # {}
      PROVE  /\ release \in Job /\ release.svc = o.svc /\ release.at # Theirs
             /\ EndsAt(release.path, undo'[o.svc].prev)
  <2>1. EndsAt(release.path, Off(os[o.svc])) /\ release \in Job /\ release.svc = o.svc
        /\ release.at = os[o.svc]
    BY <1>2, <1>8, WriteTyped
  <2> QED BY <1>2, <1>8, <2>1 DEF EndsAt
<1>9. /\ OldService(c) = {} => jobs' = <<change>>
      /\ OldService(c) # {} => jobs' = <<release, change>>
  BY DEF Stage
<1> HIDE DEF change, release, o
<1>10. /\ jobs' \in Seq(Job)
       /\ \A i \in DOMAIN jobs' :
            jobs'[i] = change \/ (OldService(c) # {} /\ jobs'[i] = release)
  <2>1. CASE OldService(c) = {}
    <3>1. jobs' = <<change>>
      BY <1>9, <2>1
    <3> QED BY <1>7, <3>1, JobsTyped
  <2>2. CASE OldService(c) # {}
    <3>1. jobs' = <<release, change>> /\ release \in Job
      BY <1>8, <1>9, <2>2
    <3> QED BY <1>7, <2>2, <3>1, JobsTyped
  <2> QED BY <2>1, <2>2
<1>11. TypeOK'
  <2>1. op' \in [pc : Pcs, kind : Kinds, claim : Claims \cup {NoClaim}]
    BY <1>6 DEF Pcs, Kinds
  <2>2. minted' \subseteq Urls
    BY DEF Stage, ProxyInv, TypeOK
  <2> QED BY <1>1, <1>4, <1>6, <1>10, <2>1, <2>2 DEF ProxyInv, TypeOK, native
<1>12. EntriesKept'
  BY <1>2, <1>5, <1>6, <1>7, <1>8, <1>10 DEF EntriesKept, Writing
<1>13. EvidenceFound'
  BY <1>4, NoStateApart DEF EvidenceFound, NoEntry
<1>14. JobsFound'
  <2> SUFFICES ASSUME NEW i \in DOMAIN jobs' PROVE JobFound(jobs[i])'
    BY DEF JobsFound
  <2>1. CASE jobs'[i] = change
    BY <1>4, <1>6, <1>7, <2>1 DEF JobFound
  <2>2. CASE OldService(c) # {} /\ jobs'[i] = release
    BY <1>8, <2>2 DEF JobFound
  <2> QED BY <1>10, <2>1, <2>2
<1> QED BY <1>11, <1>12, <1>13, <1>14 DEF ProxyInv

LEMMA EnableKeeps ==
    ASSUME ProxyInv, NEW c \in Claims, Enable(c)
    PROVE  ProxyInv'
BY StageKeeps DEF Enable

LEMMA ReconcileKeeps ==
    ASSUME ProxyInv, NEW c \in Claims, Reconcile(c)
    PROVE  ProxyInv'
<1>1. jobs = <<>>
  BY DEF ProxyInv, EntriesKept, Reconcile, Writing
<1>2. TypeOK'
  BY DEF ProxyInv, TypeOK, Reconcile, native, pac, entries, Pcs, Kinds
<1> QED BY <1>1, <1>2, UntouchedKeeps DEF ProxyInv, Reconcile

LEMMA ReconcileStagesKeeps ==
    ASSUME ProxyInv, ReconcileStages
    PROVE  ProxyInv'
<1>1. jobs = <<>>
  BY DEF ProxyInv, EntriesKept, ReconcileStages, Writing
<1>2. CASE Stage("restore", op.claim)
  <2>1. op.claim \in Claims
    BY DEF ProxyInv, EntriesKept, ReconcileStages
  <2> QED BY <1>2, <2>1, StageKeeps DEF ReconcileStages
<1>3. CASE op' = Idle /\ UNCHANGED <<entries, minted, jobs>>
  <2>1. TypeOK'
    BY <1>3, IdleTyped DEF ProxyInv, TypeOK, ReconcileStages, native, entries
  <2> QED BY <1>1, <1>3, <2>1, UntouchedKeeps DEF ProxyInv, ReconcileStages, Idle
<1> QED BY <1>2, <1>3 DEF ReconcileStages

LEMMA BeginReleaseKeeps ==
    ASSUME ProxyInv, NEW kind \in {"disable", "release"}, BeginRelease(kind)
    PROVE  ProxyInv'
<1>1. jobs = <<>>
  BY DEF ProxyInv, EntriesKept, BeginRelease, Writing
<1>2. TypeOK'
  BY DEF ProxyInv, TypeOK, BeginRelease, native, pac, entries, Pcs, Kinds
<1>3. UNCHANGED <<entries, recovery, jobs>> /\ op'.pc = IF recovery THEN "recover" ELSE "claim"
  BY DEF BeginRelease
<1> QED BY <1>1, <1>2, <1>3, UntouchedKeeps DEF ProxyInv

LEMMA StageReleaseKeeps ==
    ASSUME ProxyInv, StageRelease
    PROVE  ProxyInv'
<1> DEFINE c == CurrentClaim
           write == Write(c.svc, os[c.svc], Off(os[c.svc]))
<1>1. jobs = <<>> /\ ~recovery /\ op.pc = "claim"
  BY DEF ProxyInv, EntriesKept, StageRelease, Writing
<1>2. CASE ReleaseMatched
  <2>1. c \in Claims /\ os[c.svc] = On(c.at)
    BY <1>2, ClaimTyped DEF ReleaseMatched, Matches, ProxyInv
  <2>2. /\ c.svc \in Services /\ os[c.svc] \in States /\ os[c.svc] # Theirs
        /\ Off(os[c.svc]) \in States /\ Off(os[c.svc]) # Theirs
    <3>1. c.svc \in Services /\ On(c.at) \in States /\ On(c.at) # Theirs
      BY <2>1, ClaimTyped DEF ProxyInv
    <3>2. Off(On(c.at)) \in States /\ Off(On(c.at)) # Theirs
      BY <3>1 DEF Off, On, States, Theirs
    <3> QED BY <2>1, <3>1, <3>2
  <2>3. /\ write \in Job /\ write.svc = c.svc /\ write.at = os[c.svc]
        /\ EndsAt(write.path, Off(os[c.svc]))
    BY <2>2, WriteTyped
  <2>4. /\ undo' = [NoUndo EXCEPT ![c.svc] = NewEntry(c.svc)]
        /\ target' = c.svc /\ jobs' = <<write>> /\ op' = [op EXCEPT !.pc = "apply"]
    BY <1>2 DEF ReleaseMatched
  <2>5. /\ undo' \in [Services -> Entry]
        /\ undo'[c.svc].prev = os[c.svc] /\ undo'[c.svc].known = {os[c.svc]}
        /\ undo'[c.svc].observed = NoState
        /\ \A s \in Services \ {c.svc} : undo'[s] = NoEntry
    BY <2>2, <2>4, NewEntryTyped DEF ProxyInv, NoUndo, NoEntry, Entry
  <2>6. Entries' = {c.svc}
    BY <2>2, <2>5, NoStateApart DEF Entries, NoEntry
  <2> HIDE DEF write, c
  <2>7. jobs' \in Seq(Job) /\ \A i \in DOMAIN jobs' : jobs'[i] = write
    BY <2>3, <2>4, JobsTyped
  <2>8. TypeOK'
    <3>1. op' \in [pc : Pcs, kind : Kinds, claim : Claims \cup {NoClaim}]
      BY <2>4, OpTyped DEF ProxyInv, Pcs
    <3> QED BY <1>2, <2>2, <2>4, <2>5, <2>7, <3>1
            DEF ProxyInv, TypeOK, StageRelease, ReleaseMatched, native
  <2>9. EntriesKept'
    <3>1. op'.pc = "apply" /\ recovery' = FALSE
      BY <1>1, <2>4 DEF StageRelease, ProxyInv, TypeOK
    <3> QED BY <2>3, <2>4, <2>6, <2>7, <3>1 DEF EntriesKept, Writing
  <2>10. EvidenceFound'
    BY <2>2, <2>5, NoStateApart DEF EvidenceFound, NoEntry
  <2>11. JobsFound'
    BY <2>2, <2>3, <2>7 DEF JobsFound, JobFound, EndsAt
  <2> QED BY <2>8, <2>9, <2>10, <2>11 DEF ProxyInv
<1>3. CASE ReleaseRefused \/ ReleaseUnmatched \/ ReleaseNothing
  <2>1. op' \in {Idle, [op EXCEPT !.pc = "persist"], [op EXCEPT !.pc = "clear"]}
    BY <1>3 DEF ReleaseRefused, ReleaseUnmatched, ReleaseNothing
  <2>2. /\ UNCHANGED <<entries, jobs>>
        /\ running' \in Urls \cup {None} /\ retained' \in Urls \cup {None}
    BY <1>3 DEF ReleaseRefused, ReleaseUnmatched, ReleaseNothing, ProxyInv, TypeOK
  <2>3. /\ op' \in [pc : Pcs, kind : Kinds, claim : Claims \cup {NoClaim}]
        /\ op'.pc \in {"idle", "persist", "clear"}
    BY <2>1, OpTyped, IdleTyped DEF ProxyInv, TypeOK, Pcs, Idle
  <2>4. TypeOK'
    BY <2>2, <2>3 DEF StageRelease, ProxyInv, TypeOK, native, entries
  <2>5. EntriesKept' /\ EvidenceFound' /\ JobsFound'
    BY <1>1, <2>2, <2>3, UntouchedKeeps DEF StageRelease
  <2> QED BY <2>4, <2>5 DEF ProxyInv
<1> QED BY <1>2, <1>3 DEF StageRelease

-----------------------------------------------------------------------------
(* Writing *)

\* What is left after the first job, or after its first command.
LEMMA TailJobs ==
    ASSUME NEW js \in Seq(Job), js # <<>>, NEW j \in Job
    PROVE  /\ js[1] \in Job /\ 1 \in DOMAIN js
           /\ Tail(js) \in Seq(Job)
           /\ \A i \in DOMAIN Tail(js) : i + 1 \in DOMAIN js /\ Tail(js)[i] = js[i + 1]
           /\ <<j>> \o Tail(js) \in Seq(Job)
           /\ \A i \in DOMAIN (<<j>> \o Tail(js)) :
                \/ i = 1 /\ (<<j>> \o Tail(js))[i] = j
                \/ i \in DOMAIN js /\ i # 1 /\ (<<j>> \o Tail(js))[i] = js[i]
<1> DEFINE r == Tail(js)  q == <<j>> \o Tail(js)
<1>1. js[1] \in Job /\ 1 \in DOMAIN js /\ Len(js) \in Nat /\ DOMAIN js = 1..Len(js) /\ Len(js) > 0
  BY LenProperties, ElementOfSeq, EmptySeq
<1>2. r \in Seq(Job) /\ Len(r) = Len(js) - 1 /\ \A i \in 1..Len(r) : r[i] = js[i + 1]
  BY HeadTailProperties
<1>3. <<j>> \in Seq(Job) /\ Len(<<j>>) = 1 /\ <<j>>[1] = j
  BY JobsTyped
<1>4. DOMAIN r = 1..Len(r)
  BY <1>2, LenProperties
<1>5. /\ q \in Seq(Job) /\ Len(q) = 1 + Len(r)
      /\ \A i \in 1..(1 + Len(r)) : q[i] = IF i <= 1 THEN <<j>>[i] ELSE r[i - 1]
  <2>1. q = <<j>> \o r
    OBVIOUS
  <2> HIDE DEF r, q
  <2> QED BY <1>2, <1>3, <2>1, ConcatProperties
<1> QED BY <1>1, <1>2, <1>3, <1>4, <1>5, LenProperties

\* A step that keeps every entry's previous state keeps the entries.
LEMMA SameEntries ==
    ASSUME \A s \in Services : undo'[s].prev = undo[s].prev
    PROVE  Entries' = Entries
BY DEF Entries

LEMMA SafetyJobsTyped ==
    ASSUME ProxyInv, target \in Entries
    PROVE  /\ SafetyJobs \in Seq(Job)
           /\ \A i \in DOMAIN SafetyJobs :
                /\ SafetyJobs[i].svc \in Entries
                /\ SafetyJobs[i].at = NoState /\ SafetyJobs[i].path = <<>>
<1>1. \A s \in Entries : Unplanned(s) \in Job
  BY EmptySeq DEF Unplanned, Job, Entries
<1>2. CASE Entries = {target}
  <2>1. SafetyJobs = <<Unplanned(target)>>
    BY <1>2 DEF SafetyJobs
  <2> QED BY <1>1, <2>1, JobsTyped DEF Unplanned
<1>3. CASE Entries # {target}
  <2>1. First \in Entries
    BY <1>3 DEF First
  <2>2. SafetyJobs = <<Unplanned(First), Unplanned(target)>>
    BY <1>3 DEF SafetyJobs
  <2>3. /\ SafetyJobs \in Seq(Job)
        /\ \A i \in DOMAIN SafetyJobs : SafetyJobs[i] \in {Unplanned(First), Unplanned(target)}
    BY <1>1, <2>1, <2>2, JobsTyped
  <2> QED BY <2>1, <2>3 DEF Unplanned
<1> QED BY <1>2, <1>3

\* A failing write, whatever it recorded.
LEMMA FailKeeps ==
    ASSUME ProxyInv, op.pc \in Writing, jobs # <<>>, Fail,
           \A s \in Services : undo'[s].prev = undo[s].prev,
           UNCHANGED <<target, recovery>>
    PROVE  /\ jobs' \in Seq(Job)
           /\ op' \in [pc : Pcs, kind : Kinds, claim : Claims \cup {NoClaim}]
           /\ EntriesKept' /\ JobsFound'
<1>1. /\ Entries' = Entries
      /\ target \in Entries
  <2>1. jobs[1].svc \in Entries
    BY TailJobs DEF ProxyInv, EntriesKept, TypeOK
  <2> QED BY <2>1, SameEntries DEF ProxyInv, EntriesKept
<1>2. op'.pc = Failed(op.pc) /\ op' = [op EXCEPT !.pc = Failed(op.pc)]
  BY DEF Fail, ProxyInv, TypeOK
<1>3. \/ op.pc = "apply" /\ op'.pc = "rollback"
      \/ op.pc = "undo" /\ op'.pc = "safety"
      \/ op.pc = "retry" /\ op'.pc = "reobserve"
      \/ op.pc = "safety" /\ op'.pc = "giveup"
  BY <1>2 DEF Failed, Writing
<1>4. op' \in [pc : Pcs, kind : Kinds, claim : Claims \cup {NoClaim}]
  BY <1>2, <1>3, OpTyped DEF ProxyInv, Pcs
<1>5. /\ jobs' \in Seq(Job)
      /\ \A i \in DOMAIN jobs' :
           jobs'[i].svc \in Entries /\ jobs'[i].at = NoState /\ jobs'[i].path = <<>>
      /\ jobs' # <<>> => op'.pc = "safety"
  BY <1>1, <1>3, EmptySeq, SafetyJobsTyped DEF Fail
<1>6. EntriesKept'
  BY <1>1, <1>3, <1>5 DEF ProxyInv, EntriesKept, Writing
<1>7. JobsFound'
  BY <1>5, NoStateApart DEF JobsFound, JobFound, EndsAt
<1> QED BY <1>4, <1>5, <1>6, <1>7

\* The command about to be given.
LEMMA CommandTyped ==
    ASSUME ProxyInv, Planned, jobs[1].path # <<>>
    PROVE  /\ jobs # <<>> /\ 1 \in DOMAIN jobs
           /\ jobs[1] \in Job /\ jobs[1].svc \in Entries /\ jobs[1].svc \in Services
           /\ jobs[1].path[1] \in States
           /\ jobs[1].path[1] = Theirs =>
                Tail(jobs[1].path) = <<>> /\ undo[jobs[1].svc].prev = Theirs
           /\ Tail(jobs[1].path) \in Seq(States)
           /\ EndsAt(Tail(jobs[1].path), undo[jobs[1].svc].prev)
<1> DEFINE p == jobs[1].path
<1>1. jobs # <<>> /\ 1 \in DOMAIN jobs /\ jobs[1] \in Job
  BY TailJobs DEF ProxyInv, TypeOK, Planned
<1>2. jobs[1].svc \in Entries /\ jobs[1].svc \in Services /\ p \in Seq(States)
  BY <1>1 DEF ProxyInv, EntriesKept, Job, Entries
<1>3. EndsAt(p, undo[jobs[1].svc].prev)
  BY <1>1 DEF ProxyInv, JobsFound, JobFound
<1> HIDE DEF p
<1>4. p # <<>>
  BY DEF p
<1>5. /\ Len(p) \in Nat /\ Len(p) > 0 /\ DOMAIN p = 1..Len(p) /\ p[1] \in States
      /\ Tail(p) \in Seq(States) /\ Len(Tail(p)) = Len(p) - 1
      /\ \A i \in 1..Len(Tail(p)) : Tail(p)[i] = p[i + 1]
      /\ DOMAIN Tail(p) = 1..Len(Tail(p))
  BY <1>2, <1>4, LenProperties, EmptySeq, ElementOfSeq, HeadTailProperties
<1>6. EndsAt(Tail(p), undo[jobs[1].svc].prev)
  BY <1>3, <1>5 DEF EndsAt
<1>7. p[1] = Theirs => Tail(p) = <<>> /\ undo[jobs[1].svc].prev = Theirs
  BY <1>3, <1>5, EmptySeq DEF EndsAt
<1> QED BY <1>1, <1>2, <1>5, <1>6, <1>7 DEF p

LEMMA CommandKeeps ==
    ASSUME ProxyInv, Command
    PROVE  ProxyInv'
<1> DEFINE s == jobs[1].svc
           x == jobs[1].path[1]
           rest == [jobs[1] EXCEPT !.at = x, !.path = Tail(@)]
<1>1. /\ op.pc \in Writing /\ Planned /\ jobs[1].path # <<>>
      /\ undo' = [undo EXCEPT ![s].known = @ \cup {x}, ![s].attempted = TRUE,
                              ![s].tried = @ \/ op.pc = "retry"]
      /\ \/ native' = native
         \/ /\ os' = [os EXCEPT ![s] = x]
            /\ writer' = [writer EXCEPT ![s] = Author(s, x)]
      /\ \/ jobs' = Advance(x) /\ UNCHANGED <<op, spent>>
         \/ Fault /\ Fail
      /\ UNCHANGED <<prefs, accepted, pac, target, recovery>>
  BY DEF Command
<1>2. /\ jobs # <<>> /\ jobs[1] \in Job /\ s \in Entries /\ s \in Services
      /\ x \in States /\ Tail(jobs[1].path) \in Seq(States)
      /\ EndsAt(Tail(jobs[1].path), undo[s].prev)
      /\ x = Theirs => Tail(jobs[1].path) = <<>> /\ undo[s].prev = Theirs
  BY <1>1, CommandTyped
<1>3. /\ rest \in Job /\ rest.svc = s /\ rest.at = x
      /\ rest.path = Tail(jobs[1].path)
  BY <1>2 DEF Job
<1>4. Author(s, x) \in {"us", "foreign"}
  BY <1>2 DEF Author, ProxyInv, TypeOK, Entry
<1>5. os' \in [Services -> States] /\ writer' \in [Services -> {"us", "foreign"}]
  BY <1>1, <1>2, <1>4 DEF ProxyInv, TypeOK, native
<1>6. /\ undo' \in [Services -> Entry]
      /\ undo'[s].prev = undo[s].prev /\ undo'[s].observed = undo[s].observed
      /\ undo'[s].known = undo[s].known \cup {x}
      /\ \A t \in Services : t # s => undo'[t] = undo[t]
  <2> DEFINE e == undo[s]
             tried == e.tried \/ op.pc = "retry"
             e2 == [e EXCEPT !.known = @ \cup {x}, !.attempted = TRUE, !.tried = tried]
  <2>1. e \in Entry /\ tried \in BOOLEAN
    BY <1>2 DEF ProxyInv, TypeOK, Entry
  <2>2. undo' = [undo EXCEPT ![s] = e2]
    BY <1>1, <1>2 DEF ProxyInv, TypeOK
  <2>3. e2 \in Entry /\ e2.prev = e.prev /\ e2.observed = e.observed
        /\ e2.known = e.known \cup {x}
    <3> HIDE DEF e, tried
    <3> QED BY <1>2, <2>1 DEF Entry
  <2> HIDE DEF e, tried, e2
  <2>4. undo \in [Services -> Entry] /\ e = undo[s]
    BY DEF ProxyInv, TypeOK, e
  <2> QED BY <1>2, <2>2, <2>3, <2>4
<1> HIDE DEF rest, s, x
<1>10. \A t \in Services : undo'[t].prev = undo[t].prev
  BY <1>6
<1>7. EvidenceFound'
  <2> SUFFICES ASSUME NEW t \in Services,
                      Theirs \in undo'[t].known \cup {undo'[t].observed}
               PROVE  undo'[t].prev = Theirs
    BY DEF EvidenceFound
  <2>1. CASE Theirs \in undo[t].known \cup {undo[t].observed}
    <3>1. undo[t].prev = Theirs
      BY <2>1 DEF ProxyInv, EvidenceFound
    <3> QED BY <1>10, <3>1
  <2>2. CASE t = s /\ x = Theirs
    BY <1>2, <1>6, <2>2
  <2>3. t # s => undo'[t] = undo[t]
    BY <1>6
  <2> QED BY <1>6, <2>1, <2>2, <2>3
<1>8. CASE Fault /\ Fail
  <2>1. /\ jobs' \in Seq(Job)
        /\ op' \in [pc : Pcs, kind : Kinds, claim : Claims \cup {NoClaim}]
        /\ EntriesKept' /\ JobsFound'
    BY <1>1, <1>2, <1>8, <1>10, FailKeeps
  <2>2. TypeOK'
    BY <1>1, <1>5, <1>6, <1>8, <2>1, FaultTyped DEF ProxyInv, TypeOK, pac
  <2> QED BY <1>7, <2>1, <2>2 DEF ProxyInv
<1>9. CASE jobs' = Advance(x) /\ UNCHANGED <<op, spent>>
  <2>1. jobs' = <<rest>> \o Tail(jobs)
    BY <1>9 DEF Advance, rest
  <2>2. /\ jobs' \in Seq(Job)
        /\ \A i \in DOMAIN jobs' :
             \/ jobs'[i] = rest
             \/ i \in DOMAIN jobs /\ jobs'[i] = jobs[i]
    BY <1>2, <1>3, <2>1, TailJobs DEF ProxyInv, TypeOK
  <2>3. TypeOK'
    BY <1>1, <1>5, <1>6, <1>9, <2>2 DEF ProxyInv, TypeOK, pac
  <2>4. Entries' = Entries
    BY <1>10, SameEntries
  <2>5. EntriesKept'
    BY <1>1, <1>2, <1>3, <1>9, <2>2, <2>4 DEF ProxyInv, EntriesKept
  <2>6. JobsFound'
    <3> SUFFICES ASSUME NEW i \in DOMAIN jobs' PROVE JobFound(jobs[i])'
      BY DEF JobsFound
    <3>1. CASE jobs'[i] = rest
      BY <1>2, <1>3, <1>10, <3>1 DEF JobFound
    <3>2. CASE i \in DOMAIN jobs /\ jobs'[i] = jobs[i]
      <4>1. JobFound(jobs[i]) /\ jobs[i].svc \in Services
        BY <3>2 DEF ProxyInv, JobsFound, EntriesKept, Entries
      <4> QED BY <1>9, <1>10, <3>2, <4>1 DEF JobFound
    <3> QED BY <2>2, <3>1, <3>2
  <2> QED BY <1>7, <2>3, <2>5, <2>6 DEF ProxyInv
<1> QED BY <1>1, <1>8, <1>9

LEMMA WriteFailsKeeps ==
    ASSUME ProxyInv, WriteFails
    PROVE  ProxyInv'
<1>1. /\ op.pc \in Writing /\ jobs # <<>> /\ Fail
      /\ UNCHANGED <<native, prefs, accepted, pac, entries, recovery>>
      /\ UNCHANGED spent \/ Fault
  BY DEF WriteFails, Planned
<1>2. \A s \in Services : undo'[s].prev = undo[s].prev
  BY <1>1 DEF entries
<1>3. /\ jobs' \in Seq(Job)
      /\ op' \in [pc : Pcs, kind : Kinds, claim : Claims \cup {NoClaim}]
      /\ EntriesKept' /\ JobsFound'
  BY <1>1, <1>2, FailKeeps DEF entries
<1>4. spent' \in [intrusions : 0..MaxIntrusions, faults : 0..MaxFaults]
  BY <1>1, FaultTyped DEF ProxyInv, TypeOK
<1>5. TypeOK' /\ EvidenceFound'
  BY <1>1, <1>3, <1>4 DEF ProxyInv, TypeOK, EvidenceFound, native, pac, entries
<1> QED BY <1>3, <1>5 DEF ProxyInv

\* A step that changes nothing but what the entries observed last, and leaves no
\* job to do.
LEMMA ObservedKeeps ==
    ASSUME ProxyInv, NEW f \in [Services -> States \cup {NoState}],
           \A s \in Services : f[s] = Theirs => undo[s].prev = Theirs,
           undo' = [s \in Services |-> [undo[s] EXCEPT !.observed = f[s]]]
    PROVE  /\ undo' \in [Services -> Entry]
           /\ EvidenceFound' /\ Entries' = Entries
           /\ \A s \in Services : undo'[s].prev = undo[s].prev
<1>1. ASSUME NEW s \in Services
      PROVE  /\ undo'[s] \in Entry /\ undo'[s].observed = f[s]
             /\ undo'[s].prev = undo[s].prev /\ undo'[s].known = undo[s].known
  <2> DEFINE e == undo[s]
  <2>1. e \in Entry /\ f[s] \in States \cup {NoState}
    BY DEF ProxyInv, TypeOK
  <2>2. undo'[s] = [e EXCEPT !.observed = f[s]]
    OBVIOUS
  <2> HIDE DEF e
  <2>3. undo'[s] \in Entry /\ undo'[s].observed = f[s] /\ undo'[s].prev = e.prev
        /\ undo'[s].known = e.known
    BY <2>1, <2>2 DEF Entry
  <2> QED BY <2>3 DEF e
<1>2. undo' \in [Services -> Entry]
  <2>1. undo' = [s \in Services |-> undo'[s]]
    OBVIOUS
  <2> QED BY <1>1, <2>1
<1>3. EvidenceFound'
  <2> SUFFICES ASSUME NEW s \in Services,
                      Theirs \in undo'[s].known \cup {undo'[s].observed}
               PROVE  undo'[s].prev = Theirs
    BY DEF EvidenceFound
  <2>1. Theirs \in undo[s].known => undo[s].prev = Theirs
    BY DEF ProxyInv, EvidenceFound
  <2> QED BY <1>1, <2>1
<1> QED BY <1>1, <1>2, <1>3, SameEntries

LEMMA VerifiedKeeps ==
    ASSUME ProxyInv, Verified
    PROVE  ProxyInv'
<1> DEFINE s == jobs[1].svc
           f == [t \in Services |-> IF t = s THEN os[s] ELSE undo[t].observed]
<1>1. /\ op.pc \in Writing /\ jobs # <<>> /\ os[s] = jobs[1].at
      /\ undo' = [undo EXCEPT ![s].observed = os[s]]
      /\ jobs' = Tail(jobs)
      /\ UNCHANGED <<native, prefs, accepted, pac, target, recovery, op, spent>>
  BY DEF Verified, Planned, Observed
<1>2. /\ jobs[1] \in Job /\ 1 \in DOMAIN jobs /\ jobs' \in Seq(Job)
      /\ \A i \in DOMAIN jobs' : i + 1 \in DOMAIN jobs /\ jobs'[i] = jobs[i + 1]
  BY <1>1, TailJobs DEF ProxyInv, TypeOK
<1>3. s \in Entries /\ s \in Services
  BY <1>2 DEF ProxyInv, EntriesKept, Entries
<1>4. os[s] = Theirs => undo[s].prev = Theirs
  BY <1>1, <1>2 DEF ProxyInv, JobsFound, JobFound
<1>5. f \in [Services -> States \cup {NoState}]
  BY <1>3 DEF ProxyInv, TypeOK, Entry
<1>6. undo' = [t \in Services |-> [undo[t] EXCEPT !.observed = f[t]]]
  <2>1. undo \in [Services -> Entry]
    BY DEF ProxyInv, TypeOK
  <2>2. \A t \in Services : undo[t] = [undo[t] EXCEPT !.observed = undo[t].observed]
    BY <2>1 DEF Entry
  <2> HIDE DEF s
  <2> QED BY <1>1, <1>3, <2>1, <2>2
<1>7. \A t \in Services : f[t] = Theirs => undo[t].prev = Theirs
  BY <1>4 DEF ProxyInv, EvidenceFound
<1> HIDE DEF f, s
<1>8. /\ undo' \in [Services -> Entry]
      /\ EvidenceFound' /\ Entries' = Entries
      /\ \A t \in Services : undo'[t].prev = undo[t].prev
  BY <1>5, <1>6, <1>7, ObservedKeeps
<1>9. TypeOK'
  BY <1>1, <1>2, <1>8 DEF ProxyInv, TypeOK, native, pac
<1>10. EntriesKept'
  BY <1>1, <1>2, <1>8 DEF ProxyInv, EntriesKept
<1>11. JobsFound'
  <2> SUFFICES ASSUME NEW i \in DOMAIN jobs' PROVE JobFound(jobs[i])'
    BY DEF JobsFound
  <2>1. i + 1 \in DOMAIN jobs /\ jobs'[i] = jobs[i + 1]
    BY <1>2
  <2>2. JobFound(jobs[i + 1]) /\ jobs[i + 1].svc \in Services
    BY <2>1 DEF ProxyInv, JobsFound, EntriesKept, Entries
  <2> QED BY <1>1, <1>8, <2>1, <2>2 DEF JobFound
<1> QED BY <1>8, <1>9, <1>10, <1>11 DEF ProxyInv

-----------------------------------------------------------------------------
(* The end of a change *)

\* The entries are gone.
LEMMA NoUndoTyped ==
    /\ NoUndo \in [Services -> Entry]
    /\ \A s \in Services : NoUndo[s].prev = NoState
    /\ \A s \in Services : Theirs \notin NoUndo[s].known \cup {NoUndo[s].observed}
BY NoStateApart DEF NoUndo, NoEntry, Entry

\* A step that ends the transaction or the recovery.
LEMMA EndedKeeps ==
    ASSUME undo' = NoUndo, jobs' = <<>>, recovery' = FALSE,
           op'.pc \in {"idle", "claim", "persist", "clear"}
    PROVE  EntriesKept' /\ EvidenceFound' /\ JobsFound'
<1>1. Entries' = {}
  BY NoUndoTyped DEF Entries
<1>2. EntriesKept'
  BY <1>1 DEF EntriesKept
<1> QED BY <1>2, NoUndoTyped DEF EvidenceFound, JobsFound

LEMMA CommitTyped ==
    ASSUME TypeOK, Commit
    PROVE  /\ accepted' \in Claims \cup {NoClaim}
           /\ running' \in Urls \cup {None} /\ retained' \in Urls \cup {None}
           /\ undo' \in [Services -> Entry] /\ target' \in Services \cup {None}
BY NoUndoTyped DEF TypeOK, Commit

LEMMA AppliedKeeps ==
    ASSUME ProxyInv, Applied
    PROVE  ProxyInv'
<1>1. /\ op.pc = "apply" /\ jobs = <<>> /\ ~recovery
      /\ UNCHANGED <<native, prefs, minted, recovery, jobs, spent>>
  BY DEF Applied, Written, ProxyInv, TypeOK, EntriesKept
<1>2. CASE Commit /\ op' = [op EXCEPT !.pc = "clear"]
  <2>1. op' \in [pc : Pcs, kind : Kinds, claim : Claims \cup {NoClaim}] /\ op'.pc = "clear"
    BY <1>2, OpTyped DEF ProxyInv, TypeOK, Pcs
  <2>2. TypeOK'
    BY <1>1, <1>2, <2>1, CommitTyped DEF ProxyInv, TypeOK, native
  <2>3. EntriesKept' /\ EvidenceFound' /\ JobsFound'
    <3>1. undo' = NoUndo
      BY <1>2 DEF Commit
    <3>2. jobs' = <<>> /\ recovery' = FALSE
      BY <1>1 DEF ProxyInv, TypeOK
    <3> QED BY <2>1, <3>1, <3>2, EndedKeeps
  <2> QED BY <2>2, <2>3 DEF ProxyInv
<1>3. CASE op' = [op EXCEPT !.pc = "persist"] /\ UNCHANGED <<accepted, running, retained, entries>>
  <2>1. op' \in [pc : Pcs, kind : Kinds, claim : Claims \cup {NoClaim}] /\ op'.pc = "persist"
    BY <1>3, OpTyped DEF ProxyInv, TypeOK, Pcs
  <2>2. TypeOK'
    BY <1>1, <1>3, <2>1 DEF ProxyInv, TypeOK, native, entries
  <2>3. EntriesKept' /\ EvidenceFound' /\ JobsFound'
    BY <1>1, <1>3, <2>1, UntouchedKeeps
  <2> QED BY <2>2, <2>3 DEF ProxyInv
<1> QED BY <1>2, <1>3 DEF Applied

LEMMA PersistKeeps ==
    ASSUME ProxyInv, Persist
    PROVE  ProxyInv'
<1>1. /\ op.pc = "persist" /\ op' = Idle /\ op'.pc = "idle" /\ jobs = <<>> /\ ~recovery
      /\ UNCHANGED <<native, minted, recovery, jobs, spent>>
  BY DEF Persist, ProxyInv, EntriesKept, Writing, Idle
<1>2. prefs' \in [enabled : BOOLEAN, claim : Claims \cup {NoClaim}]
  BY DEF Persist, ProxyInv, TypeOK
<1>3. CASE Commit
  <2>1. TypeOK'
    BY <1>1, <1>2, <1>3, CommitTyped, IdleTyped DEF ProxyInv, TypeOK, native
  <2>2. EntriesKept' /\ EvidenceFound' /\ JobsFound'
    <3>1. undo' = NoUndo
      BY <1>3 DEF Commit
    <3>2. jobs' = <<>> /\ recovery' = FALSE
      BY <1>1 DEF ProxyInv, TypeOK
    <3> QED BY <1>1, <3>1, <3>2, EndedKeeps
  <2> QED BY <2>1, <2>2 DEF ProxyInv
<1>4. CASE UNCHANGED <<accepted, running, retained, entries>>
  <2>1. TypeOK'
    BY <1>1, <1>2, <1>4, IdleTyped DEF ProxyInv, TypeOK, native, entries
  <2>2. EntriesKept' /\ EvidenceFound' /\ JobsFound'
    BY <1>1, <1>4, UntouchedKeeps
  <2> QED BY <2>1, <2>2 DEF ProxyInv
<1> QED BY <1>3, <1>4 DEF Persist

LEMMA PersistFailsKeeps ==
    ASSUME ProxyInv, PersistFails
    PROVE  ProxyInv'
<1>1. /\ op.pc = "persist" /\ jobs = <<>> /\ ~recovery
      /\ UNCHANGED <<native, prefs, accepted, pac, entries, recovery, jobs>>
  BY DEF PersistFails, ProxyInv, EntriesKept, Writing
<1>2. /\ op' \in [pc : Pcs, kind : Kinds, claim : Claims \cup {NoClaim}]
      /\ op'.pc \in {"idle", "rollback"}
      /\ op'.pc = "rollback" => Entries # {}
  BY OpTyped, IdleTyped DEF PersistFails, ProxyInv, TypeOK, Pcs, Idle
<1>3. TypeOK'
  BY <1>1, <1>2, FaultTyped DEF PersistFails, ProxyInv, TypeOK, native, pac, entries
<1>4. EntriesKept' /\ EvidenceFound' /\ JobsFound'
  BY <1>1, <1>2, UntouchedKeeps DEF ProxyInv, EntriesKept
<1> QED BY <1>3, <1>4 DEF ProxyInv

LEMMA ClearKeeps ==
    ASSUME ProxyInv, Clear
    PROVE  ProxyInv'
<1>1. /\ op.pc = "clear" /\ op' = Idle /\ op'.pc = "idle" /\ jobs = <<>>
      /\ UNCHANGED <<native, accepted, pac, entries, recovery, jobs>>
  BY DEF Clear, ProxyInv, EntriesKept, Writing, Idle
<1>2. /\ prefs' \in [enabled : BOOLEAN, claim : Claims \cup {NoClaim}]
      /\ spent' \in [intrusions : 0..MaxIntrusions, faults : 0..MaxFaults]
  BY FaultTyped DEF Clear, ProxyInv, TypeOK
<1>3. TypeOK'
  BY <1>1, <1>2, IdleTyped DEF ProxyInv, TypeOK, native, pac, entries
<1>4. EntriesKept' /\ EvidenceFound' /\ JobsFound'
  BY <1>1, UntouchedKeeps
<1> QED BY <1>3, <1>4 DEF ProxyInv

\* What a restoration writes: each service it touches, back to its previous state.
LEMMA RestoreJobsTyped ==
    ASSUME ProxyInv, target \in Entries,
           \A s \in Entries : os[s] = Theirs => undo[s].prev = Theirs
    PROVE  /\ RestoreJobs \in Seq(Job)
           /\ \A i \in DOMAIN RestoreJobs :
                /\ RestoreJobs[i].svc \in Entries
                /\ RestoreJobs[i].at = Theirs =>
                     undo[RestoreJobs[i].svc].prev = Theirs /\ RestoreJobs[i].path = <<>>
                /\ EndsAt(RestoreJobs[i].path, undo[RestoreJobs[i].svc].prev)
<1> DEFINE Good(j) == /\ j \in Job /\ j.svc \in Entries
                      /\ j.at = Theirs => undo[j.svc].prev = Theirs /\ j.path = <<>>
                      /\ EndsAt(j.path, undo[j.svc].prev)
           job(s) == Write(s, os[s], undo[s].prev)
<1>1. ASSUME NEW s \in Entries
      PROVE  Good(job(s))
  <2>1. s \in Services /\ os[s] \in States /\ undo[s].prev \in States
    BY DEF Entries, ProxyInv, TypeOK, Entry
  <2>2. /\ job(s) \in Job /\ job(s).svc = s /\ job(s).at = os[s]
        /\ EndsAt(job(s).path, undo[s].prev)
        /\ os[s] = undo[s].prev => job(s).path = <<>>
    BY <2>1, WriteTyped
  <2> QED BY <2>2
<1>2. \A s \in Entries : RestoreJob(s) \in {<<>>, <<job(s)>>}
  BY DEF RestoreJob
<1> HIDE DEF job
<1>3. ASSUME NEW s \in Entries, NEW t \in Entries
      PROVE  /\ RestoreJob(s) \in {<<>>, <<job(s)>>}
             /\ RestoreJob(s) \o RestoreJob(t)
                  \in {<<>>, <<job(s)>>, <<job(t)>>, <<job(s), job(t)>>}
  <2>1. RestoreJob(s) \in {<<>>, <<job(s)>>} /\ RestoreJob(t) \in {<<>>, <<job(t)>>}
    BY <1>2
  <2> DEFINE a == job(s)  b == job(t)  p == RestoreJob(s)  q == RestoreJob(t)
  <2> HIDE DEF a, b, p, q
  <2>2. p \in {<<>>, <<a>>} /\ q \in {<<>>, <<b>>}
    BY <2>1 DEF a, b, p, q
  <2>3. <<a>> \o <<b>> = <<a, b>>
    <3> DEFINE S == {a, b}  u == <<a>>  v == <<b>>  w == <<a, b>>
    <3>1. /\ u \in Seq(S) /\ Len(u) = 1 /\ u[1] = a
          /\ v \in Seq(S) /\ Len(v) = 1 /\ v[1] = b
          /\ w \in Seq(S) /\ Len(w) = 2 /\ w[1] = a /\ w[2] = b
      OBVIOUS
    <3> HIDE DEF u, v, w, S
    <3>2. u \o v \in Seq(S) /\ Len(u \o v) = 2 /\ (u \o v)[1] = a /\ (u \o v)[2] = b
      BY <3>1, ConcatProperties
    <3>3. u \o v = w
      BY <3>1, <3>2, SeqEqual
    <3> QED BY <3>3 DEF u, v, w
  <2>4. /\ <<>> \o <<b>> = <<b>> /\ <<a>> \o <<>> = <<a>> /\ <<>> \o <<>> = <<>>
    OBVIOUS
  <2>5. p \o q \in {<<>>, <<a>>, <<b>>, <<a, b>>}
    BY <2>2, <2>3, <2>4
  <2> QED BY <2>1, <2>5 DEF a, b, p, q
<1>4. PICK s \in Entries, t \in Entries :
        RestoreJobs \in {<<>>, <<job(s)>>, <<job(t)>>, <<job(s), job(t)>>}
  <2>1. CASE Entries = {target}
    <3>1. RestoreJobs = RestoreJob(target)
      BY <2>1 DEF RestoreJobs
    <3> QED BY <1>3, <3>1
  <2>2. CASE Entries # {target}
    <3>1. First \in Entries
      BY <2>2 DEF First
    <3>2. RestoreJobs = RestoreJob(target) \o RestoreJob(First)
      BY <2>2 DEF RestoreJobs
    <3> QED BY <1>3, <3>1, <3>2
  <2> QED BY <2>1, <2>2
<1>5. Good(job(s)) /\ Good(job(t))
  BY <1>1
<1> DEFINE a == job(s)  b == job(t)  R == RestoreJobs
<1>6. /\ R \in {<<>>, <<a>>, <<b>>, <<a, b>>}
      /\ Good(a) /\ Good(b)
  BY <1>4, <1>5
<1> HIDE DEF a, b, R
<1>7. a \in Job /\ b \in Job
  BY <1>6
<1>8. R \in Seq(Job) /\ \A i \in DOMAIN R : R[i] \in {a, b}
  <2>1. <<>> \in Seq(Job) /\ DOMAIN <<>> = {}
    BY EmptySeq
  <2> QED BY <1>6, <1>7, <2>1, JobsTyped
<1>9. \A i \in DOMAIN R : Good(R[i])
  BY <1>6, <1>8
<1> QED BY <1>8, <1>9 DEF R

LEMMA RollbackKeeps ==
    ASSUME ProxyInv, Rollback
    PROVE  ProxyInv'
<1>1. /\ op.pc = "rollback" /\ target \in Entries /\ ~recovery
      /\ UNCHANGED <<native, prefs, accepted, pac, entries, recovery>>
  BY DEF Rollback, ProxyInv, EntriesKept
<1>2. Entries' = Entries /\ undo' = undo
  BY <1>1 DEF entries, Entries
<1>3. spent' \in [intrusions : 0..MaxIntrusions, faults : 0..MaxFaults]
  BY FaultTyped DEF Rollback, ProxyInv, TypeOK
<1>4. EvidenceFound'
  BY <1>2 DEF ProxyInv, EvidenceFound
<1>5. CASE /\ \A s \in Entries : Permitted(s)
           /\ op' = [op EXCEPT !.pc = "undo"] /\ jobs' = RestoreJobs
  <2>1. \A s \in Entries : os[s] = Theirs => undo[s].prev = Theirs
    BY <1>5 DEF Permitted, ProxyInv, EvidenceFound, Entries
  <2>2. op' \in [pc : Pcs, kind : Kinds, claim : Claims \cup {NoClaim}] /\ op'.pc = "undo"
    BY <1>5, OpTyped DEF ProxyInv, TypeOK, Pcs
  <2>3. /\ jobs' \in Seq(Job)
        /\ \A i \in DOMAIN jobs' :
             /\ jobs'[i].svc \in Entries
             /\ jobs'[i].at = Theirs =>
                  undo[jobs'[i].svc].prev = Theirs /\ jobs'[i].path = <<>>
             /\ EndsAt(jobs'[i].path, undo[jobs'[i].svc].prev)
    BY <1>1, <1>5, <2>1, RestoreJobsTyped
  <2>4. TypeOK'
    BY <1>1, <1>3, <2>2, <2>3 DEF ProxyInv, TypeOK, native, pac, entries
  <2>5. EntriesKept'
    BY <1>1, <1>2, <2>2, <2>3 DEF EntriesKept, entries, Writing
  <2>6. JobsFound'
    BY <1>2, <2>3 DEF JobsFound, JobFound
  <2> QED BY <1>4, <2>4, <2>5, <2>6 DEF ProxyInv
<1>6. CASE op' = [op EXCEPT !.pc = "safety"] /\ jobs' = SafetyJobs
  <2>1. op' \in [pc : Pcs, kind : Kinds, claim : Claims \cup {NoClaim}] /\ op'.pc = "safety"
    BY <1>6, OpTyped DEF ProxyInv, TypeOK, Pcs
  <2>2. /\ jobs' \in Seq(Job)
        /\ \A i \in DOMAIN jobs' :
             jobs'[i].svc \in Entries /\ jobs'[i].at = NoState /\ jobs'[i].path = <<>>
    BY <1>1, <1>6, SafetyJobsTyped
  <2>3. TypeOK'
    BY <1>1, <1>3, <2>1, <2>2 DEF ProxyInv, TypeOK, native, pac, entries
  <2>4. EntriesKept'
    BY <1>1, <1>2, <2>1, <2>2 DEF EntriesKept, entries, Writing
  <2>5. JobsFound'
    BY <2>2, NoStateApart DEF JobsFound, JobFound, EndsAt
  <2> QED BY <1>4, <2>3, <2>4, <2>5 DEF ProxyInv
<1> QED BY <1>5, <1>6 DEF Rollback

LEMMA RolledBackKeeps ==
    ASSUME ProxyInv, RolledBack
    PROVE  ProxyInv'
<1>1. /\ undo' = NoUndo /\ target' = None /\ op' = Idle /\ op'.pc = "idle"
      /\ jobs' = <<>> /\ recovery' = FALSE
      /\ UNCHANGED <<native, prefs, accepted, pac, recovery, jobs, spent>>
  BY DEF RolledBack, Written, Idle, ProxyInv, TypeOK, EntriesKept
<1>2. TypeOK'
  BY <1>1, NoUndoTyped, IdleTyped DEF ProxyInv, TypeOK, native, pac
<1> QED BY <1>1, <1>2, EndedKeeps DEF ProxyInv

LEMMA SafeKeeps ==
    ASSUME ProxyInv, Safe
    PROVE  ProxyInv'
<1> DEFINE s == jobs[1].svc
           write == Write(s, os[s], Off(os[s]))
<1>1. /\ op.pc = "safety" /\ op.pc \in Writing /\ jobs # <<>>
      /\ UNCHANGED <<native, prefs, accepted, pac, entries, recovery>>
      /\ undo' = undo /\ target' = target /\ Entries' = Entries
  BY DEF Safe, Writing, entries, Entries
<1>2. s \in Entries /\ s \in Services /\ os[s] \in States
  <2>1. 1 \in DOMAIN jobs
    BY <1>1, TailJobs DEF ProxyInv, TypeOK
  <2> QED BY <2>1 DEF ProxyInv, TypeOK, EntriesKept, Entries
<1>3. EvidenceFound'
  BY <1>1 DEF ProxyInv, EvidenceFound
<1>4. CASE Fail
  <2>1. /\ jobs' \in Seq(Job)
        /\ op' \in [pc : Pcs, kind : Kinds, claim : Claims \cup {NoClaim}]
        /\ EntriesKept' /\ JobsFound'
    BY <1>1, <1>4, FailKeeps
  <2>2. spent' \in [intrusions : 0..MaxIntrusions, faults : 0..MaxFaults]
    BY FaultTyped DEF Safe, ProxyInv, TypeOK
  <2>3. TypeOK'
    BY <1>1, <2>1, <2>2 DEF ProxyInv, TypeOK, native, pac
  <2> QED BY <1>3, <2>1, <2>3 DEF ProxyInv
<1>5. CASE jobs' = Tail(jobs) /\ UNCHANGED <<op, spent>>
  <2>1. /\ jobs' \in Seq(Job)
        /\ \A i \in DOMAIN jobs' : i + 1 \in DOMAIN jobs /\ jobs'[i] = jobs[i + 1]
    BY <1>1, <1>5, TailJobs DEF ProxyInv, TypeOK
  <2>2. TypeOK'
    BY <1>1, <1>5, <2>1 DEF ProxyInv, TypeOK, native, pac
  <2>3. EntriesKept'
    BY <1>1, <1>5, <2>1 DEF ProxyInv, EntriesKept
  <2>4. JobsFound'
    BY <1>1, <1>5, <2>1 DEF ProxyInv, JobsFound, JobFound
  <2> QED BY <1>3, <2>2, <2>3, <2>4 DEF ProxyInv
<1>6. CASE /\ os[s] # undo[s].prev /\ Permitted(s)
           /\ jobs' = <<write>> \o Tail(jobs) /\ UNCHANGED <<op, spent>>
  <2>1. os[s] # Theirs
    BY <1>2, <1>6 DEF Permitted, ProxyInv, EvidenceFound
  <2>2. Off(os[s]) \in States /\ Off(os[s]) # Theirs
    BY <1>2 DEF Off, On, States, Theirs
  <2>3. /\ write \in Job /\ write.svc = s /\ write.at = os[s]
        /\ EndsAt(write.path, Off(os[s]))
    BY <1>2, <2>2, WriteTyped
  <2> HIDE DEF write, s
  <2>4. /\ jobs' \in Seq(Job)
        /\ \A i \in DOMAIN jobs' :
             jobs'[i] = write \/ (i \in DOMAIN jobs /\ jobs'[i] = jobs[i])
    BY <1>1, <1>6, <2>3, TailJobs DEF ProxyInv, TypeOK
  <2>5. TypeOK'
    BY <1>1, <1>6, <2>4 DEF ProxyInv, TypeOK, native, pac
  <2>6. EntriesKept'
    BY <1>1, <1>2, <1>6, <2>3, <2>4 DEF ProxyInv, EntriesKept
  <2>7. JobsFound'
    <3> SUFFICES ASSUME NEW i \in DOMAIN jobs' PROVE JobFound(jobs[i])'
      BY DEF JobsFound
    <3>1. CASE jobs'[i] = write
      BY <2>1, <2>2, <2>3, <3>1 DEF JobFound, EndsAt
    <3>2. CASE i \in DOMAIN jobs /\ jobs'[i] = jobs[i]
      BY <1>1, <1>6, <3>2 DEF ProxyInv, JobsFound, JobFound
    <3> QED BY <2>4, <3>1, <3>2
  <2> QED BY <1>3, <2>5, <2>6, <2>7 DEF ProxyInv
<1> QED BY <1>4, <1>5, <1>6 DEF Safe

LEMMA SafetyEndsKeeps ==
    ASSUME ProxyInv, SafetyEnds
    PROVE  ProxyInv'
<1>1. /\ op.pc = "safety" /\ jobs = <<>> /\ ~recovery /\ op' = [op EXCEPT !.pc = "giveup"]
      /\ UNCHANGED <<native, prefs, accepted, pac, entries, recovery, jobs, spent>>
  BY DEF SafetyEnds, Written, ProxyInv, EntriesKept
<1>2. op' \in [pc : Pcs, kind : Kinds, claim : Claims \cup {NoClaim}] /\ op'.pc = "giveup"
  BY <1>1, OpTyped DEF ProxyInv, TypeOK, Pcs
<1>3. TypeOK'
  BY <1>1, <1>2 DEF ProxyInv, TypeOK, native, pac, entries
<1>4. EntriesKept' /\ EvidenceFound' /\ JobsFound'
  BY <1>1, <1>2, UntouchedKeeps DEF ProxyInv, EntriesKept
<1> QED BY <1>3, <1>4 DEF ProxyInv

\* What is observed again was attempted.
LEMMA ObserveAgainTyped ==
    ASSUME ProxyInv, NEW S \in SUBSET Services, ObserveAgain(S)
    PROVE  /\ undo' \in [Services -> Entry]
           /\ EvidenceFound' /\ Entries' = Entries
           /\ \A s \in Services : undo'[s].prev = undo[s].prev
<1>1. PICK blind \in SUBSET S :
        undo' = [s \in Services |->
            IF s \in S
            THEN [undo[s] EXCEPT !.observed = IF s \in blind THEN NoState ELSE Evidence(s)]
            ELSE undo[s]]
  BY DEF ObserveAgain
<1> DEFINE f == [s \in Services |->
                  IF s \in S THEN IF s \in blind THEN NoState ELSE Evidence(s)
                  ELSE undo[s].observed]
<1>2. f \in [Services -> States \cup {NoState}]
  BY DEF Evidence, ProxyInv, TypeOK, Entry
<1>3. undo' = [s \in Services |-> [undo[s] EXCEPT !.observed = f[s]]]
  <2>1. \A s \in Services : undo[s] = [undo[s] EXCEPT !.observed = undo[s].observed]
    BY DEF ProxyInv, TypeOK, Entry
  <2> QED BY <1>1, <2>1
<1>4. \A s \in Services : f[s] = Theirs => undo[s].prev = Theirs
  BY NoStateApart DEF Evidence, Permitted, ProxyInv, EvidenceFound
<1> HIDE DEF f
<1> QED BY <1>2, <1>3, <1>4, ObservedKeeps

LEMMA GiveUpKeeps ==
    ASSUME ProxyInv, GiveUp
    PROVE  ProxyInv'
<1>1. /\ op.pc = "giveup" /\ target \in Entries /\ op' = Idle /\ op'.pc = "idle"
      /\ jobs = <<>> /\ recovery' = TRUE /\ ObserveAgain(Entries)
      /\ UNCHANGED <<native, prefs, accepted, running, minted, target, jobs, spent>>
  BY DEF GiveUp, ProxyInv, EntriesKept, Writing, Idle
<1>2. /\ undo' \in [Services -> Entry]
      /\ EvidenceFound' /\ Entries' = Entries
  BY <1>1, ObserveAgainTyped DEF Entries
<1>3. retained' \in Urls \cup {None}
  BY DEF GiveUp, Candidate, ProxyInv, TypeOK
<1>4. TypeOK'
  BY <1>1, <1>2, <1>3, IdleTyped DEF ProxyInv, TypeOK, native
<1>5. EntriesKept' /\ JobsFound'
  BY <1>1, <1>2 DEF EntriesKept, JobsFound
<1> QED BY <1>2, <1>4, <1>5 DEF ProxyInv

-----------------------------------------------------------------------------
(* Recovery *)

LEMMA RecoverKeeps ==
    ASSUME ProxyInv, Recover
    PROVE  ProxyInv'
<1>1. /\ op.pc = "recover" /\ recovery /\ target \in Entries /\ jobs = <<>>
      /\ undo' = [s \in Services |-> [undo[s] EXCEPT !.tried = FALSE]]
      /\ UNCHANGED <<native, prefs, accepted, pac, target, recovery>>
  BY DEF Recover, ProxyInv, EntriesKept, Writing
<1>2. ASSUME NEW s \in Services
      PROVE  /\ undo'[s] \in Entry /\ undo'[s].prev = undo[s].prev
             /\ undo'[s].known = undo[s].known /\ undo'[s].observed = undo[s].observed
  <2> DEFINE e == undo[s]
  <2>1. e \in Entry /\ undo'[s] = [e EXCEPT !.tried = FALSE]
    BY <1>1 DEF ProxyInv, TypeOK
  <2> HIDE DEF e
  <2>2. undo'[s] \in Entry /\ undo'[s].prev = e.prev
        /\ undo'[s].known = e.known /\ undo'[s].observed = e.observed
    BY <2>1 DEF Entry
  <2> QED BY <2>2 DEF e
<1>3. undo' \in [Services -> Entry]
  <2>1. undo' = [s \in Services |-> undo'[s]]
    BY <1>1
  <2> QED BY <1>2, <2>1
<1>4. Entries' = Entries
  BY <1>2, SameEntries
<1>5. EvidenceFound'
  BY <1>2 DEF ProxyInv, EvidenceFound
<1>6. spent' \in [intrusions : 0..MaxIntrusions, faults : 0..MaxFaults]
  BY FaultTyped DEF Recover, ProxyInv, TypeOK
<1>7. CASE /\ \A s \in Entries : PermitsRetry(s)
           /\ op' = [op EXCEPT !.pc = "retry"] /\ jobs' = RestoreJobs
  <2>1. \A s \in Entries : os[s] = Theirs => undo[s].prev = Theirs
    BY <1>7 DEF PermitsRetry, ProxyInv, EvidenceFound, Entries
  <2>2. op' \in [pc : Pcs, kind : Kinds, claim : Claims \cup {NoClaim}] /\ op'.pc = "retry"
    BY <1>7, OpTyped DEF ProxyInv, TypeOK, Pcs
  <2>3. /\ jobs' \in Seq(Job)
        /\ \A i \in DOMAIN jobs' :
             /\ jobs'[i].svc \in Entries
             /\ jobs'[i].at = Theirs =>
                  undo[jobs'[i].svc].prev = Theirs /\ jobs'[i].path = <<>>
             /\ EndsAt(jobs'[i].path, undo[jobs'[i].svc].prev)
    BY <1>1, <1>7, <2>1, RestoreJobsTyped
  <2>4. TypeOK'
    BY <1>1, <1>3, <1>6, <2>2, <2>3 DEF ProxyInv, TypeOK, native, pac
  <2>5. EntriesKept'
    BY <1>1, <1>4, <2>2, <2>3 DEF EntriesKept, Writing
  <2>6. JobsFound'
    BY <1>2, <2>3 DEF JobsFound, JobFound, Entries
  <2> QED BY <1>5, <2>4, <2>5, <2>6 DEF ProxyInv
<1>8. CASE op' = Idle /\ jobs' = jobs
  <2>1. op'.pc = "idle"
    BY <1>8 DEF Idle
  <2>2. TypeOK'
    BY <1>1, <1>3, <1>6, <1>8, IdleTyped DEF ProxyInv, TypeOK, native, pac
  <2>3. EntriesKept' /\ JobsFound'
    BY <1>1, <1>4, <1>8, <2>1 DEF EntriesKept, JobsFound
  <2> QED BY <1>5, <2>2, <2>3 DEF ProxyInv
<1> QED BY <1>7, <1>8 DEF Recover

LEMMA ReobserveKeeps ==
    ASSUME ProxyInv, Reobserve
    PROVE  ProxyInv'
<1>1. /\ op.pc = "reobserve" /\ recovery /\ target \in Entries /\ jobs = <<>>
      /\ op' = Idle /\ op'.pc = "idle"
      /\ ObserveAgain({s \in Entries : undo[s].tried})
      /\ UNCHANGED <<native, prefs, accepted, pac, target, recovery, jobs, spent>>
  BY DEF Reobserve, ProxyInv, EntriesKept, Writing, Idle
<1>2. /\ undo' \in [Services -> Entry]
      /\ EvidenceFound' /\ Entries' = Entries
  <2>1. {s \in Entries : undo[s].tried} \in SUBSET Services
    BY DEF Entries
  <2> QED BY <1>1, <2>1, ObserveAgainTyped
<1>3. TypeOK'
  BY <1>1, <1>2, IdleTyped DEF ProxyInv, TypeOK, native, pac
<1>4. EntriesKept' /\ JobsFound'
  BY <1>1, <1>2 DEF EntriesKept, JobsFound
<1> QED BY <1>2, <1>3, <1>4 DEF ProxyInv

LEMMA RecoveredKeeps ==
    ASSUME ProxyInv, Recovered
    PROVE  ProxyInv'
<1>1. /\ undo' = NoUndo /\ target' = None /\ jobs' = <<>> /\ recovery' = FALSE
      /\ op' = [op EXCEPT !.pc = "claim"]
      /\ UNCHANGED <<native, prefs, accepted, minted, jobs, spent>>
  BY DEF Recovered, Written
<1>2. op' \in [pc : Pcs, kind : Kinds, claim : Claims \cup {NoClaim}] /\ op'.pc = "claim"
  BY <1>1, OpTyped DEF ProxyInv, TypeOK, Pcs
<1>3. running' \in Urls \cup {None} /\ retained' \in Urls \cup {None}
  BY DEF Recovered, ProxyInv, TypeOK
<1>4. TypeOK'
  BY <1>1, <1>2, <1>3, NoUndoTyped DEF ProxyInv, TypeOK, native
<1> QED BY <1>1, <1>2, <1>4, EndedKeeps DEF ProxyInv

-----------------------------------------------------------------------------
(* The world *)

LEMMA IntrusionKeeps ==
    ASSUME ProxyInv, NEW s \in Services, Intrusion(s)
    PROVE  ProxyInv'
<1>1. /\ writer' = [writer EXCEPT ![s] = "foreign"]
      /\ spent' = [spent EXCEPT !.intrusions = @ + 1] /\ spent.intrusions < MaxIntrusions
      /\ UNCHANGED <<prefs, accepted, pac, entries, recovery, op, jobs>>
  BY DEF Intrusion
<1>2. os' \in [Services -> States]
  <2>1. PICK x \in {On(Foreign), Off(On(Foreign)), Off(os[s])}
                 \cup (IF os[s].flag = "on" THEN {[os[s] EXCEPT !.flag = "half"]} ELSE {}) :
          os' = [os EXCEPT ![s] = x]
    BY DEF Intrusion
  <2>2. os[s] \in States
    BY DEF ProxyInv, TypeOK
  <2>3. /\ On(Foreign) \in States /\ Off(On(Foreign)) \in States /\ Off(os[s]) \in States
        /\ [os[s] EXCEPT !.flag = "half"] \in States
    BY <2>2 DEF On, Off, States, Addresses
  <2> QED BY <2>1, <2>3 DEF ProxyInv, TypeOK
<1>3. spent' \in [intrusions : 0..MaxIntrusions, faults : 0..MaxFaults]
  BY <1>1, ProxyAssumption DEF ProxyInv, TypeOK
<1>4. TypeOK'
  BY <1>1, <1>2, <1>3 DEF ProxyInv, TypeOK, pac, entries
<1>5. EntriesKept' /\ EvidenceFound' /\ JobsFound'
  BY <1>1 DEF ProxyInv, EntriesKept, Entries, EvidenceFound, JobsFound, JobFound, entries
<1> QED BY <1>4, <1>5 DEF ProxyInv

LEMMA CrashKeeps ==
    ASSUME ProxyInv, Crash
    PROVE  ProxyInv'
<1>1. /\ undo' = NoUndo /\ target' = None /\ jobs' = <<>> /\ recovery' = FALSE
      /\ op' = Idle /\ op'.pc = "idle"
  BY DEF Crash, Idle
<1>2. TypeOK'
  <2>1. writer' \in [Services -> {"us", "foreign"}]
    BY DEF Crash, ProxyInv, TypeOK
  <2>2. spent' \in [intrusions : 0..MaxIntrusions, faults : 0..MaxFaults]
    BY FaultTyped DEF Crash, ProxyInv
  <2>3. undo' \in [Services -> Entry] /\ jobs' \in Seq(Job)
    BY <1>1, NoUndoTyped, EmptySeq
  <2> QED BY <1>1, <2>1, <2>2, <2>3, IdleTyped DEF Crash, ProxyInv, TypeOK
<1> QED BY <1>1, <1>2, EndedKeeps DEF ProxyInv

-----------------------------------------------------------------------------
(* Theorems *)

LEMMA NextKeeps == ProxyInv /\ [Next]_vars => ProxyInv'
<1> SUFFICES ASSUME ProxyInv, [Next]_vars PROVE ProxyInv'
  OBVIOUS
<1>1. CASE UNCHANGED vars
  BY <1>1 DEF vars, native, pac, entries, ProxyInv, TypeOK, EntriesKept, Entries,
              EvidenceFound, JobsFound, JobFound
<1>2. CASE Begin
  BY <1>2, EnableKeeps, ReconcileKeeps, BeginReleaseKeeps DEF Begin
<1>3. CASE Step
  BY <1>3, ReconcileStagesKeeps, StageReleaseKeeps, CommandKeeps, WriteFailsKeeps,
     VerifiedKeeps, AppliedKeeps, PersistKeeps, PersistFailsKeeps, ClearKeeps,
     RollbackKeeps, RolledBackKeeps, SafeKeeps, SafetyEndsKeeps, GiveUpKeeps,
     RecoverKeeps, ReobserveKeeps, RecoveredKeeps
  DEF Step
<1>4. CASE \E s \in Services : Intrusion(s)
  BY <1>4, IntrusionKeeps
<1>5. CASE Crash
  BY <1>5, CrashKeeps
<1> QED BY <1>1, <1>2, <1>3, <1>4, <1>5 DEF Next

THEOREM Invariance == Spec => []ProxyInv
BY ProxyInit, NextKeeps, PTL DEF Spec

\* Every variable keeps its type (SystemProxy's TypeOK).
THEOREM TypeCorrect == Spec => []TypeOK
BY Invariance, PTL DEF ProxyInv

\* Evidence about another program's proxy is what the entry captured (NativeTransactionEntry,
\* NativeMutationWitness).
THEOREM EvidenceIsFound == Spec => []EvidenceFound
BY Invariance, PTL DEF ProxyInv

\* A step that is not another program's changes that program's proxy only by a command
\* of a staged change that found it there.
LEMMA ForeignStep ==
    ASSUME ProxyInv, [Next]_vars, NEW s \in Services,
           os[s] = Theirs, os'[s] # os[s], spent'.intrusions = spent.intrusions
    PROVE  op.pc = "apply" /\ op.kind \in {"enable", "restore"} /\ os[s] = undo[s].prev
<1>1. os' # os
  OBVIOUS
<1>2. ~UNCHANGED vars /\ ~Begin /\ ~Crash
  BY <1>1 DEF vars, Begin, Enable, Reconcile, BeginRelease, native, Crash
<1>3. ASSUME NEW t \in Services, Intrusion(t) PROVE FALSE
  BY <1>3 DEF Intrusion, ProxyInv, TypeOK
<1>4. Command
  <2>1. Step
    BY <1>2, <1>3 DEF Next
  <2> QED BY <1>1, <2>1
      DEF Step, native, ReconcileStages, StageRelease, WriteFails, Verified, Applied,
          Persist, PersistFails, Clear, Rollback, RolledBack, Safe, SafetyEnds, GiveUp,
          Recover, Reobserve, Recovered
<1>5. /\ Planned /\ jobs[1].path # <<>> /\ os[jobs[1].svc] = jobs[1].at
      /\ os' = [os EXCEPT ![jobs[1].svc] = jobs[1].path[1]]
  BY <1>1, <1>4 DEF Command, Observed, native
<1>6. 1 \in DOMAIN jobs /\ jobs[1].svc \in Services
  BY <1>5, CommandTyped
<1>7. s = jobs[1].svc
  BY <1>5, <1>6 DEF ProxyInv, TypeOK
<1> QED BY <1>5, <1>6, <1>7 DEF ProxyInv, JobsFound, JobFound

\* Another program's proxy is never changed by a release, a rollback, a safety release
\* or a recovery (SystemProxy's ForeignKept).
THEOREM ForeignIsKept == Spec => ForeignKept
<1>1. ProxyInv /\ [Next]_vars =>
        [\A s \in Services :
           os[s] = On(Foreign) /\ os'[s] # os[s] /\ spent'.intrusions = spent.intrusions
           => op.pc = "apply" /\ op.kind \in {"enable", "restore"} /\ os[s] = undo[s].prev]_vars
  BY ForeignStep DEF Theirs
<1> QED BY Invariance, <1>1, PTL DEF Spec, ForeignKept
=============================================================================
