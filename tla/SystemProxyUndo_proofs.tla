---------------------- MODULE SystemProxyUndo_proofs ----------------------
(***************************************************************************)
(* What a change of the system proxy leaves behind, for any network        *)
(* services, endpoints and PAC listeners, and any bounds: a rollback       *)
(* restores what it found, a proxy of ours can always be found again, and  *)
(* an active PAC setting of ours is served.                                *)
(***************************************************************************)
EXTENDS SystemProxy_proofs

Changing == {"apply", "persist", "rollback", "undo", "safety", "giveup"}

\* A release recovers, and looks at the claim, before it changes anything.
Releasing == {"recover", "retry", "reobserve", "claim"}

\* The change has a claim to make, and is not a release.
Claiming == op.claim # NoClaim

\* A transaction or a pending recovery has an entry for the last service and at most
\* one more; nothing else has one.
Shape ==
    /\ \A s, t \in Entries \ {target} : s = t
    /\ Entries # {} => op.pc \in Changing \/ recovery
    /\ op.kind \in {"release", "disable"} => ~Claiming
    /\ op.kind \in {"enable", "restore"} => op.claim \in Claims
    /\ op.pc \in Changing /\ Claiming => op.claim.svc = target /\ target \in Entries
    /\ op.pc \in Releasing => op.kind \in {"release", "disable"}
    /\ op.pc = "persist" => ~recovery /\ op.kind # "release"
    /\ op.pc = "clear" => ~recovery /\ op.kind = "release"

\* While something changes, the services it has no entry for show nothing of ours:
\* what was there when the change was staged has an entry.
Quiet(s) == Active(os[s]) => writer[s] = "foreign" /\ os[s].at \notin minted
Outside ==
    op.pc \in Changing \cup {"clear"} \/ recovery =>
        \A s \in Services \ Entries : Quiet(s)

\* The claim of the process and the persisted claim differ only while there is one.
ClaimsAgree == accepted = NoClaim \/ accepted = prefs.claim \/ prefs.claim = NoClaim

\* The persisted claim names x on service s.
Claimed(s, x) == x = On(prefs.claim.at) /\ prefs.claim.svc = s

\* What is ours on a service without an entry is claimed; what was ours on a service
\* with one was claimed when the change found it.
Tracked ==
    \A s \in Services \ Entries :
        writer[s] = "us" /\ Active(os[s]) => Claimed(s, os[s])
PrevTracked ==
    \A s \in Entries :
        /\ undo[s].by = "us" /\ Active(undo[s].prev) => Claimed(s, undo[s].prev)
        /\ os[s] = undo[s].prev /\ writer[s] = "us" => undo[s].by = "us"

\* Where the writes of a change, or of the restoration of its entries, lead.
Goal(s) ==
    IF op.pc \notin {"apply", "persist"} THEN undo[s].prev
    ELSE IF Claiming /\ s = target THEN On(op.claim.at)
    ELSE Off(undo[s].prev)
Leads(j) ==
    IF j.path = <<>> THEN j.at = Goal(j.svc) ELSE j.path[Len(j.path)] = Goal(j.svc)

\* A service shows y, or what another program made of it.
Settled(s, y) ==
    /\ os[s] = y \/ writer[s] = "foreign"
    /\ Active(os[s]) => os[s].at = Foreign \/ (os[s].at = y.at /\ Active(y))
Pending(s) == \E i \in DOMAIN jobs : jobs[i].svc = s

\* Every entry without a job left has reached its goal.
GoalsMet ==
    op.pc \in {"apply", "persist", "undo", "retry"} =>
        \A s \in Entries : Pending(s) \/ Settled(s, Goal(s))

\* The URL of the change under way, or of the one whose recovery is pending.
Candidates == {Candidate, retained} \ {None}

\* A write uses the address the entry found, one of the core's, or, on the last
\* service only, the URL of the change.
Usable(s, a) ==
    \/ a = undo[s].prev.at
    \/ a \in Endpoints
    \/ s = target /\ a \in Candidates
Served(s, x) ==
    Active(x) /\ x.at \in minted =>
        \/ x.at \in {running} \cup Candidates
        \/ undo[s].prev = Off(x)
JobKept(j) ==
    /\ op.pc \in {"apply", "undo", "retry"} => Leads(j)
    /\ j.at # NoState => Usable(j.svc, j.at.at)
    /\ \A k \in DOMAIN j.path : Usable(j.svc, j.path[k].at) /\ Served(j.svc, j.path[k])
JobsKept == \A i \in DOMAIN jobs : JobKept(jobs[i])
Known ==
    \A s \in Entries : \A x \in undo[s].known \cup {undo[s].observed} :
        x # NoState => Usable(s, x.at)

\* The running listener belongs to the claim of the process, and no other service
\* names its URL; a change's URL is new, and only its last service names it.
NewUrl(u) ==
    /\ u # running
    /\ \A s \in Services : undo[s].prev.at # u /\ (os[s].at = u => s = target)
Listeners ==
    /\ retained # None => recovery
    /\ running # None =>
         /\ running = accepted.at
         /\ \A s \in Services :
              running \in {os[s].at, undo[s].prev.at} => s = accepted.svc
    /\ \A u \in Candidates : NewUrl(u)
    /\ op.pc = "stage" /\ op.claim.at \in Urls =>
         /\ op.claim.at # running
         /\ \A s \in Services : os[s].at # op.claim.at

\* A PAC setting of ours that an entry found on is served by the running listener.
PrevServed ==
    \A s \in Entries :
        Active(undo[s].prev) /\ undo[s].prev.at \in minted => undo[s].prev.at = running

Ownership == Shape /\ Outside /\ ClaimsAgree /\ Tracked /\ PrevTracked /\ GoalsMet
Serving == JobsKept /\ Known /\ Listeners /\ PrevServed /\ PacServed
UndoInv == ProxyInv /\ Ownership /\ Serving

-----------------------------------------------------------------------------
(* Where commands lead, and which addresses they use *)

\* The last command of p is y; without one x is y.
EndsIn(p, x, y) == IF p = <<>> THEN x = y ELSE p[Len(p)] = y

\* A command z of a write from x to y uses one of their addresses, and is active only
\* if the state it takes the address from is, or if the address itself is new.
Between(z, x, y) ==
    /\ z.at \in {x.at, y.at}
    /\ Active(z) => \/ z.at = x.at /\ Active(x)
                    \/ z.at = y.at /\ (Active(y) \/ x.at # y.at)
AllBetween(p, x, y) == \A k \in DOMAIN p : Between(p[k], x, y)

LEMMA OneBetween ==
    ASSUME NEW x, NEW y, NEW u, NEW a \in States, Between(a, x, y)
    PROVE  AllBetween(<<a>>, x, y) /\ EndsIn(<<a>>, u, a) /\ <<a>> \in Seq(States)
BY DEF AllBetween, EndsIn

LEMMA TwoBetween ==
    ASSUME NEW x, NEW y, NEW u, NEW a \in States, NEW b \in States,
           Between(a, x, y), Between(b, x, y)
    PROVE  AllBetween(<<a, b>>, x, y) /\ EndsIn(<<a, b>>, u, b) /\ <<a, b>> \in Seq(States)
BY DEF AllBetween, EndsIn

LEMMA SwitchOffBetween ==
    ASSUME NEW x \in States, NEW y \in States
    PROVE  /\ AllBetween(SwitchOff(x), x, y)
           /\ EndsIn(SwitchOff(x), x, Off(x))
           /\ SwitchOff(x) \in Seq(States)
<1> DEFINE half == [x EXCEPT !.flag = "half"]  off == Off(x)  on == On(x.at)
<1>1. off \in States /\ Between(off, x, y)
  BY DEF States, Off, Between, Active
<1>2. ASSUME Active(x)
      PROVE  half \in States /\ on \in States /\ Between(half, x, y) /\ Between(on, x, y)
  BY <1>2 DEF States, On, Between
<1>3. \/ SwitchOff(x) = <<>> /\ x = off
      \/ SwitchOff(x) = <<off>>
      \/ Active(x) /\ SwitchOff(x) \in {<<half, off>>, <<on, off>>}
  BY DEF SwitchOff, States, Active, Off
<1>4. <<>> \in Seq(States) /\ AllBetween(<<>>, x, y)
  BY EmptySeq DEF AllBetween
<1> HIDE DEF half, off, on
<1>5. CASE SwitchOff(x) = <<>> /\ x = off
  BY <1>4, <1>5 DEF EndsIn, off
<1>6. CASE SwitchOff(x) = <<off>>
  <2>1. AllBetween(<<off>>, x, y) /\ EndsIn(<<off>>, x, off) /\ <<off>> \in Seq(States)
    BY <1>1, OneBetween
  <2> QED BY <1>6, <2>1 DEF off
<1>7. CASE Active(x) /\ SwitchOff(x) \in {<<half, off>>, <<on, off>>}
  <2> DEFINE a == IF SwitchOff(x) = <<half, off>> THEN half ELSE on
  <2>1. a \in States /\ Between(a, x, y) /\ SwitchOff(x) = <<a, off>>
    BY <1>2, <1>7
  <2> HIDE DEF a
  <2>2. /\ AllBetween(<<a, off>>, x, y) /\ EndsIn(<<a, off>>, x, off)
        /\ <<a, off>> \in Seq(States)
    BY <1>1, <2>1, TwoBetween
  <2> QED BY <2>1, <2>2 DEF off
<1> QED BY <1>3, <1>5, <1>6, <1>7

LEMMA SetAddressBetween ==
    ASSUME NEW x \in States, NEW y \in States
    PROVE  /\ AllBetween(SetAddress(x, y), x, y)
           /\ EndsIn(SetAddress(x, y), Off(x), Off(y))
           /\ SetAddress(x, y) \in Seq(States)
<1> DEFINE first == [at |-> y.at, flag |-> IF y.at \in Urls THEN "on" ELSE "half"]
           off == Off(y)
<1>1. CASE x.at = y.at
  <2>1. SetAddress(x, y) = <<>> /\ Off(x) = Off(y)
    BY <1>1 DEF SetAddress, Off, States
  <2> QED BY <2>1, EmptySeq DEF AllBetween, EndsIn
<1>2. CASE x.at # y.at
  <2>1. first \in States /\ off \in States /\ Between(first, x, y) /\ Between(off, x, y)
    BY <1>2 DEF States, Off, Between, Active
  <2>2. SetAddress(x, y) = <<first, off>>
    BY <1>2 DEF SetAddress
  <2> HIDE DEF first, off
  <2>3. /\ AllBetween(<<first, off>>, x, y) /\ EndsIn(<<first, off>>, Off(x), off)
        /\ <<first, off>> \in Seq(States)
    BY <2>1, TwoBetween
  <2> QED BY <2>2, <2>3 DEF off
<1> QED BY <1>1, <1>2

LEMMA SwitchOnBetween ==
    ASSUME NEW x \in States, NEW y \in States
    PROVE  /\ AllBetween(SwitchOn(y), x, y)
           /\ EndsIn(SwitchOn(y), Off(y), y)
           /\ SwitchOn(y) \in Seq(States)
<1> DEFINE half == [y EXCEPT !.flag = "half"]
<1>1. CASE ~Active(y)
  <2>1. SwitchOn(y) = <<>> /\ Off(y) = y
    BY <1>1 DEF SwitchOn, Off, States, Active
  <2> QED BY <2>1, EmptySeq DEF AllBetween, EndsIn
<1>2. CASE Active(y)
  <2>1. half \in States /\ Between(half, x, y) /\ Between(y, x, y)
    BY <1>2 DEF States, Between
  <2>2. SwitchOn(y) = <<half, y>> \/ SwitchOn(y) = <<y>>
    BY <1>2 DEF SwitchOn, Active
  <2> HIDE DEF half
  <2>3. CASE SwitchOn(y) = <<half, y>>
    BY <2>1, <2>3, TwoBetween
  <2>4. CASE SwitchOn(y) = <<y>>
    BY <2>1, <2>4, OneBetween
  <2> QED BY <2>2, <2>3, <2>4
<1> QED BY <1>1, <1>2

\* One write after another.
LEMMA BetweenConcat ==
    ASSUME NEW p \in Seq(States), NEW q \in Seq(States), NEW x, NEW y,
           NEW u, NEW v, NEW w, AllBetween(p, x, y), AllBetween(q, x, y),
           EndsIn(p, u, v), EndsIn(q, v, w)
    PROVE  p \o q \in Seq(States) /\ AllBetween(p \o q, x, y) /\ EndsIn(p \o q, u, w)
<1>1. /\ p \o q \in Seq(States) /\ Len(p \o q) = Len(p) + Len(q)
      /\ \A i \in 1..(Len(p) + Len(q)) :
           (p \o q)[i] = IF i <= Len(p) THEN p[i] ELSE q[i - Len(p)]
  BY ConcatProperties
<1>2. /\ Len(p) \in Nat /\ DOMAIN p = 1..Len(p) /\ (p = <<>> <=> Len(p) = 0)
      /\ Len(q) \in Nat /\ DOMAIN q = 1..Len(q) /\ (q = <<>> <=> Len(q) = 0)
      /\ DOMAIN (p \o q) = 1..Len(p \o q) /\ (p \o q = <<>> <=> Len(p \o q) = 0)
  BY <1>1, LenProperties, EmptySeq
<1> DEFINE r == p \o q
<1> HIDE DEF r
<1>3. AllBetween(r, x, y)
  <2> SUFFICES ASSUME NEW k \in DOMAIN r PROVE Between(r[k], x, y)
    BY DEF AllBetween
  <2>1. CASE k <= Len(p)
    BY <1>1, <1>2, <2>1 DEF AllBetween, r
  <2>2. CASE k > Len(p)
    <3>1. r[k] = q[k - Len(p)] /\ k - Len(p) \in DOMAIN q
      BY <1>1, <1>2, <2>2 DEF r
    <3> QED BY <3>1 DEF AllBetween
  <2> QED BY <1>1, <1>2, <2>1, <2>2 DEF r
<1>4. EndsIn(r, u, w)
  <2>1. CASE q = <<>>
    BY <1>1, <1>2, <2>1 DEF EndsIn, r
  <2>2. CASE q # <<>>
    <3>1. r # <<>> /\ r[Len(r)] = q[Len(q)]
      BY <1>1, <1>2, <2>2 DEF r
    <3> QED BY <2>2, <3>1 DEF EndsIn
  <2> QED BY <2>1, <2>2
<1> QED BY <1>1, <1>3, <1>4 DEF r

LEMMA CommandsLead ==
    ASSUME NEW x \in States, NEW y \in States
    PROVE  EndsIn(Commands(x, y), x, y) /\ AllBetween(Commands(x, y), x, y)
<1> DEFINE p == SwitchOff(x)  q == SetAddress(x, y)  r == SwitchOn(y)
<1>1. CASE x = y
  BY <1>1 DEF Commands, EndsIn, AllBetween
<1>2. CASE x # y
  <2>1. /\ p \in Seq(States) /\ AllBetween(p, x, y) /\ EndsIn(p, x, Off(x))
        /\ q \in Seq(States) /\ AllBetween(q, x, y) /\ EndsIn(q, Off(x), Off(y))
        /\ r \in Seq(States) /\ AllBetween(r, x, y) /\ EndsIn(r, Off(y), y)
    BY SwitchOffBetween, SetAddressBetween, SwitchOnBetween
  <2>2. Commands(x, y) = (p \o q) \o r
    BY <1>2 DEF Commands
  <2> HIDE DEF p, q, r
  <2> DEFINE pq == p \o q
  <2>3. pq \in Seq(States) /\ AllBetween(pq, x, y) /\ EndsIn(pq, x, Off(y))
    BY <2>1, BetweenConcat
  <2> HIDE DEF pq
  <2>4. AllBetween(pq \o r, x, y) /\ EndsIn(pq \o r, x, y)
    BY <2>1, <2>3, BetweenConcat
  <2> QED BY <2>2, <2>4 DEF pq
<1> QED BY <1>1, <1>2

-----------------------------------------------------------------------------
(* The initial states, and what the steps have in common *)

LEMMA Apart ==
    /\ Foreign \notin Urls /\ None \notin Urls /\ None \notin Endpoints /\ None # Foreign
    /\ None \notin Services /\ Endpoints \cap Urls = {}
    /\ NoState.at = None /\ ~Active(NoState)
    /\ NoClaim.at = None /\ NoClaim.svc = None /\ NoClaim \notin Claims
BY ProxyAssumption DEF Addresses, NoState, NoClaim, Active, Claims

\* What the entries and the settings are.
LEMMA StateTyped ==
    ASSUME ProxyInv, NEW s \in Services
    PROVE  /\ os[s] \in States /\ os[s].at \in Addresses /\ os[s].at # None
           /\ undo[s].prev \in States \cup {NoState}
           /\ s \in Entries => undo[s].prev \in States
           /\ s \notin Entries => undo[s].prev = NoState
           /\ undo[s].known \subseteq States
           /\ undo[s].observed \in States \cup {NoState}
           /\ NoState \notin States
BY ProxyAssumption, NoStateApart
DEF ProxyInv, TypeOK, Entry, Entries, States, Addresses

LEMMA UndoInit == Init => UndoInv
<1> SUFFICES ASSUME Init PROVE UndoInv
  OBVIOUS
<1>1. ProxyInv
  BY ProxyInit
<1>2. /\ jobs = <<>> /\ op.pc = "idle" /\ op.kind = "release" /\ op.claim = NoClaim
      /\ recovery = FALSE /\ retained = None /\ running = None /\ minted = {}
      /\ accepted = NoClaim /\ \A s \in Services : writer[s] = "foreign"
      /\ \A s \in Services : undo[s] = NoEntry
  BY DEF Init, Idle, NoUndo
<1>3. Entries = {}
  BY <1>2 DEF Entries, NoEntry
<1>4. Candidates = {}
  BY <1>2, Apart DEF Candidates, Candidate
<1>5. Shape
  BY <1>2, <1>3 DEF Shape, Changing, Claiming
<1>6. Ownership
  BY <1>2, <1>3, <1>5
  DEF Ownership, Outside, Changing, ClaimsAgree, Tracked, PrevTracked, GoalsMet
<1>7. Serving
  BY <1>2, <1>3, <1>4 DEF Serving, JobsKept, Known, Listeners, PrevServed, PacServed
<1> QED BY <1>1, <1>6, <1>7 DEF UndoInv

\* A step that changes neither the settings nor the claims, and no entry's previous state.
LEMMA OwnershipStays ==
    ASSUME UndoInv, UNCHANGED <<native, prefs, accepted>>,
           \A s \in Services : undo'[s].prev = undo[s].prev /\ undo'[s].by = undo[s].by
    PROVE  ClaimsAgree' /\ Tracked' /\ PrevTracked' /\ Entries' = Entries
<1>1. Entries' = Entries /\ Entries \subseteq Services
  BY SameEntries DEF Entries
<1>2. ClaimsAgree' /\ Tracked' /\ PrevTracked'
  BY <1>1 DEF UndoInv, Ownership, ClaimsAgree, Tracked, PrevTracked, Claimed, native
<1> QED BY <1>1, <1>2

\* A step that changes no setting, no listener and no URL under way.
LEMMA ServingStays ==
    ASSUME UndoInv, UNCHANGED <<native, accepted, pac, target, recovery>>,
           \A s \in Services : undo'[s].prev = undo[s].prev,
           Candidate' = Candidate,
           op'.pc = "stage" /\ op'.claim.at \in Urls =>
             /\ op'.claim.at # running
             /\ \A s \in Services : os[s].at # op'.claim.at
    PROVE  Listeners' /\ PrevServed' /\ PacServed' /\ Candidates' = Candidates
<1>1. Entries' = Entries /\ Entries \subseteq Services
  BY SameEntries DEF Entries
<1>2. Candidates' = Candidates
  BY DEF Candidates, pac
<1>3. Listeners'
  BY <1>2 DEF UndoInv, Serving, Listeners, NewUrl, native, pac
<1>4. PrevServed' /\ PacServed'
  BY <1>1 DEF UndoInv, Serving, PrevServed, PacServed, native, pac
<1> QED BY <1>2, <1>3, <1>4

\* A URL under way stays under way until the operation ends.
LEMMA CandidateSame ==
    ASSUME \/ op.pc \in Changing /\ op'.pc \in Changing /\ op'.claim = op.claim
           \/ op.pc \notin Changing /\ op'.pc \notin Changing
    PROVE  Candidate' = Candidate
BY DEF Candidate, Changing

\* A step that only moves the operation along.
LEMMA ControlKeeps ==
    ASSUME UndoInv, ProxyInv',
           UNCHANGED <<native, prefs, accepted, pac, target, recovery>>,
           \A s \in Services : /\ undo'[s].prev = undo[s].prev
                               /\ undo'[s].by = undo[s].by
                               /\ undo'[s].known = undo[s].known
                               /\ undo'[s].observed = undo[s].observed,
           Candidate' = Candidate,
           op'.pc = "stage" /\ op'.claim.at \in Urls =>
             /\ op'.claim.at # running
             /\ \A s \in Services : os[s].at # op'.claim.at,
           op'.pc \in Changing \cup {"clear"} =>
             \/ op.pc \in Changing \cup {"clear"} \/ recovery
             \/ \A s \in Services \ Entries : Quiet(s),
           Shape', GoalsMet', JobsKept'
    PROVE  UndoInv'
<1>1. ClaimsAgree' /\ Tracked' /\ PrevTracked' /\ Entries' = Entries
  BY OwnershipStays
<1>2. Listeners' /\ PrevServed' /\ PacServed' /\ Candidates' = Candidates
  BY ServingStays
<1>3. Outside'
  BY <1>1 DEF UndoInv, Ownership, Outside, Quiet, native, pac
<1>4. Known'
  <2>1. Entries \subseteq Services
    BY DEF Entries
  <2> QED BY <1>1, <1>2, <2>1 DEF UndoInv, Serving, Known, Usable
<1> QED BY <1>1, <1>2, <1>3, <1>4 DEF UndoInv, Ownership, Serving

\* The operation stays within its change.
LEMMA ShapeStays ==
    ASSUME UndoInv, Entries' = Entries, UNCHANGED <<target, recovery>>,
           op'.kind = op.kind, op'.claim = op.claim,
           op.pc \in Changing, op'.pc \in Changing \ {"persist"}
    PROVE  Shape'
BY DEF UndoInv, Ownership, Shape, Releasing, Changing, Claiming

-----------------------------------------------------------------------------
(* Steps that only move the operation along *)

\* Between changes, whatever is ours is claimed, and whatever names a URL of this
\* process is served by the listener of its claim.
LEMMA OursIsClaimed ==
    ASSUME UndoInv, ~recovery, op.pc \notin Changing, NEW s \in Services, Active(os[s])
    PROVE  /\ Entries = {} /\ retained = None /\ Candidate = None
           /\ writer[s] = "us" =>
                /\ CurrentClaim # NoClaim /\ CurrentClaim = prefs.claim
                /\ CurrentClaim.svc = s /\ Matches(CurrentClaim)
           /\ os[s].at \in minted =>
                /\ running # None /\ os[s].at = running
                /\ CurrentClaim # NoClaim /\ CurrentClaim = accepted
                /\ CurrentClaim.svc = s /\ References(CurrentClaim)
<1>1. Entries = {} /\ retained = None /\ Candidate = None /\ Candidates = {}
  BY DEF UndoInv, Ownership, Shape, Serving, Listeners, Candidate, Candidates, Changing
<1>2. ASSUME writer[s] = "us"
      PROVE  /\ CurrentClaim # NoClaim /\ CurrentClaim = prefs.claim
             /\ CurrentClaim.svc = s /\ Matches(CurrentClaim)
  <2>1. Claimed(s, os[s])
    BY <1>1, <1>2 DEF UndoInv, Ownership, Tracked
  <2>2. prefs.claim # NoClaim
    BY <2>1, Apart DEF Claimed
  <2>3. CurrentClaim = prefs.claim
    BY <2>2 DEF UndoInv, Ownership, ClaimsAgree, CurrentClaim
  <2> QED BY <2>1, <2>2, <2>3 DEF Claimed, Matches
<1>3. ASSUME os[s].at \in minted
      PROVE  /\ running # None /\ os[s].at = running
             /\ CurrentClaim # NoClaim /\ CurrentClaim = accepted
             /\ CurrentClaim.svc = s /\ References(CurrentClaim)
  <2>1. os[s].at # None /\ undo[s].prev # Off(os[s])
    BY <1>1, StateTyped, Apart DEF UndoInv, Off, NoState
  <2>2. os[s].at = running /\ running # None
    BY <1>1, <1>3, <2>1 DEF UndoInv, Serving, PacServed
  <2>3. accepted.at = running /\ accepted.svc = s
    BY <2>2 DEF UndoInv, Serving, Listeners
  <2>4. accepted # NoClaim
    BY <2>2, <2>3, Apart
  <2> QED BY <2>2, <2>3, <2>4 DEF CurrentClaim, References
<1> QED BY <1>1, <1>2, <1>3

LEMMA ReconcileUndo ==
    ASSUME UndoInv, NEW c \in Claims, Reconcile(c)
    PROVE  UndoInv'
<1>1. /\ op.pc = "idle" /\ op' = [pc |-> "stage", kind |-> "restore", claim |-> c]
      /\ UNCHANGED <<native, prefs, accepted, pac, entries, recovery, jobs, spent>>
      /\ UNCHANGED <<target, undo>>
      /\ c.at \in Urls => Fresh(c.at)
  BY Apart DEF Reconcile, Offered, entries
<1>2. jobs = <<>>
  BY <1>1 DEF UndoInv, ProxyInv, EntriesKept, Writing
<1>3. Candidate' = Candidate
  BY <1>1, CandidateSame DEF Changing
<1>4. c.at \in Urls => c.at # running /\ \A s \in Services : os[s].at # c.at
  BY <1>1 DEF Fresh
<1>5. Shape'
  BY <1>1 DEF UndoInv, Ownership, Shape, Releasing, Changing, Claiming, Entries
<1>6. GoalsMet' /\ JobsKept'
  BY <1>1, <1>2 DEF GoalsMet, JobsKept
<1>7. ProxyInv'
  BY ReconcileKeeps DEF UndoInv
<1> QED BY <1>1, <1>3, <1>4, <1>5, <1>6, <1>7, ControlKeeps DEF Changing

LEMMA BeginReleaseUndo ==
    ASSUME UndoInv, NEW kind \in {"disable", "release"}, BeginRelease(kind)
    PROVE  UndoInv'
<1>1. /\ op.pc = "idle"
      /\ op' = [pc |-> IF recovery THEN "recover" ELSE "claim", kind |-> kind, claim |-> NoClaim]
      /\ UNCHANGED <<native, prefs, accepted, pac, recovery, jobs, target, undo>>
  BY DEF BeginRelease, entries
<1>2. jobs = <<>>
  BY <1>1 DEF UndoInv, ProxyInv, EntriesKept, Writing
<1>3. Candidate' = Candidate
  BY <1>1, CandidateSame DEF Changing
<1>4. Shape'
  BY <1>1 DEF UndoInv, Ownership, Shape, Changing, Claiming, Entries
<1>5. GoalsMet' /\ JobsKept'
  BY <1>1, <1>2 DEF GoalsMet, JobsKept, Pending, Settled, Goal, UndoInv, Ownership, Shape,
                    Entries, Changing
<1>6. ProxyInv'
  BY BeginReleaseKeeps DEF UndoInv
<1> QED BY <1>1, <1>3, <1>4, <1>5, <1>6, ControlKeeps DEF Changing

\* The operation ends without having changed anything.
LEMMA NothingDoneUndo ==
    ASSUME UndoInv, ProxyInv', op' = Idle, jobs = <<>>, jobs' = jobs, Candidate = None,
           op.pc \in Changing => Entries = {},
           UNCHANGED <<native, prefs, accepted, pac, entries, recovery>>
    PROVE  UndoInv'
<1>1. /\ op'.pc = "idle" /\ op'.kind = "release" /\ op'.claim = NoClaim
      /\ UNCHANGED <<target, undo>> /\ Entries' = Entries
  BY DEF Idle, entries, Entries
<1>2. Candidate' = Candidate
  BY <1>1 DEF Candidate
<1>3. Shape'
  BY <1>1 DEF UndoInv, Ownership, Shape, Changing, Claiming
<1>4. GoalsMet' /\ JobsKept'
  BY <1>1 DEF GoalsMet, JobsKept
<1> QED BY <1>1, <1>2, <1>3, <1>4, ControlKeeps DEF Changing

\* What a failing write leads to.
LEMMA FailEffect ==
    ASSUME UndoInv, op.pc \in Writing, jobs # <<>>, Fail
    PROVE  /\ op'.kind = op.kind /\ op'.claim = op.claim
           /\ op'.pc \in {"rollback", "safety", "reobserve", "giveup"}
           /\ op.pc = "retry" <=> op'.pc = "reobserve"
           /\ Candidate' = Candidate
           /\ target \in Entries
           /\ GoalsMet' /\ JobsKept'
<1>1. op' = [op EXCEPT !.pc = Failed(op.pc)] /\ op'.pc = Failed(op.pc)
      /\ op'.kind = op.kind /\ op'.claim = op.claim
  BY DEF Fail, UndoInv, ProxyInv, TypeOK
<1>2. \/ op.pc = "apply" /\ op'.pc = "rollback"
      \/ op.pc = "undo" /\ op'.pc = "safety"
      \/ op.pc = "retry" /\ op'.pc = "reobserve"
      \/ op.pc = "safety" /\ op'.pc = "giveup"
  BY <1>1 DEF Failed, Writing
<1>3. Candidate' = Candidate
  BY <1>1, <1>2, CandidateSame DEF Changing
<1>4. target \in Entries
  <2>1. jobs[1].svc \in Entries
    BY TailJobs DEF UndoInv, ProxyInv, EntriesKept, TypeOK
  <2> QED BY <2>1, <1>2 DEF UndoInv, ProxyInv, EntriesKept
<1>5. \A i \in DOMAIN jobs' : jobs'[i].at = NoState /\ jobs'[i].path = <<>>
  BY <1>4, EmptySeq, SafetyJobsTyped DEF Fail, UndoInv
<1>6. GoalsMet' /\ JobsKept'
  BY <1>2, <1>5 DEF GoalsMet, JobsKept, JobKept
<1> QED BY <1>1, <1>2, <1>3, <1>4, <1>6

LEMMA WriteFailsUndo ==
    ASSUME UndoInv, WriteFails
    PROVE  UndoInv'
<1>1. /\ op.pc \in Writing /\ jobs # <<>> /\ Fail
      /\ UNCHANGED <<native, prefs, accepted, pac, target, recovery, undo>>
  BY DEF WriteFails, Planned, entries
<1>2. /\ op'.kind = op.kind /\ op'.claim = op.claim
      /\ op'.pc \in {"rollback", "safety", "reobserve", "giveup"}
      /\ op.pc = "retry" <=> op'.pc = "reobserve"
      /\ Candidate' = Candidate /\ GoalsMet' /\ JobsKept'
  BY <1>1, FailEffect
<1>3. Entries' = Entries
  BY <1>1 DEF Entries
<1>4. Shape'
  BY <1>1, <1>2, <1>3 DEF UndoInv, Ownership, Shape, Releasing, Changing, Claiming, Writing,
                          ProxyInv, EntriesKept
<1>5. ProxyInv'
  BY WriteFailsKeeps DEF UndoInv
<1> QED BY <1>1, <1>2, <1>4, <1>5, ControlKeeps DEF Changing, Writing

LEMMA PersistFailsUndo ==
    ASSUME UndoInv, PersistFails
    PROVE  UndoInv'
<1>1. /\ op.pc = "persist" /\ jobs = <<>> /\ jobs' = jobs
      /\ UNCHANGED <<native, prefs, accepted, pac, entries, recovery, target, undo>>
  BY DEF PersistFails, UndoInv, ProxyInv, EntriesKept, Writing, entries
<1>2. ProxyInv'
  BY PersistFailsKeeps DEF UndoInv
<1>3. CASE Entries = {}
  <2>1. op' = Idle
    BY <1>3 DEF PersistFails
  <2>2. Candidate = None
    BY <1>1, <1>3, Apart DEF Candidate, Changing, UndoInv, Ownership, Shape, Claiming
  <2> QED BY <1>1, <1>2, <1>3, <2>1, <2>2, NothingDoneUndo
<1>4. CASE Entries # {}
  <2>1. op' = [op EXCEPT !.pc = "rollback"] /\ op'.pc = "rollback"
        /\ op'.kind = op.kind /\ op'.claim = op.claim
    BY <1>4 DEF PersistFails, UndoInv, ProxyInv, TypeOK
  <2>2. Entries' = Entries
    BY <1>1 DEF Entries
  <2>3. Shape' /\ Candidate' = Candidate
    BY <1>1, <2>1, <2>2, ShapeStays, CandidateSame DEF Changing
  <2>4. GoalsMet' /\ JobsKept'
    BY <1>1, <2>1 DEF GoalsMet, JobsKept
  <2> QED BY <1>1, <1>2, <2>1, <2>3, <2>4, ControlKeeps DEF Changing
<1> QED BY <1>3, <1>4

LEMMA ReconcileStagesRefusedUndo ==
    ASSUME UndoInv, ReconcileStages, op' = Idle, UNCHANGED <<entries, minted, jobs>>
    PROVE  UndoInv'
<1>1. /\ op.pc = "stage" /\ jobs = <<>> /\ Candidate = None
      /\ UNCHANGED <<native, prefs, accepted, pac, entries, recovery>>
  BY DEF ReconcileStages, UndoInv, ProxyInv, EntriesKept, Writing, Candidate, pac
<1>2. ProxyInv'
  BY ReconcileStagesKeeps DEF UndoInv
<1> QED BY <1>1, <1>2, NothingDoneUndo DEF Changing

LEMMA ReleaseEndsUndo ==
    ASSUME UndoInv, StageRelease, ReleaseRefused \/ ReleaseNothing
    PROVE  UndoInv'
<1>1. /\ op.pc = "claim" /\ jobs = <<>> /\ jobs' = jobs /\ ~recovery /\ Candidate = None
      /\ UNCHANGED <<native, prefs, accepted, pac, entries, recovery, target, undo>>
  BY DEF StageRelease, ReleaseRefused, ReleaseNothing, UndoInv, ProxyInv, EntriesKept,
         Writing, Candidate, pac, entries
<1>2. ProxyInv'
  BY StageReleaseKeeps DEF UndoInv
<1>3. CASE op' = Idle
  BY <1>1, <1>2, <1>3, NothingDoneUndo DEF Changing
<1>4. CASE op' # Idle
  <2>1. /\ CurrentClaim = NoClaim /\ op.kind = "disable" /\ op' = [op EXCEPT !.pc = "persist"]
    BY <1>4 DEF ReleaseRefused, ReleaseNothing
  <2>2. op'.pc = "persist" /\ op'.kind = "disable" /\ op'.claim = op.claim /\ op.claim = NoClaim
    BY <2>1 DEF UndoInv, ProxyInv, TypeOK, Ownership, Shape, Claiming
  <2>3. Candidate' = Candidate
    BY <1>1, <2>2, Apart DEF Candidate
  <2>4. \A s \in Services \ Entries : Quiet(s)
    <3> SUFFICES ASSUME NEW s \in Services, Active(os[s]) PROVE Quiet(s)
      BY DEF Quiet
    <3>1. writer[s] # "us" /\ os[s].at \notin minted
      BY <1>1, <2>1, OursIsClaimed DEF Changing
    <3> QED BY <3>1 DEF Quiet, UndoInv, ProxyInv, TypeOK
  <2>5. Entries' = Entries
    BY <1>1 DEF Entries
  <2>6. Shape'
    BY <1>1, <2>2, <2>5 DEF UndoInv, Ownership, Shape, Changing, Claiming
  <2>7. Entries = {}
    BY <1>1 DEF UndoInv, Ownership, Shape, Changing
  <2>8. GoalsMet' /\ JobsKept'
    BY <1>1, <2>5, <2>7 DEF GoalsMet, JobsKept
  <2> QED BY <1>1, <1>2, <2>2, <2>3, <2>4, <2>6, <2>8, ControlKeeps DEF Changing
<1> QED BY <1>3, <1>4

\* A change with an intent to persist has been applied.
LEMMA AppliedPersistsUndo ==
    ASSUME UndoInv, Applied, op.kind # "release"
    PROVE  UndoInv'
<1>1. /\ op.pc = "apply" /\ jobs = <<>> /\ jobs' = jobs /\ ~recovery
      /\ op' = [op EXCEPT !.pc = "persist"]
      /\ UNCHANGED <<native, prefs, accepted, pac, recovery, target, undo>>
  BY DEF Applied, Written, UndoInv, ProxyInv, EntriesKept, pac, entries
<1>2. op'.pc = "persist" /\ op'.kind = op.kind /\ op'.claim = op.claim
  BY <1>1 DEF UndoInv, ProxyInv, TypeOK
<1>3. Entries' = Entries
  BY <1>1 DEF Entries
<1>4. Candidate' = Candidate
  BY <1>1, <1>2, CandidateSame DEF Changing
<1>5. Shape'
  BY <1>1, <1>2, <1>3 DEF UndoInv, Ownership, Shape, Releasing, Changing, Claiming
<1>6. GoalsMet' /\ JobsKept'
  BY <1>1, <1>2, <1>3 DEF UndoInv, Ownership, GoalsMet, JobsKept, Pending, Settled, Goal,
                          Claiming, native
<1>7. ProxyInv'
  BY AppliedKeeps DEF UndoInv
<1> QED BY <1>1, <1>2, <1>4, <1>5, <1>6, <1>7, ControlKeeps DEF Changing

LEMMA SafetyEndsUndo ==
    ASSUME UndoInv, SafetyEnds
    PROVE  UndoInv'
<1>1. /\ op.pc = "safety" /\ jobs = <<>> /\ jobs' = jobs
      /\ op' = [op EXCEPT !.pc = "giveup"]
      /\ UNCHANGED <<native, prefs, accepted, pac, recovery, target, undo>>
  BY DEF SafetyEnds, Written, entries
<1>2. op'.pc = "giveup" /\ op'.kind = op.kind /\ op'.claim = op.claim
  BY <1>1 DEF UndoInv, ProxyInv, TypeOK
<1>3. Entries' = Entries
  BY <1>1 DEF Entries
<1>4. Candidate' = Candidate /\ Shape'
  BY <1>1, <1>2, <1>3, CandidateSame, ShapeStays DEF Changing
<1>5. GoalsMet' /\ JobsKept'
  BY <1>1, <1>2 DEF GoalsMet, JobsKept
<1>6. ProxyInv'
  BY SafetyEndsKeeps DEF UndoInv
<1> QED BY <1>1, <1>2, <1>4, <1>5, <1>6, ControlKeeps DEF Changing

\* A release whose metadata could not be cleared.
LEMMA ClearFailsUndo ==
    ASSUME UndoInv, Clear, UNCHANGED prefs
    PROVE  UndoInv'
<1>1. /\ op.pc = "clear" /\ op' = Idle /\ jobs = <<>> /\ jobs' = jobs /\ Candidate = None
      /\ UNCHANGED <<native, prefs, accepted, pac, entries, recovery>>
  BY DEF Clear, UndoInv, ProxyInv, EntriesKept, Writing, Candidate
<1>2. ProxyInv'
  BY ClearKeeps DEF UndoInv
<1> QED BY <1>1, <1>2, NothingDoneUndo DEF Changing

-----------------------------------------------------------------------------
(* Restoring *)

LEMMA AtMostOne ==
    ASSUME NEW S, NEW u \in Seq(S), Len(u) = 1, NEW p \in {<<>>, u}
    PROVE  p \in Seq(S) /\ Len(p) \in {0, 1} /\ (p = u <=> Len(p) = 1)
<1>1. <<>> \in Seq(S) /\ Len(<<>>) = 0
  OBVIOUS
<1>2. CASE p = <<>>
  BY <1>1, <1>2
<1>3. CASE p = u
  BY <1>3
<1> QED BY <1>2, <1>3

\* At most two jobs, one after the other.
LEMMA TwoJobs ==
    ASSUME NEW a, NEW b, NEW p \in {<<>>, <<a>>}, NEW q \in {<<>>, <<b>>}
    PROVE  /\ \A i \in DOMAIN (p \o q) : \/ p = <<a>> /\ (p \o q)[i] = a
                                         \/ q = <<b>> /\ (p \o q)[i] = b
           /\ p = <<a>> => \E i \in DOMAIN (p \o q) : (p \o q)[i] = a
           /\ q = <<b>> => \E i \in DOMAIN (p \o q) : (p \o q)[i] = b
<1> DEFINE S == {a, b}
<1>1. /\ p \in Seq(S) /\ Len(p) \in {0, 1} /\ (p = <<a>> <=> Len(p) = 1)
      /\ (p = <<a>> => p[1] = a)
      /\ q \in Seq(S) /\ Len(q) \in {0, 1} /\ (q = <<b>> <=> Len(q) = 1)
      /\ (q = <<b>> => q[1] = b)
  <2>1. /\ <<a>> \in Seq(S) /\ Len(<<a>>) = 1 /\ <<a>>[1] = a
        /\ <<b>> \in Seq(S) /\ Len(<<b>>) = 1 /\ <<b>>[1] = b
    OBVIOUS
  <2>2. <<>> \in Seq(S) /\ Len(<<>>) = 0
    OBVIOUS
  <2> DEFINE u == <<a>>  v == <<b>>
  <2> HIDE DEF S, u, v
  <2>3. /\ p \in {<<>>, u} /\ u \in Seq(S) /\ Len(u) = 1 /\ u[1] = a
        /\ q \in {<<>>, v} /\ v \in Seq(S) /\ Len(v) = 1 /\ v[1] = b
    BY <2>1 DEF u, v
  <2>4. /\ p \in Seq(S) /\ Len(p) \in {0, 1} /\ (p = u <=> Len(p) = 1)
        /\ (p = u => p[1] = a)
        /\ q \in Seq(S) /\ Len(q) \in {0, 1} /\ (q = v <=> Len(q) = 1)
        /\ (q = v => q[1] = b)
    BY <2>3, AtMostOne
  <2> QED BY <2>4 DEF u, v
<1> DEFINE r == p \o q
<1> HIDE DEF S
<1>2. /\ r \in Seq(S) /\ Len(r) = Len(p) + Len(q)
      /\ \A i \in 1..(Len(p) + Len(q)) :
           r[i] = IF i <= Len(p) THEN p[i] ELSE q[i - Len(p)]
  BY <1>1, ConcatProperties
<1> HIDE DEF r
<1>3. DOMAIN r = 1..(Len(p) + Len(q))
  BY <1>2, LenProperties
<1>4. ASSUME NEW i \in DOMAIN r
      PROVE  (p = <<a>> /\ r[i] = a) \/ (q = <<b>> /\ r[i] = b)
  <2>1. CASE i <= Len(p)
    BY <1>1, <1>2, <1>3, <2>1
  <2>2. CASE i > Len(p)
    <3>1. Len(p) \in {0, 1} /\ Len(q) \in {0, 1} /\ i \in 1..(Len(p) + Len(q))
      BY <1>1, <1>3
    <3>2. i - Len(p) = 1 /\ Len(q) = 1
      <4> DEFINE m == Len(p)  n == Len(q)
      <4>1. m \in {0, 1} /\ n \in {0, 1} /\ i \in 1..(m + n) /\ i > m
        BY <2>2, <3>1
      <4> HIDE DEF m, n
      <4>2. i - m = 1 /\ n = 1
        BY <4>1
      <4> QED BY <4>2 DEF m, n
    <3> QED BY <1>1, <1>2, <1>3, <2>2, <3>2
  <2> QED BY <1>1, <1>3, <2>1, <2>2
<1>5. p = <<a>> => 1 \in DOMAIN r /\ r[1] = a
  BY <1>1, <1>2, <1>3
<1>6. q = <<b>> => Len(p) + 1 \in DOMAIN r /\ r[Len(p) + 1] = b
  BY <1>1, <1>2, <1>3
<1> QED BY <1>4, <1>5, <1>6 DEF r

\* A restoration writes from what a service shows, back to what its entry found, and
\* leaves alone only what shows that already.
LEMMA RestoreLeads ==
    ASSUME UndoInv, target \in Entries
    PROVE  /\ \A i \in DOMAIN RestoreJobs :
                \E s \in Entries : RestoreJobs[i] = Write(s, os[s], undo[s].prev)
           /\ \A s \in Entries :
                \/ os[s] = undo[s].prev
                \/ \E i \in DOMAIN RestoreJobs : RestoreJobs[i].svc = s
<1> DEFINE job(s) == Write(s, os[s], undo[s].prev)
<1>1. ASSUME NEW s \in Entries
      PROVE  /\ RestoreJob(s) \in {<<>>, <<job(s)>>} /\ job(s).svc = s
             /\ os[s] # undo[s].prev => RestoreJob(s) = <<job(s)>>
  BY DEF RestoreJob, Untouched, Write
<1> HIDE DEF job
<1>2. CASE Entries = {target}
  <2>1. RestoreJobs = RestoreJob(target)
    BY <1>2 DEF RestoreJobs
  <2> DEFINE a == job(target)  R == RestoreJobs
  <2>2. /\ R \in {<<>>, <<a>>} /\ a.svc = target
        /\ os[target] # undo[target].prev => R = <<a>>
    BY <1>1, <2>1
  <2> HIDE DEF a, R
  <2>3. /\ \A i \in DOMAIN R : R[i] = a
        /\ R = <<a>> => \E i \in DOMAIN R : R[i] = a
    BY <2>2
  <2>4. R = RestoreJobs /\ a = job(target)
    BY DEF R, a
  <2>5. \A i \in DOMAIN RestoreJobs : RestoreJobs[i] = job(target)
    BY <2>3, <2>4
  <2>6. os[target] = undo[target].prev \/ \E i \in DOMAIN RestoreJobs : RestoreJobs[i].svc = target
    BY <2>2, <2>3, <2>4
  <2> QED BY <1>2, <2>5, <2>6 DEF job
<1>3. CASE Entries # {target}
  <2>1. First \in Entries /\ First # target
    BY <1>3 DEF First
  <2>2. \A s \in Entries : s = target \/ s = First
    BY <2>1 DEF UndoInv, Ownership, Shape
  <2>3. RestoreJobs = RestoreJob(target) \o RestoreJob(First)
    BY <1>3 DEF RestoreJobs
  <2> DEFINE a == job(target)  b == job(First)  p == RestoreJob(target)  q == RestoreJob(First)
             R == RestoreJobs
  <2>4. /\ p \in {<<>>, <<a>>} /\ a.svc = target /\ (os[target] # undo[target].prev => p = <<a>>)
        /\ q \in {<<>>, <<b>>} /\ b.svc = First /\ (os[First] # undo[First].prev => q = <<b>>)
    BY <1>1, <2>1
  <2>5. R = p \o q
    BY <2>3
  <2> HIDE DEF a, b, p, q, R
  <2>6. /\ \A i \in DOMAIN R : R[i] = a \/ R[i] = b
        /\ p = <<a>> => \E i \in DOMAIN R : R[i] = a
        /\ q = <<b>> => \E i \in DOMAIN R : R[i] = b
    <3>1. p \in {<<>>, <<a>>} /\ q \in {<<>>, <<b>>}
      BY <2>4
    <3>2. /\ \A i \in DOMAIN (p \o q) : \/ p = <<a>> /\ (p \o q)[i] = a
                                        \/ q = <<b>> /\ (p \o q)[i] = b
          /\ p = <<a>> => \E i \in DOMAIN (p \o q) : (p \o q)[i] = a
          /\ q = <<b>> => \E i \in DOMAIN (p \o q) : (p \o q)[i] = b
      BY <3>1, TwoJobs
    <3> HIDE <2>4
    <3>3. R = p \o q
      BY <2>5
    <3> QED BY <3>2, <3>3
  <2>7. R = RestoreJobs /\ a = job(target) /\ b = job(First)
    BY DEF R, a, b
  <2>8. \A i \in DOMAIN RestoreJobs : RestoreJobs[i] = job(target) \/ RestoreJobs[i] = job(First)
    BY <2>6, <2>7
  <2>9. ASSUME NEW s \in Entries
        PROVE  os[s] = undo[s].prev \/ \E i \in DOMAIN RestoreJobs : RestoreJobs[i].svc = s
    BY <2>2, <2>4, <2>6, <2>7
  <2> QED BY <2>1, <2>8, <2>9 DEF job
<1> QED BY <1>2, <1>3

\* A write to y, the previous state or the present one switched off, is a job that the
\* entry allows for.
LEMMA WriteKept ==
    ASSUME UndoInv, NEW s \in Entries, NEW y \in States,
           Usable(s, os[s].at), y = Off(os[s]) \/ y = undo[s].prev
    PROVE  LET j == Write(s, os[s], y) IN
           /\ j.svc = s /\ j.at = os[s]
           /\ EndsIn(j.path, j.at, y)
           /\ \A k \in DOMAIN j.path : Usable(s, j.path[k].at) /\ Served(s, j.path[k])
<1> DEFINE p == Commands(os[s], y)
<1>1. s \in Services /\ os[s] \in States /\ undo[s].prev \in States
  BY StateTyped DEF Entries, UndoInv
<1>2. p \in Seq(States) /\ EndsIn(p, os[s], y) /\ AllBetween(p, os[s], y)
  BY <1>1, CommandsTyped, CommandsLead
<1> HIDE DEF p
<1>3. ASSUME NEW k \in DOMAIN p
      PROVE  Usable(s, p[k].at) /\ Served(s, p[k])
  <2> DEFINE x == p[k]
  <2>1. x \in States /\ Between(x, os[s], y)
    BY <1>2, ElementOfSeq, LenProperties DEF AllBetween
  <2> HIDE DEF x
  <2>2. Usable(s, x.at)
    BY <1>1, <2>1 DEF Between, Usable, Off, States
  <2>3. Served(s, x)
    <3> SUFFICES ASSUME Active(x), x.at \in minted
                 PROVE  x.at \in {running} \cup Candidates \/ undo[s].prev = Off(x)
      BY DEF Served
    <3>1. x.at # None
      BY <2>1, Apart DEF States, Addresses
    <3>2. CASE x.at = os[s].at /\ Active(os[s])
      <4>1. Off(x) = Off(os[s])
        BY <1>1, <2>1, <3>2 DEF Off, States
      <4>2. \/ x.at \in {running, retained, Candidate}
            \/ undo[s].prev = Off(os[s])
        BY <1>1, <3>2 DEF UndoInv, Serving, PacServed
      <4> QED BY <3>1, <4>1, <4>2 DEF Candidates
    <3>3. CASE x.at = y.at /\ (Active(y) \/ os[s].at # y.at)
      <4>1. y = undo[s].prev
        BY <1>1, <3>3 DEF Off, Active, States
      <4>2. CASE Active(y)
        BY <3>3, <4>1, <4>2 DEF UndoInv, Serving, PrevServed
      <4>3. CASE ~Active(y)
        BY <1>1, <2>1, <3>3, <4>1, <4>3 DEF Off, States, Active
      <4> QED BY <4>2, <4>3
    <3> QED BY <2>1, <3>2, <3>3 DEF Between
  <2> QED BY <2>2, <2>3 DEF x
<1> QED BY <1>2, <1>3 DEF Write, p

\* The restoration of the entries starts.
LEMMA RestoreStarts ==
    ASSUME UndoInv, target \in Entries, \A s \in Entries : Usable(s, os[s].at),
           jobs' = RestoreJobs, op'.pc \in {"undo", "retry"}, Candidate' = Candidate,
           UNCHANGED <<native, pac, target>>,
           \A s \in Services : undo'[s].prev = undo[s].prev
    PROVE  GoalsMet' /\ JobsKept'
<1>1. Entries' = Entries /\ Entries \subseteq Services /\ Candidates' = Candidates
  BY SameEntries DEF Entries, Candidates, pac
<1>2. GoalsMet'
  <2> SUFFICES ASSUME NEW s \in Entries
               PROVE  \/ \E i \in DOMAIN jobs' : jobs'[i].svc = s
                      \/ Settled(s, undo[s].prev)
    BY <1>1 DEF GoalsMet, Pending, Settled, Goal, native
  <2>1. os[s] = undo[s].prev => Settled(s, undo[s].prev)
    BY DEF Settled
  <2> QED BY <2>1, RestoreLeads
<1>3. ASSUME NEW i \in DOMAIN jobs'
      PROVE  JobKept(jobs[i])'
  <2>1. PICK s \in Entries : jobs'[i] = Write(s, os[s], undo[s].prev)
    BY RestoreLeads
  <2>2. undo[s].prev \in States /\ s \in Services
    BY StateTyped DEF UndoInv, Entries
  <2> DEFINE j == Write(s, os[s], undo[s].prev)
  <2>3. /\ j.svc = s /\ j.at = os[s]
        /\ EndsIn(j.path, j.at, undo[s].prev)
        /\ \A k \in DOMAIN j.path : Usable(s, j.path[k].at) /\ Served(s, j.path[k])
    BY <2>2, WriteKept
  <2> HIDE DEF j
  <2>4. jobs'[i] = j
    BY <2>1 DEF j
  <2>5. Usable(s, j.at.at)
    BY <2>3
  <2>6. Leads(jobs[i])'
    BY <2>3, <2>4, <2>2 DEF Leads, Goal, EndsIn
  <2>7. Usable(jobs[i].svc, jobs[i].at.at)'
    BY <1>1, <2>2, <2>3, <2>4, <2>5 DEF Usable
  <2>8. ASSUME NEW k \in DOMAIN j.path
        PROVE  Usable(jobs[i].svc, jobs[i].path[k].at)' /\ Served(jobs[i].svc, jobs[i].path[k])'
    BY <1>1, <2>2, <2>3, <2>4 DEF Usable, Served, pac
  <2> QED BY <2>4, <2>6, <2>7, <2>8 DEF JobKept
<1> QED BY <1>2, <1>3 DEF JobsKept

LEMMA PermittedUsable ==
    ASSUME UndoInv, NEW s \in Entries, Permitted(s) \/ PermitsRetry(s)
    PROVE  Usable(s, os[s].at)
<1>1. os[s] # NoState /\ s \in Services
  BY StateTyped DEF UndoInv, Entries
<1>2. CASE os[s] \in undo[s].known \cup {undo[s].observed}
  BY <1>1, <1>2 DEF UndoInv, Serving, Known
<1>3. CASE os[s] = undo[s].prev
  BY <1>3 DEF Usable
<1> QED BY <1>2, <1>3 DEF Permitted, PermitsRetry

LEMMA RollbackUndo ==
    ASSUME UndoInv, Rollback
    PROVE  UndoInv'
<1>1. /\ op.pc = "rollback" /\ target \in Entries
      /\ UNCHANGED <<native, prefs, accepted, pac, recovery, target, undo>>
  BY DEF Rollback, UndoInv, ProxyInv, EntriesKept, entries
<1>2. Entries' = Entries
  BY <1>1 DEF Entries
<1>3. ProxyInv'
  BY RollbackKeeps DEF UndoInv
<1>4. CASE /\ \A s \in Entries : Permitted(s)
           /\ op' = [op EXCEPT !.pc = "undo"] /\ jobs' = RestoreJobs
  <2>1. op'.pc = "undo" /\ op'.kind = op.kind /\ op'.claim = op.claim
    BY <1>4 DEF UndoInv, ProxyInv, TypeOK
  <2>2. Candidate' = Candidate /\ Shape'
    BY <1>1, <1>2, <2>1, CandidateSame, ShapeStays DEF Changing
  <2>3. GoalsMet' /\ JobsKept'
    BY <1>1, <1>4, <2>1, <2>2, RestoreStarts, PermittedUsable
  <2> QED BY <1>1, <1>3, <2>1, <2>2, <2>3, ControlKeeps DEF Changing
<1>5. CASE op' = [op EXCEPT !.pc = "safety"] /\ jobs' = SafetyJobs
  <2>1. op'.pc = "safety" /\ op'.kind = op.kind /\ op'.claim = op.claim
    BY <1>5 DEF UndoInv, ProxyInv, TypeOK
  <2>2. Candidate' = Candidate /\ Shape'
    BY <1>1, <1>2, <2>1, CandidateSame, ShapeStays DEF Changing
  <2>3. \A i \in DOMAIN jobs' : jobs'[i].at = NoState /\ jobs'[i].path = <<>>
    BY <1>1, <1>5, SafetyJobsTyped DEF UndoInv
  <2>4. GoalsMet' /\ JobsKept'
    BY <2>1, <2>3 DEF GoalsMet, JobsKept, JobKept
  <2> QED BY <1>1, <1>3, <2>1, <2>2, <2>4, ControlKeeps DEF Changing
<1> QED BY <1>4, <1>5 DEF Rollback

LEMMA RecoverUndo ==
    ASSUME UndoInv, Recover
    PROVE  UndoInv'
<1>1. /\ op.pc = "recover" /\ recovery /\ target \in Entries /\ jobs = <<>>
      /\ undo' = [s \in Services |-> [undo[s] EXCEPT !.tried = FALSE]]
      /\ UNCHANGED <<native, prefs, accepted, pac, target, recovery>>
  BY DEF Recover, UndoInv, ProxyInv, EntriesKept, Writing
<1>2. ASSUME NEW s \in Services
      PROVE  /\ undo'[s].prev = undo[s].prev /\ undo'[s].by = undo[s].by
             /\ undo'[s].known = undo[s].known /\ undo'[s].observed = undo[s].observed
  <2> DEFINE e == undo[s]
  <2>1. e \in Entry /\ undo'[s] = [e EXCEPT !.tried = FALSE]
    BY <1>1 DEF UndoInv, ProxyInv, TypeOK
  <2> HIDE DEF e
  <2>2. /\ undo'[s].prev = e.prev /\ undo'[s].by = e.by
        /\ undo'[s].known = e.known /\ undo'[s].observed = e.observed
    BY <2>1 DEF Entry
  <2> QED BY <2>2 DEF e
<1>3. Entries' = Entries
  BY <1>2, SameEntries
<1>4. ProxyInv'
  BY RecoverKeeps DEF UndoInv
<1>5. CASE /\ \A s \in Entries : PermitsRetry(s)
           /\ op' = [op EXCEPT !.pc = "retry"] /\ jobs' = RestoreJobs
  <2>1. op'.pc = "retry" /\ op'.kind = op.kind /\ op'.claim = op.claim
    BY <1>5 DEF UndoInv, ProxyInv, TypeOK
  <2>2. Candidate' = Candidate
    BY <1>1, <2>1, CandidateSame DEF Changing
  <2>3. Shape'
    BY <1>1, <1>3, <2>1 DEF UndoInv, Ownership, Shape, Releasing, Changing, Claiming
  <2>4. GoalsMet' /\ JobsKept'
    BY <1>1, <1>2, <1>5, <2>1, <2>2, RestoreStarts, PermittedUsable
  <2> QED BY <1>1, <1>2, <1>4, <2>1, <2>2, <2>3, <2>4, ControlKeeps DEF Changing
<1>6. CASE op' = Idle /\ jobs' = jobs
  <2>1. op'.pc = "idle" /\ op'.kind = "release" /\ op'.claim = NoClaim
    BY <1>6 DEF Idle
  <2>2. Candidate' = Candidate
    BY <1>1, <2>1, CandidateSame DEF Changing
  <2>3. Shape'
    BY <1>1, <1>3, <2>1 DEF UndoInv, Ownership, Shape, Changing, Claiming
  <2>4. GoalsMet' /\ JobsKept'
    BY <1>1, <1>6, <2>1 DEF GoalsMet, JobsKept
  <2> QED BY <1>1, <1>2, <1>4, <2>1, <2>2, <2>3, <2>4, ControlKeeps DEF Changing
<1> QED BY <1>5, <1>6 DEF Recover

\* A job that is left stays what it was, as long as the URLs and the goals do.
LEMMA JobStays ==
    ASSUME UndoInv, Candidates' = Candidates, UNCHANGED <<target, running, minted>>,
           \A s \in Services : undo'[s].prev = undo[s].prev,
           op'.pc = op.pc, op'.claim = op.claim,
           NEW i \in DOMAIN jobs, NEW k \in DOMAIN jobs', jobs'[k] = jobs[i]
    PROVE  JobKept(jobs[k])'
<1> DEFINE j == jobs[i]
<1>1. j.svc \in Services
  BY DEF UndoInv, ProxyInv, EntriesKept, Entries
<1>2. /\ op.pc \in {"apply", "undo", "retry"} => Leads(j)
      /\ j.at # NoState => Usable(j.svc, j.at.at)
      /\ \A m \in DOMAIN j.path : Usable(j.svc, j.path[m].at) /\ Served(j.svc, j.path[m])
  BY DEF UndoInv, Serving, JobsKept, JobKept
<1> HIDE DEF j
<1>3. jobs'[k] = j
  BY DEF j
<1>4. op'.pc \in {"apply", "undo", "retry"} => Leads(jobs[k])'
  BY <1>1, <1>2, <1>3 DEF Leads, Goal, Claiming
<1>5. j.at # NoState => Usable(jobs[k].svc, jobs[k].at.at)'
  BY <1>1, <1>2, <1>3 DEF Usable
<1>6. ASSUME NEW m \in DOMAIN j.path
      PROVE  Usable(jobs[k].svc, jobs[k].path[m].at)' /\ Served(jobs[k].svc, jobs[k].path[m])'
  BY <1>1, <1>2, <1>3 DEF Usable, Served
<1> QED BY <1>3, <1>4, <1>5, <1>6 DEF JobKept

LEMMA SafeUndo ==
    ASSUME UndoInv, Safe
    PROVE  UndoInv'
<1> DEFINE s == jobs[1].svc
           y == Off(os[s])
           write == Write(s, os[s], y)
<1>1. /\ op.pc = "safety" /\ op.pc \in Writing /\ jobs # <<>>
      /\ UNCHANGED <<native, prefs, accepted, pac, target, recovery, undo>>
  BY DEF Safe, Writing, entries
<1>2. s \in Entries /\ s \in Services /\ os[s] \in States /\ y \in States
  <2>1. 1 \in DOMAIN jobs
    BY <1>1, TailJobs DEF UndoInv, ProxyInv, TypeOK
  <2> QED BY <2>1 DEF UndoInv, ProxyInv, TypeOK, EntriesKept, Entries, Off, States
<1>3. ProxyInv' /\ Entries' = Entries
  BY <1>1, SafeKeeps DEF UndoInv, Entries
<1>4. CASE Fail
  <2>1. /\ op'.kind = op.kind /\ op'.claim = op.claim
        /\ op'.pc \in {"rollback", "safety", "giveup"}
        /\ Candidate' = Candidate /\ GoalsMet' /\ JobsKept'
    BY <1>1, <1>4, FailEffect
  <2>2. Shape'
    BY <1>1, <1>3, <2>1, ShapeStays DEF Changing
  <2> QED BY <1>1, <1>3, <2>1, <2>2, ControlKeeps DEF Changing
<1>5. CASE /\ UNCHANGED op
           /\ jobs' = Tail(jobs) \/ (Permitted(s) /\ jobs' = <<write>> \o Tail(jobs))
  <2>1. Candidate' = Candidate /\ Shape'
    BY <1>1, <1>3, <1>5, CandidateSame, ShapeStays DEF Changing
  <2>2. Candidates' = Candidates /\ UNCHANGED <<running, minted>>
    BY <1>1, <2>1 DEF Candidates, pac
  <2>3. GoalsMet'
    BY <1>1, <1>5 DEF GoalsMet
  <2>4. JobsKept'
    <3>1. CASE jobs' = Tail(jobs)
      <4>1. \A i \in DOMAIN jobs' : i + 1 \in DOMAIN jobs /\ jobs'[i] = jobs[i + 1]
        BY <1>1, <3>1, TailJobs DEF UndoInv, ProxyInv, TypeOK
      <4> QED BY <1>1, <1>5, <2>2, <4>1, JobStays DEF JobsKept
    <3>2. CASE Permitted(s) /\ jobs' = <<write>> \o Tail(jobs)
      <4>1. Usable(s, os[s].at)
        BY <1>2, <3>2, PermittedUsable
      <4>2. /\ write.svc = s /\ write.at = os[s]
            /\ \A k \in DOMAIN write.path : Usable(s, write.path[k].at) /\ Served(s, write.path[k])
        BY <1>2, <4>1, WriteKept
      <4>3. write \in Job
        BY <1>2, WriteTyped
      <4> HIDE DEF write, s, y
      <4>4. \A i \in DOMAIN jobs' :
              jobs'[i] = write \/ (i \in DOMAIN jobs /\ jobs'[i] = jobs[i])
        BY <1>1, <3>2, <4>3, TailJobs DEF UndoInv, ProxyInv, TypeOK
      <4>5. ASSUME NEW i \in DOMAIN jobs', jobs'[i] = write
            PROVE  JobKept(jobs[i])'
        <5>1. Usable(jobs[i].svc, jobs[i].at.at)'
          BY <1>1, <1>2, <2>2, <4>1, <4>2, <4>5 DEF Usable
        <5>2. ASSUME NEW k \in DOMAIN write.path
              PROVE  /\ Usable(jobs[i].svc, jobs[i].path[k].at)'
                     /\ Served(jobs[i].svc, jobs[i].path[k])'
          BY <1>1, <1>2, <2>2, <4>2, <4>5 DEF Usable, Served
        <5> QED BY <1>1, <1>5, <4>5, <5>1, <5>2 DEF JobKept
      <4> QED BY <1>1, <1>5, <2>2, <4>4, <4>5, JobStays DEF JobsKept
    <3> QED BY <1>5, <3>1, <3>2
  <2> QED BY <1>1, <1>3, <1>5, <2>1, <2>3, <2>4, ControlKeeps DEF Changing
<1> QED BY <1>4, <1>5 DEF Safe

-----------------------------------------------------------------------------
(* Writing *)

\* A service is the first job's, or one of the others'.
LEMMA PendingTail ==
    ASSUME NEW js \in Seq(Job), js # <<>>, NEW i \in DOMAIN js, i # 1
    PROVE  i - 1 \in DOMAIN Tail(js) /\ Tail(js)[i - 1] = js[i]
<1>1. Len(js) \in Nat /\ DOMAIN js = 1..Len(js)
  BY LenProperties
<1>2. Tail(js) \in Seq(Job) /\ Len(Tail(js)) = Len(js) - 1
      /\ \A k \in 1..Len(Tail(js)) : Tail(js)[k] = js[k + 1]
  BY HeadTailProperties
<1>3. DOMAIN Tail(js) = 1..Len(Tail(js))
  BY <1>2, LenProperties
<1>4. i \in Int /\ i > 1 /\ i <= Len(js)
  BY <1>1
<1> QED BY <1>1, <1>2, <1>3, <1>4

\* The evidence a step adds is of usable states.
LEMMA KnownStays ==
    ASSUME UndoInv, Candidates' = Candidates, UNCHANGED target,
           \A s \in Services : undo'[s].prev = undo[s].prev,
           \A s \in Entries : \A x \in undo'[s].known \cup {undo'[s].observed} :
             \/ x \in undo[s].known \cup {undo[s].observed, NoState}
             \/ Usable(s, x.at)
    PROVE  Known'
<1>1. Entries' = Entries /\ Entries \subseteq Services
  BY SameEntries DEF Entries
<1>2. SUFFICES ASSUME NEW s \in Entries, NEW x \in undo'[s].known \cup {undo'[s].observed},
                      x # NoState
               PROVE  Usable(s, x.at)'
  BY <1>1 DEF Known
<1>3. Usable(s, x.at)
  BY <1>2 DEF UndoInv, Serving, Known
<1> QED BY <1>1, <1>3 DEF Usable

LEMMA VerifiedUndo ==
    ASSUME UndoInv, Verified
    PROVE  UndoInv'
<1> DEFINE s == jobs[1].svc
<1>1. /\ op.pc \in Writing /\ jobs # <<>> /\ jobs[1].path = <<>>
      /\ os[s] = jobs[1].at /\ os[s] # NoState
      /\ undo' = [undo EXCEPT ![s].observed = os[s]]
      /\ jobs' = Tail(jobs)
      /\ UNCHANGED <<native, prefs, accepted, pac, target, recovery, op, spent>>
  BY DEF Verified, Planned, Observed
<1>2. /\ 1 \in DOMAIN jobs /\ jobs \in Seq(Job)
      /\ \A i \in DOMAIN jobs' : i + 1 \in DOMAIN jobs /\ jobs'[i] = jobs[i + 1]
  BY <1>1, TailJobs DEF UndoInv, ProxyInv, TypeOK
<1>3. s \in Entries /\ s \in Services
  BY <1>2 DEF UndoInv, ProxyInv, EntriesKept, Entries
<1>4. /\ undo'[s] = [undo[s] EXCEPT !.observed = os[s]]
      /\ \A t \in Services : t # s => undo'[t] = undo[t]
  <2> HIDE DEF s
  <2> QED BY <1>1, <1>3 DEF UndoInv, ProxyInv, TypeOK
<1>5. ASSUME NEW t \in Services
      PROVE  /\ undo'[t].prev = undo[t].prev /\ undo'[t].by = undo[t].by
             /\ undo'[t].known = undo[t].known
             /\ undo'[t].observed = undo[t].observed \/ (t = s /\ undo'[t].observed = os[s])
  <2> DEFINE e == undo[s]
  <2>1. e \in Entry /\ undo'[s] = [e EXCEPT !.observed = os[s]]
    BY <1>3, <1>4 DEF UndoInv, ProxyInv, TypeOK
  <2> HIDE DEF e
  <2>2. /\ undo'[s].prev = e.prev /\ undo'[s].by = e.by
        /\ undo'[s].known = e.known /\ undo'[s].observed = os[s]
    BY <2>1 DEF Entry
  <2> QED BY <1>4, <2>2 DEF e
<1>6. JobKept(jobs[1])
  BY <1>2 DEF UndoInv, Serving, JobsKept
<1>7. Usable(s, os[s].at) /\ (op.pc \in {"apply", "undo", "retry"} => os[s] = Goal(s))
  BY <1>1, <1>6 DEF JobKept, Leads
<1> HIDE DEF s
<1>8. ClaimsAgree' /\ Tracked' /\ PrevTracked' /\ Entries' = Entries
  BY <1>1, <1>5, OwnershipStays
<1>9. Candidate' = Candidate
  BY <1>1 DEF Candidate
<1>10. Listeners' /\ PrevServed' /\ PacServed' /\ Candidates' = Candidates
  BY <1>1, <1>5, <1>9, ServingStays DEF Writing
<1>11. Shape' /\ Outside'
  BY <1>1, <1>8 DEF UndoInv, Ownership, Shape, Outside, Quiet, Claiming, native, pac
<1>12. GoalsMet'
  <2> SUFFICES ASSUME op.pc \in {"apply", "persist", "undo", "retry"}, NEW t \in Entries
               PROVE  (\E i \in DOMAIN jobs' : jobs'[i].svc = t) \/ Settled(t, Goal(t))
    <3>1. Entries \subseteq Services
      BY DEF Entries
    <3> QED BY <1>1, <1>5, <1>8, <3>1 DEF GoalsMet, Pending, Settled, Goal, Claiming, native
  <2>1. Pending(t) \/ Settled(t, Goal(t))
    BY DEF UndoInv, Ownership, GoalsMet
  <2>2. ASSUME NEW i \in DOMAIN jobs, jobs[i].svc = t, i # 1
        PROVE  \E k \in DOMAIN jobs' : jobs'[k].svc = t
    BY <1>1, <1>2, <2>2, PendingTail
  <2>3. CASE t = s
    <3>1. Settled(s, Goal(s))
      BY <1>1, <1>7 DEF Settled, Writing
    <3> QED BY <2>3, <3>1
  <2> QED BY <2>1, <2>2, <2>3 DEF Pending, s
<1>13. JobsKept'
  BY <1>1, <1>2, <1>5, <1>10, JobStays DEF JobsKept, pac
<1>14. Known'
  BY <1>1, <1>5, <1>7, <1>10, KnownStays DEF Entries
<1>15. ProxyInv'
  BY VerifiedKeeps DEF UndoInv
<1> QED BY <1>8, <1>10, <1>11, <1>12, <1>13, <1>14, <1>15 DEF UndoInv, Ownership, Serving

\* What a step records about its command's service, and what it does not change.
LEMMA CommandEffect ==
    ASSUME UndoInv, Command
    PROVE  LET s == jobs[1].svc  x == jobs[1].path[1] IN
           /\ s \in Entries /\ s \in Services /\ x \in States
           /\ Usable(s, x.at) /\ Served(s, x)
           /\ \A t \in Services :
                /\ undo'[t].prev = undo[t].prev /\ undo'[t].by = undo[t].by
                /\ undo'[t].observed = undo[t].observed
                /\ undo'[t].known \subseteq undo[t].known \cup (IF t = s THEN {x} ELSE {})
<1> DEFINE s == jobs[1].svc
           x == jobs[1].path[1]
           tried == undo[s].tried \/ op.pc = "retry"
<1>1. /\ Planned /\ jobs[1].path # <<>>
      /\ undo' = [undo EXCEPT ![s].known = @ \cup {x}, ![s].attempted = TRUE,
                              ![s].tried = @ \/ op.pc = "retry"]
  BY DEF Command
<1>2. /\ 1 \in DOMAIN jobs /\ s \in Entries /\ s \in Services /\ x \in States
      /\ jobs[1] \in Job
  BY <1>1, CommandTyped DEF UndoInv
<1>3. 1 \in DOMAIN jobs[1].path
  BY <1>1, <1>2, LenProperties, EmptySeq DEF Job
<1>4. Usable(s, x.at) /\ Served(s, x)
  BY <1>2, <1>3 DEF UndoInv, Serving, JobsKept, JobKept
<1>5. ASSUME NEW t \in Services
      PROVE  /\ undo'[t].prev = undo[t].prev /\ undo'[t].by = undo[t].by
             /\ undo'[t].observed = undo[t].observed
             /\ undo'[t].known \subseteq undo[t].known \cup (IF t = s THEN {x} ELSE {})
  <2> DEFINE e == undo[s]
             e2 == [e EXCEPT !.known = @ \cup {x}, !.attempted = TRUE, !.tried = tried]
  <2>1. e \in Entry
    BY <1>2 DEF UndoInv, ProxyInv, TypeOK
  <2>2. undo' = [undo EXCEPT ![s] = e2]
    BY <1>1, <1>2 DEF UndoInv, ProxyInv, TypeOK
  <2>3. e2.prev = e.prev /\ e2.by = e.by /\ e2.observed = e.observed
        /\ e2.known = e.known \cup {x}
    <3> HIDE DEF e, tried, x
    <3> QED BY <2>1 DEF Entry
  <2> HIDE DEF e2, s, x, tried
  <2>4. undo' = [undo EXCEPT ![s] = e2] /\ undo \in [Services -> Entry] /\ s \in Services
    BY <1>2, <2>2 DEF UndoInv, ProxyInv, TypeOK
  <2>5. CASE t = s
    BY <2>3, <2>4, <2>5 DEF e
  <2>6. CASE t # s
    BY <2>4, <2>6
  <2> QED BY <2>5, <2>6
<1> QED BY <1>2, <1>4, <1>5

\* One service shows a state that its entry allows for.
LEMMA ShownKeeps ==
    ASSUME UndoInv, NEW s \in Entries, NEW x \in States, Usable(s, x.at), Served(s, x),
           os' = [os EXCEPT ![s] = x], writer' = [writer EXCEPT ![s] = Author(s, x)],
           UNCHANGED <<prefs, accepted, pac, target, recovery>>,
           \A t \in Services : undo'[t].prev = undo[t].prev /\ undo'[t].by = undo[t].by,
           Candidate' = Candidate, op'.pc # "stage"
    PROVE  /\ ClaimsAgree' /\ Tracked' /\ PrevTracked' /\ Entries' = Entries
           /\ Listeners' /\ PrevServed' /\ PacServed' /\ Candidates' = Candidates
           /\ \A t \in Services \ Entries : Quiet(t) => Quiet(t)'
<1>1. /\ Entries' = Entries /\ Entries \subseteq Services /\ Candidates' = Candidates
  BY SameEntries DEF Entries, Candidates, pac
<1>2. /\ os'[s] = x /\ writer'[s] = Author(s, x)
      /\ \A t \in Services : t # s => os'[t] = os[t] /\ writer'[t] = writer[t]
  BY <1>1 DEF UndoInv, ProxyInv, TypeOK
<1>3. ClaimsAgree' /\ Tracked'
  BY <1>1, <1>2 DEF UndoInv, Ownership, ClaimsAgree, Tracked, Claimed
<1>4. PrevTracked'
  BY <1>1, <1>2 DEF UndoInv, Ownership, PrevTracked, Claimed, Author
<1>5. Candidates \subseteq Urls /\ (running # None => running \in Urls)
  BY DEF UndoInv, ProxyInv, TypeOK, Candidates, Candidate
<1>6. Listeners'
  <2>1. ASSUME running # None, NEW t \in Services, running \in {os'[t].at, undo'[t].prev.at}
        PROVE  t = accepted.svc
    <3>1. CASE t = s /\ running = x.at
      <4>1. running \notin Endpoints /\ running \notin Candidates
        BY <1>5, <2>1, Apart DEF UndoInv, Serving, Listeners, NewUrl
      <4>2. running = undo[s].prev.at
        BY <3>1, <4>1 DEF Usable
      <4> QED BY <2>1, <3>1, <4>2, <1>1 DEF UndoInv, Serving, Listeners
    <3>2. CASE running \in {os[t].at, undo[t].prev.at}
      BY <2>1, <3>2 DEF UndoInv, Serving, Listeners
    <3> QED BY <1>2, <2>1, <3>1, <3>2
  <2>2. ASSUME NEW u \in Candidates
        PROVE  NewUrl(u)'
    <3>1. u # running /\ u \notin Endpoints /\ \A t \in Services : undo[t].prev.at # u
      BY <1>5, Apart DEF UndoInv, Serving, Listeners, NewUrl
    <3>2. ASSUME NEW t \in Services, os'[t].at = u PROVE t = target
      <4>1. CASE t = s
        <5>1. x.at = u
          BY <1>2, <3>2, <4>1
        <5> QED BY <3>1, <4>1, <5>1, <1>1 DEF Usable
      <4>2. CASE t # s
        BY <1>2, <3>2, <4>2 DEF UndoInv, Serving, Listeners, NewUrl
      <4> QED BY <4>1, <4>2
    <3> QED BY <3>1, <3>2 DEF NewUrl, pac
  <2> QED BY <1>1, <2>1, <2>2 DEF UndoInv, Serving, Listeners, pac
<1>7. PrevServed'
  BY <1>1 DEF UndoInv, Serving, PrevServed, pac
<1>8. PacServed'
  <2> SUFFICES ASSUME NEW t \in Services, Active(os'[t]), os'[t].at \in minted
               PROVE  \/ os'[t].at \in {running, retained, Candidate}
                      \/ undo[t].prev = Off(os'[t])
    BY DEF PacServed, pac
  <2>1. CASE t = s
    BY <1>2, <2>1 DEF Served, Candidates
  <2>2. CASE t # s
    BY <1>2, <2>2 DEF UndoInv, Serving, PacServed
  <2> QED BY <2>1, <2>2
<1>9. \A t \in Services \ Entries : Quiet(t) => Quiet(t)'
  BY <1>2 DEF Quiet, pac
<1> QED BY <1>1, <1>3, <1>4, <1>6, <1>7, <1>8, <1>9

\* A first job replaced.
LEMMA FirstReplaced ==
    ASSUME NEW js \in Seq(Job), js # <<>>, NEW j \in Job
    PROVE  LET q == <<j>> \o Tail(js) IN
           /\ DOMAIN q = DOMAIN js /\ 1 \in DOMAIN q /\ q[1] = j
           /\ \A i \in DOMAIN js : i # 1 => q[i] = js[i]
<1> DEFINE r == Tail(js)  h == <<j>>  q == h \o r
<1>1. Len(js) \in Nat /\ DOMAIN js = 1..Len(js) /\ Len(js) > 0
  BY LenProperties, EmptySeq
<1>2. r \in Seq(Job) /\ Len(r) = Len(js) - 1 /\ \A i \in 1..Len(r) : r[i] = js[i + 1]
  BY HeadTailProperties
<1>3. h \in Seq(Job) /\ Len(h) = 1 /\ h[1] = j
  BY JobsTyped
<1>4. /\ q \in Seq(Job) /\ Len(q) = 1 + Len(r)
      /\ \A i \in 1..(1 + Len(r)) : q[i] = IF i <= 1 THEN h[i] ELSE r[i - 1]
  <2>1. q = h \o r
    OBVIOUS
  <2> HIDE DEF r, h, q
  <2>2. /\ q \in Seq(Job) /\ Len(q) = Len(h) + Len(r)
        /\ \A i \in 1..(Len(h) + Len(r)) : q[i] = IF i <= Len(h) THEN h[i] ELSE r[i - Len(h)]
    BY <1>2, <1>3, <2>1, ConcatProperties
  <2> QED BY <1>3, <2>2
<1> HIDE DEF r, h
<1>5. DOMAIN q = 1..Len(q)
  BY <1>4, LenProperties
<1> HIDE DEF q
<1>6. DOMAIN q = DOMAIN js /\ 1 \in DOMAIN q /\ q[1] = j
  BY <1>1, <1>2, <1>3, <1>4, <1>5
<1>7. ASSUME NEW i \in DOMAIN js, i # 1 PROVE q[i] = js[i]
  <2>1. i \in Int /\ i > 1 /\ i <= Len(js)
    BY <1>1, <1>7
  <2>2. q[i] = r[i - 1] /\ r[i - 1] = js[(i - 1) + 1]
    BY <1>1, <1>2, <1>4, <2>1
  <2> QED BY <2>1, <2>2
<1> QED BY <1>6, <1>7 DEF q, h, r

\* A path without its first command leads to where the path leads.
LEMMA TailLeads ==
    ASSUME NEW p \in Seq(States), p # <<>>, NEW y, p[Len(p)] = y
    PROVE  /\ IF Tail(p) = <<>> THEN p[1] = y ELSE Tail(p)[Len(Tail(p))] = y
           /\ \A k \in DOMAIN Tail(p) : k + 1 \in DOMAIN p /\ Tail(p)[k] = p[k + 1]
<1> DEFINE q == Tail(p)
<1>1. /\ Len(p) \in Nat /\ Len(p) > 0 /\ DOMAIN p = 1..Len(p)
      /\ q \in Seq(States) /\ Len(q) = Len(p) - 1
      /\ \A i \in 1..Len(q) : q[i] = p[i + 1]
  BY LenProperties, EmptySeq, HeadTailProperties
<1> HIDE DEF q
<1>2. DOMAIN q = 1..Len(q) /\ (q = <<>> <=> Len(q) = 0)
  BY <1>1, LenProperties, EmptySeq
<1>3. CASE q = <<>>
  BY <1>1, <1>2, <1>3 DEF q
<1>4. CASE q # <<>>
  BY <1>1, <1>2, <1>4 DEF q
<1> QED BY <1>3, <1>4

\* A command that took effect: the rest of its job stays.
LEMMA AdvanceUndo ==
    ASSUME UndoInv, Command, jobs' = Advance(jobs[1].path[1]), UNCHANGED op,
           os' = [os EXCEPT ![jobs[1].svc] = jobs[1].path[1]],
           writer' = [writer EXCEPT ![jobs[1].svc] = Author(jobs[1].svc, jobs[1].path[1])],
           Candidates' = Candidates
    PROVE  GoalsMet' /\ JobsKept'
<1> DEFINE s == jobs[1].svc
           x == jobs[1].path[1]
           rest == [jobs[1] EXCEPT !.at = x, !.path = Tail(@)]
<1>1. /\ op.pc \in Writing /\ Planned /\ jobs[1].path # <<>>
      /\ jobs' = <<rest>> \o Tail(jobs)
      /\ UNCHANGED <<prefs, accepted, pac, target, recovery>>
      /\ UNCHANGED <<running, minted>>
  BY DEF Command, Advance, pac
<1>2. /\ s \in Entries /\ s \in Services /\ x \in States
      /\ Usable(s, x.at) /\ Served(s, x)
      /\ \A t \in Services : undo'[t].prev = undo[t].prev
  BY CommandEffect
<1>3. Entries' = Entries /\ Entries \subseteq Services
  BY <1>2, SameEntries DEF Entries
<1>4. /\ jobs \in Seq(Job) /\ jobs # <<>> /\ 1 \in DOMAIN jobs /\ jobs[1] \in Job
      /\ jobs[1].path \in Seq(States) /\ Tail(jobs[1].path) \in Seq(States)
  BY <1>1, CommandTyped DEF UndoInv, ProxyInv, TypeOK, Job
<1>5. rest \in Job /\ rest.svc = s /\ rest.at = x /\ rest.path = Tail(jobs[1].path)
  BY <1>2, <1>4 DEF Job
<1>6. JobKept(jobs[1])
  BY <1>4 DEF UndoInv, Serving, JobsKept
<1> DEFINE p == jobs[1].path
<1>7. /\ op.pc \in {"apply", "undo", "retry"} => p[Len(p)] = Goal(s)
      /\ \A k \in DOMAIN p : Usable(s, p[k].at) /\ Served(s, p[k])
  BY <1>1, <1>6 DEF JobKept, Leads
<1>8. /\ p \in Seq(States) /\ p # <<>> /\ rest.path = Tail(p) /\ p[1] = x
  BY <1>1, <1>4, <1>5
<1> HIDE DEF p, rest, s, x
<1>9. /\ op.pc \in {"apply", "undo", "retry"} =>
           IF rest.path = <<>> THEN rest.at = Goal(s) ELSE rest.path[Len(rest.path)] = Goal(s)
      /\ \A k \in DOMAIN rest.path : k + 1 \in DOMAIN p /\ rest.path[k] = p[k + 1]
  <2>1. /\ IF Tail(p) = <<>> THEN p[1] = p[Len(p)] ELSE Tail(p)[Len(Tail(p))] = p[Len(p)]
        /\ \A k \in DOMAIN Tail(p) : k + 1 \in DOMAIN p /\ Tail(p)[k] = p[k + 1]
    BY <1>8, TailLeads
  <2> QED BY <1>5, <1>7, <1>8, <2>1
<1>10. /\ DOMAIN jobs' = DOMAIN jobs /\ 1 \in DOMAIN jobs' /\ jobs'[1] = rest
       /\ \A i \in DOMAIN jobs : i # 1 => jobs'[i] = jobs[i]
  BY <1>1, <1>4, <1>5, FirstReplaced
<1>11. GoalsMet'
  <2> SUFFICES ASSUME op.pc \in {"apply", "persist", "undo", "retry"}, NEW t \in Entries
               PROVE  \/ \E i \in DOMAIN jobs' : jobs'[i].svc = t
                      \/ Settled(t, Goal(t))'
    BY <1>3 DEF GoalsMet, Pending
  <2>1. CASE t = s
    BY <1>5, <1>10, <2>1
  <2>2. CASE t # s
    <3>1. os'[t] = os[t] /\ writer'[t] = writer[t] /\ Goal(t)' = Goal(t)
      BY <1>2, <1>3, <2>2, <1>1 DEF UndoInv, ProxyInv, TypeOK, Goal, Claiming, s
    <3>2. CASE Settled(t, Goal(t))
      BY <3>1, <3>2 DEF Settled
    <3>3. CASE Pending(t)
      <4>1. PICK i \in DOMAIN jobs : jobs[i].svc = t
        BY <3>3 DEF Pending
      <4>2. i # 1
        BY <2>2, <4>1 DEF s
      <4> QED BY <1>10, <4>1, <4>2
    <3> QED BY <3>2, <3>3 DEF UndoInv, Ownership, GoalsMet
  <2> QED BY <2>1, <2>2
<1>12. JobsKept'
  <2> SUFFICES ASSUME NEW i \in DOMAIN jobs' PROVE JobKept(jobs[i])'
    BY DEF JobsKept
  <2>1. CASE i # 1
    BY <1>1, <1>2, <1>10, <2>1, JobStays
  <2>2. CASE i = 1
    <3>1. jobs'[i] = rest
      BY <1>10, <2>2
    <3>2. op'.pc \in {"apply", "undo", "retry"} => Leads(jobs[i])'
      <4>1. PICK t \in Services : t = s
        BY <1>2
      <4>2. Goal(t)' = Goal(t)
        BY <1>1, <1>2, <4>1 DEF Goal, Claiming
      <4> QED BY <1>5, <1>9, <3>1, <4>1, <4>2 DEF Leads
    <3>3. Usable(jobs[i].svc, jobs[i].at.at)'
      BY <1>1, <1>2, <1>5, <3>1 DEF Usable
    <3>4. ASSUME NEW k \in DOMAIN rest.path
          PROVE  /\ Usable(jobs[i].svc, jobs[i].path[k].at)'
                 /\ Served(jobs[i].svc, jobs[i].path[k])'
      <4>1. Usable(s, rest.path[k].at) /\ Served(s, rest.path[k])
        BY <1>7, <1>9
      <4> QED BY <1>1, <1>2, <1>5, <3>1, <4>1 DEF Usable, Served
    <3> QED BY <3>1, <3>2, <3>3, <3>4 DEF JobKept
  <2> QED BY <2>1, <2>2
<1> QED BY <1>11, <1>12

LEMMA CommandUndo ==
    ASSUME UndoInv, Command
    PROVE  UndoInv'
<1> DEFINE s == jobs[1].svc
           x == jobs[1].path[1]
<1>1. /\ op.pc \in Writing /\ jobs # <<>>
      /\ UNCHANGED <<prefs, accepted, pac, target, recovery>>
      /\ \/ UNCHANGED native /\ Fail
         \/ /\ os' = [os EXCEPT ![s] = x] /\ writer' = [writer EXCEPT ![s] = Author(s, x)]
            /\ Fail \/ (jobs' = Advance(x) /\ UNCHANGED op)
  BY DEF Command, Planned
<1>2. /\ s \in Entries /\ s \in Services /\ x \in States
      /\ Usable(s, x.at) /\ Served(s, x)
      /\ \A t \in Services :
           /\ undo'[t].prev = undo[t].prev /\ undo'[t].by = undo[t].by
           /\ undo'[t].observed = undo[t].observed
           /\ undo'[t].known \subseteq undo[t].known \cup (IF t = s THEN {x} ELSE {})
  BY CommandEffect
<1>3. ASSUME Fail
      PROVE  /\ op'.kind = op.kind /\ op'.claim = op.claim
             /\ op'.pc \in {"rollback", "safety", "reobserve", "giveup"}
             /\ op.pc = "retry" <=> op'.pc = "reobserve"
             /\ Candidate' = Candidate /\ GoalsMet' /\ JobsKept'
  BY <1>1, <1>3, FailEffect
<1>4. Candidate' = Candidate /\ op'.pc # "stage"
  BY <1>1, <1>3 DEF Candidate, Writing
<1>5. Candidates' = Candidates
  BY <1>1, <1>4 DEF Candidates, pac
<1>6. /\ ClaimsAgree' /\ Tracked' /\ PrevTracked' /\ Entries' = Entries
      /\ Listeners' /\ PrevServed' /\ PacServed'
      /\ \A t \in Services \ Entries : Quiet(t) => Quiet(t)'
  <2>1. CASE UNCHANGED native
    <3>1. ClaimsAgree' /\ Tracked' /\ PrevTracked' /\ Entries' = Entries
      BY <1>1, <1>2, <2>1, OwnershipStays
    <3>2. Listeners' /\ PrevServed' /\ PacServed'
      BY <1>1, <1>2, <1>4, <2>1, ServingStays
    <3> QED BY <1>1, <2>1, <3>1, <3>2 DEF Quiet, native, pac
  <2>2. CASE os' = [os EXCEPT ![s] = x] /\ writer' = [writer EXCEPT ![s] = Author(s, x)]
    <3> HIDE DEF s, x
    <3> QED BY <1>1, <1>2, <1>4, <2>2, ShownKeeps
  <2> QED BY <1>1, <2>1, <2>2
<1>7. GoalsMet' /\ JobsKept'
  <2>1. CASE ~Fail
    BY <1>1, <1>5, <2>1, AdvanceUndo
  <2> QED BY <1>3, <2>1
<1>8. Known'
  <2> SUFFICES ASSUME NEW t \in Entries, NEW y \in undo'[t].known \cup {undo'[t].observed}
               PROVE  y \in undo[t].known \cup {undo[t].observed, NoState} \/ Usable(t, y.at)
    BY <1>1, <1>2, <1>5, KnownStays
  <2> QED BY <1>2 DEF Entries
<1> HIDE DEF s, x
<1>9. /\ op'.kind = op.kind /\ op'.claim = op.claim
      /\ op.pc \in Changing => op'.pc \in Changing \ {"persist"}
      /\ op'.pc \in Changing \cup {"clear"} => op.pc \in Changing
      /\ recovery => op'.pc # "clear"
      /\ ~recovery => op.pc \in Changing
      /\ op'.pc \in Releasing => op.pc \in Releasing
  BY <1>1, <1>3 DEF Writing, Changing, Releasing, UndoInv, ProxyInv, EntriesKept
<1>10. Shape'
  BY <1>1, <1>6, <1>9 DEF UndoInv, Ownership, Shape, Changing, Claiming
<1>11. Outside'
  BY <1>1, <1>6, <1>9 DEF UndoInv, Ownership, Outside
<1>12. ProxyInv'
  BY CommandKeeps DEF UndoInv
<1> QED BY <1>6, <1>7, <1>8, <1>10, <1>11, <1>12 DEF UndoInv, Ownership, Serving

-----------------------------------------------------------------------------
(* Another program *)

LEMMA IntrusionUndo ==
    ASSUME UndoInv, NEW s \in Services, Intrusion(s)
    PROVE  UndoInv'
<1>1. /\ writer' = [writer EXCEPT ![s] = "foreign"]
      /\ UNCHANGED <<prefs, accepted, pac, entries, recovery, op, jobs>>
      /\ UNCHANGED <<running, retained, minted, undo, target>>
  BY DEF Intrusion, entries, pac
<1>2. PICK x \in {On(Foreign), Off(On(Foreign)), Off(os[s])}
                 \cup (IF os[s].flag = "on" THEN {[os[s] EXCEPT !.flag = "half"]} ELSE {}) :
          os' = [os EXCEPT ![s] = x]
  BY DEF Intrusion
<1>3. /\ x.at = Foreign \/ (x.at = os[s].at /\ Off(x) = Off(os[s]))
      /\ Active(x) => x.at = Foreign \/ (x.at = os[s].at /\ Active(os[s]))
  <2>1. os[s] \in States
    BY StateTyped DEF UndoInv
  <2> QED BY <2>1 DEF On, Off, States, Active
<1>4. /\ os'[s] = x /\ writer'[s] = "foreign"
      /\ \A t \in Services : t # s => os'[t] = os[t] /\ writer'[t] = writer[t]
  BY <1>1, <1>2 DEF UndoInv, ProxyInv, TypeOK
<1> HIDE <1>2
<1>5. /\ Entries' = Entries /\ Entries \subseteq Services
      /\ Candidate' = Candidate /\ Candidates' = Candidates
  BY <1>1 DEF Entries, Candidate, Candidates
<1>6. minted \subseteq Urls /\ Foreign \notin Urls /\ Candidates \subseteq Urls
      /\ (running # None => running \in Urls)
  BY Apart DEF UndoInv, ProxyInv, TypeOK, Candidates, Candidate
<1>7. Shape' /\ ClaimsAgree' /\ Known' /\ PrevServed'
  BY <1>1, <1>5 DEF UndoInv, Ownership, Serving, Shape, ClaimsAgree, Known, PrevServed,
                    Claiming, Usable
<1>8. JobsKept'
  BY <1>1, <1>5 DEF UndoInv, Serving, JobsKept, JobKept, Leads, Goal, Claiming, Usable, Served
<1>9. Outside'
  <2>1. ASSUME NEW t \in Services, Quiet(t) PROVE Quiet(t)'
    <3>1. CASE t = s
      BY <1>1, <1>3, <1>4, <1>6, <2>1, <3>1 DEF Quiet
    <3> QED BY <1>1, <1>4, <2>1, <3>1 DEF Quiet
  <2> QED BY <1>1, <1>5, <2>1 DEF UndoInv, Ownership, Outside
<1>10. Tracked' /\ PrevTracked'
  BY <1>1, <1>4, <1>5 DEF UndoInv, Ownership, Tracked, PrevTracked, Claimed
<1>11. GoalsMet'
  <2> SUFFICES ASSUME op.pc \in {"apply", "persist", "undo", "retry"}, NEW t \in Entries
               PROVE  Pending(t)' \/ Settled(t, Goal(t))'
    BY <1>1, <1>5 DEF GoalsMet
  <2>2. Goal(t)' = Goal(t) /\ Pending(t)' = Pending(t)
    BY <1>1, <1>5 DEF Goal, Claiming, Pending
  <2>3. ASSUME Settled(t, Goal(t)) PROVE Settled(t, Goal(t))'
    <3>1. Settled(t, Goal(t)) /\ t \in Services
      BY <1>5, <2>3
    <3> DEFINE y == Goal(t)
    <3>2. y' = y
      BY <2>2
    <3> HIDE DEF y
    <3>3. Settled(t, y)
      BY <3>1 DEF y
    <3>4. Settled(t, y)'
      BY <1>3, <1>4, <3>1, <3>2, <3>3 DEF Settled
    <3> QED BY <3>4 DEF y
  <2> QED BY <2>2, <2>3 DEF UndoInv, Ownership, GoalsMet
<1>12. Listeners'
  <2>1. \A t \in Services : os'[t].at \in {os[t].at, Foreign}
    BY <1>3, <1>4
  <2>2. op.pc = "stage" /\ op.claim.at \in Urls =>
          op.claim.at # running /\ \A t \in Services : os'[t].at # op.claim.at
    BY <1>6, <2>1 DEF UndoInv, Serving, Listeners
  <2>3. \A u \in Candidates : NewUrl(u)'
    BY <1>1, <1>6, <2>1 DEF UndoInv, Serving, Listeners, NewUrl
  <2>4. running # None => \A t \in Services :
          running \in {os'[t].at, undo[t].prev.at} => t = accepted.svc
    BY <1>6, <2>1 DEF UndoInv, Serving, Listeners
  <2> QED BY <1>1, <1>5, <2>2, <2>3, <2>4 DEF UndoInv, Serving, Listeners
<1>13. PacServed'
  <2> SUFFICES ASSUME NEW t \in Services, Active(os'[t]), os'[t].at \in minted
               PROVE  \/ os'[t].at \in {running, retained, Candidate}
                      \/ undo[t].prev = Off(os'[t])
    BY <1>1, <1>5 DEF PacServed
  <2>1. Active(os[t]) /\ os'[t].at = os[t].at /\ Off(os'[t]) = Off(os[t])
    BY <1>3, <1>4, <1>6
  <2> QED BY <2>1 DEF UndoInv, Serving, PacServed
<1>14. ProxyInv'
  BY IntrusionKeeps DEF UndoInv
<1> QED BY <1>7, <1>8, <1>9, <1>10, <1>11, <1>12, <1>13, <1>14 DEF UndoInv, Ownership, Serving

-----------------------------------------------------------------------------
(* A last observation *)

LEMMA ObserveAgainStays ==
    ASSUME UndoInv, NEW S \in SUBSET Services, ObserveAgain(S), NEW s \in Services
    PROVE  /\ undo'[s].prev = undo[s].prev /\ undo'[s].by = undo[s].by
           /\ undo'[s].known = undo[s].known
           /\ undo'[s].observed \in undo[s].known \cup {undo[s].observed, NoState}
<1> DEFINE e == undo[s]
<1>1. e \in Entry
  BY DEF UndoInv, ProxyInv, TypeOK
<1>2. PICK o \in {NoState, Evidence(s)} :
        undo'[s] = e \/ undo'[s] = [e EXCEPT !.observed = o]
  BY DEF ObserveAgain
<1>3. o \in e.known \cup {NoState}
  BY DEF Evidence, Permitted
<1> HIDE DEF e
<1>4. /\ undo'[s].prev = e.prev /\ undo'[s].by = e.by /\ undo'[s].known = e.known
      /\ undo'[s].observed \in {e.observed, o}
  BY <1>1, <1>2 DEF Entry
<1> QED BY <1>3, <1>4 DEF e

LEMMA ReobserveUndo ==
    ASSUME UndoInv, Reobserve
    PROVE  UndoInv'
<1>1. /\ op.pc = "reobserve" /\ op' = Idle /\ recovery
      /\ op'.pc = "idle" /\ op'.kind = "release" /\ op'.claim = NoClaim
      /\ jobs = <<>> /\ jobs' = jobs
      /\ ObserveAgain({s \in Entries : undo[s].tried})
      /\ UNCHANGED <<native, prefs, accepted, pac, target, recovery>>
  BY DEF Reobserve, UndoInv, ProxyInv, EntriesKept, Writing, Idle
<1>2. \A s \in Services :
        /\ undo'[s].prev = undo[s].prev /\ undo'[s].by = undo[s].by
        /\ undo'[s].known = undo[s].known
        /\ undo'[s].observed \in undo[s].known \cup {undo[s].observed, NoState}
  BY <1>1, ObserveAgainStays DEF Entries
<1>3. Candidate' = Candidate
  BY <1>1, CandidateSame DEF Changing
<1>4. ClaimsAgree' /\ Tracked' /\ PrevTracked' /\ Entries' = Entries
  BY <1>1, <1>2, OwnershipStays
<1>5. Listeners' /\ PrevServed' /\ PacServed' /\ Candidates' = Candidates
  BY <1>1, <1>2, <1>3, ServingStays
<1>6. Known'
  BY <1>1, <1>2, <1>5, KnownStays DEF Entries
<1>7. Shape' /\ Outside'
  BY <1>1, <1>4 DEF UndoInv, Ownership, Shape, Outside, Quiet, Changing, Claiming, native, pac
<1>8. GoalsMet' /\ JobsKept'
  BY <1>1 DEF GoalsMet, JobsKept
<1>9. ProxyInv'
  BY ReobserveKeeps DEF UndoInv
<1> QED BY <1>4, <1>5, <1>6, <1>7, <1>8, <1>9 DEF UndoInv, Ownership, Serving

LEMMA GiveUpUndo ==
    ASSUME UndoInv, GiveUp
    PROVE  UndoInv'
<1>1. /\ op.pc = "giveup" /\ op' = Idle /\ ~recovery /\ recovery' = TRUE
      /\ op'.pc = "idle" /\ op'.kind = "release" /\ op'.claim = NoClaim
      /\ jobs = <<>> /\ jobs' = jobs
      /\ ObserveAgain(Entries)
      /\ retained' = IF Candidate # None THEN Candidate ELSE retained
      /\ UNCHANGED <<native, prefs, accepted, running, minted, target>>
  BY DEF GiveUp, UndoInv, ProxyInv, EntriesKept, Writing, Idle
<1>2. \A s \in Services :
        /\ undo'[s].prev = undo[s].prev /\ undo'[s].by = undo[s].by
        /\ undo'[s].known = undo[s].known
        /\ undo'[s].observed \in undo[s].known \cup {undo[s].observed, NoState}
  BY <1>1, ObserveAgainStays DEF Entries
<1>3. /\ retained = None /\ Candidate' = None /\ retained' = Candidate
      /\ Candidates' = Candidates
  BY <1>1 DEF UndoInv, Serving, Listeners, Candidate, Candidates
<1>4. ClaimsAgree' /\ Tracked' /\ PrevTracked' /\ Entries' = Entries
  BY <1>1, <1>2, OwnershipStays
<1>5. Listeners'
  BY <1>1, <1>2, <1>3 DEF UndoInv, Serving, Listeners, NewUrl, native
<1>6. PrevServed' /\ PacServed'
  BY <1>1, <1>2, <1>3, <1>4 DEF UndoInv, Serving, PrevServed, PacServed, native, Entries
<1>7. Known'
  BY <1>1, <1>2, <1>3, KnownStays DEF Entries
<1>8. Shape' /\ Outside'
  BY <1>1, <1>4 DEF UndoInv, Ownership, Shape, Outside, Quiet, Changing, Claiming, native
<1>9. GoalsMet' /\ JobsKept'
  BY <1>1 DEF GoalsMet, JobsKept
<1>10. ProxyInv'
  BY GiveUpKeeps DEF UndoInv
<1> QED BY <1>4, <1>5, <1>6, <1>7, <1>8, <1>9, <1>10 DEF UndoInv, Ownership, Serving

-----------------------------------------------------------------------------
(* The end of a change or of a recovery *)

LEMMA EndedUndo ==
    ASSUME ProxyInv', \A s \in Services : undo'[s].prev = NoState,
           jobs' = <<>>, recovery' = FALSE, retained' = None,
           op'.pc \in {"idle", "claim", "persist", "clear"},
           op'.kind \in {"release", "disable"} => op'.claim = NoClaim,
           op'.kind \in {"enable", "restore"} => op'.claim \in Claims,
           op'.pc = "claim" => op'.kind \in {"release", "disable"},
           op'.pc = "persist" => op'.kind = "disable",
           op'.pc = "clear" => op'.kind = "release",
           op'.pc \in {"persist", "clear"} => \A s \in Services : Quiet(s)',
           ClaimsAgree',
           \A s \in Services :
             /\ writer'[s] = "us" /\ Active(os'[s]) => Claimed(s, os[s])'
             /\ Active(os'[s]) /\ os'[s].at \in minted' => os'[s].at = running'
             /\ running' # None /\ os'[s].at = running' => s = accepted'.svc,
           running' # None => running' = accepted'.at
    PROVE  UndoInv'
<1>1. Entries' = {} /\ \A s \in Services : undo'[s].prev.at = None
  BY Apart DEF Entries
<1>2. Candidates' = {}
  BY Apart DEF Candidates, Candidate
<1>3. Shape'
  BY <1>1 DEF Shape, Releasing, Changing, Claiming
<1>4. Outside'
  BY <1>1 DEF Outside, Changing
<1>5. Tracked' /\ PrevTracked' /\ GoalsMet'
  BY <1>1 DEF Tracked, PrevTracked, GoalsMet
<1>6. JobsKept' /\ Known' /\ PrevServed' /\ PacServed'
  BY <1>1 DEF JobsKept, Known, PrevServed, PacServed
<1>7. Listeners'
  BY <1>1, <1>2 DEF Listeners
<1> QED BY <1>3, <1>4, <1>5, <1>6, <1>7 DEF UndoInv, Ownership, Serving

\* The process ends: what a transaction or a pending recovery knew is nobody's.
LEMMA CrashUndo ==
    ASSUME UndoInv, Crash
    PROVE  UndoInv'
<1>1. /\ undo' = NoUndo /\ target' = None /\ jobs' = <<>> /\ recovery' = FALSE
      /\ op'.pc = "idle" /\ op'.kind = "release" /\ op'.claim = NoClaim
      /\ accepted' = NoClaim /\ running' = None /\ retained' = None /\ minted' = {}
      /\ UNCHANGED <<os, prefs>>
      /\ writer' = [s \in Services |-> IF s \in Entries THEN "foreign" ELSE writer[s]]
  BY DEF Crash, Idle
<1>2. ASSUME NEW s \in Services, writer'[s] = "us", Active(os'[s])
      PROVE  Claimed(s, os[s])'
  <2>1. s \notin Entries /\ writer[s] = "us" /\ Active(os[s])
    BY <1>1, <1>2
  <2> QED BY <1>1, <2>1 DEF UndoInv, Ownership, Tracked, Claimed
<1>3. ProxyInv'
  BY CrashKeeps DEF UndoInv
<1> QED BY <1>1, <1>2, <1>3, NoUndoTyped, EndedUndo DEF ClaimsAgree

\* Once the entries are restored, what is ours is claimed, and what an active setting
\* of this process names, its entry found: the running listener serves it.
LEMMA Restored ==
    ASSUME UndoInv, op.pc \in {"undo", "retry"}, jobs = <<>>, NEW s \in Services
    PROVE  /\ writer[s] = "us" /\ Active(os[s]) => Claimed(s, os[s])
           /\ Active(os[s]) /\ os[s].at \in minted =>
                /\ s \in Entries /\ Active(undo[s].prev)
                /\ os[s].at = undo[s].prev.at /\ os[s].at = running
<1>1. s \in Entries => Settled(s, undo[s].prev)
  BY DEF UndoInv, Ownership, GoalsMet, Pending, Goal
<1>2. op.pc \in Changing \/ recovery
  BY DEF Changing, UndoInv, ProxyInv, EntriesKept
<1>3. CASE s \in Entries
  <2>1. ASSUME writer[s] = "us", Active(os[s])
        PROVE  Claimed(s, os[s])
    <3>1. os[s] = undo[s].prev
      BY <1>1, <1>3, <2>1 DEF Settled
    <3> QED BY <1>3, <2>1, <3>1 DEF UndoInv, Ownership, PrevTracked
  <2>2. ASSUME Active(os[s]), os[s].at \in minted
        PROVE  Active(undo[s].prev) /\ os[s].at = undo[s].prev.at /\ os[s].at = running
    <3>1. os[s].at # Foreign
      BY <2>2, Apart DEF UndoInv, ProxyInv, TypeOK
    <3>2. os[s].at = undo[s].prev.at /\ Active(undo[s].prev)
      BY <1>1, <1>3, <2>2, <3>1 DEF Settled
    <3> QED BY <1>3, <2>2, <3>2 DEF UndoInv, Serving, PrevServed
  <2> QED BY <1>3, <2>1, <2>2
<1>4. CASE s \notin Entries
  BY <1>2, <1>4 DEF UndoInv, Ownership, Outside, Quiet
<1> QED BY <1>3, <1>4

LEMMA RolledBackUndo ==
    ASSUME UndoInv, RolledBack
    PROVE  UndoInv'
<1>1. /\ op.pc = "undo" /\ jobs = <<>> /\ jobs' = jobs
      /\ undo' = NoUndo /\ target' = None
      /\ op'.pc = "idle" /\ op'.kind = "release" /\ op'.claim = NoClaim
      /\ UNCHANGED <<native, prefs, accepted, pac, recovery>>
      /\ recovery = FALSE /\ retained = None
  BY DEF RolledBack, Written, Idle, UndoInv, ProxyInv, TypeOK, EntriesKept, Serving, Listeners
<1>2. ProxyInv'
  BY RolledBackKeeps DEF UndoInv
<1>3. ClaimsAgree'
  BY <1>1 DEF UndoInv, Ownership, ClaimsAgree
<1>4. ASSUME NEW s \in Services
      PROVE  /\ writer'[s] = "us" /\ Active(os'[s]) => Claimed(s, os[s])'
             /\ Active(os'[s]) /\ os'[s].at \in minted' => os'[s].at = running'
             /\ running' # None /\ os'[s].at = running' => s = accepted'.svc
  <2>1. /\ writer[s] = "us" /\ Active(os[s]) => Claimed(s, os[s])
        /\ Active(os[s]) /\ os[s].at \in minted => os[s].at = running
    BY <1>1, Restored
  <2> QED BY <1>1, <2>1 DEF Claimed, native, pac, UndoInv, Serving, Listeners
<1>5. running' # None => running' = accepted'.at
  BY <1>1 DEF UndoInv, Serving, Listeners, pac
<1> QED BY <1>1, <1>2, <1>3, <1>4, <1>5, NoUndoTyped, EndedUndo DEF pac

LEMMA RecoveredUndo ==
    ASSUME UndoInv, Recovered
    PROVE  UndoInv'
<1>1. /\ op.pc = "retry" /\ jobs = <<>> /\ jobs' = jobs
      /\ undo' = NoUndo /\ target' = None
      /\ recovery' = FALSE /\ retained' = None
      /\ running' = IF \E s \in Entries : undo[s].prev.at = running /\ Active(undo[s].prev)
                    THEN running ELSE None
      /\ op'.pc = "claim" /\ op'.kind = op.kind /\ op'.claim = op.claim
      /\ UNCHANGED <<native, prefs, accepted, minted>>
  BY DEF Recovered, Written, UndoInv, ProxyInv, TypeOK
<1>2. ProxyInv'
  BY RecoveredKeeps DEF UndoInv
<1>3. ClaimsAgree'
  BY <1>1 DEF UndoInv, Ownership, ClaimsAgree
<1>4. ASSUME NEW s \in Services
      PROVE  /\ writer'[s] = "us" /\ Active(os'[s]) => Claimed(s, os[s])'
             /\ Active(os'[s]) /\ os'[s].at \in minted' => os'[s].at = running'
             /\ running' # None /\ os'[s].at = running' => s = accepted'.svc
  <2>1. /\ writer[s] = "us" /\ Active(os[s]) => Claimed(s, os[s])
        /\ Active(os[s]) /\ os[s].at \in minted =>
             /\ s \in Entries /\ Active(undo[s].prev)
             /\ os[s].at = undo[s].prev.at /\ os[s].at = running
    BY <1>1, Restored
  <2> QED BY <1>1, <2>1 DEF Claimed, native, UndoInv, Serving, Listeners
<1>5. running' # None => running' = accepted'.at
  BY <1>1 DEF UndoInv, Serving, Listeners
<1>6. /\ op'.kind \in {"release", "disable"}
      /\ op'.kind \in {"release", "disable"} => op'.claim = NoClaim
      /\ op'.kind \in {"enable", "restore"} => op'.claim \in Claims
  BY <1>1 DEF UndoInv, Ownership, Shape, Claiming, Releasing
<1> QED BY <1>1, <1>2, <1>3, <1>4, <1>5, <1>6, NoUndoTyped, EndedUndo

\* Once a change is applied, only its own claim is ours, and only its own URL is on.
LEMMA Committed ==
    ASSUME UndoInv, op.pc \in {"apply", "persist"}, jobs = <<>>,
           NEW s \in Services, Active(os[s])
    PROVE  /\ writer[s] = "us" => Claiming /\ s = target /\ os[s] = On(op.claim.at)
           /\ os[s].at \in minted => Claiming /\ s = target /\ os[s].at = op.claim.at
<1>1. os[s].at \in minted => os[s].at # Foreign
  BY Apart DEF UndoInv, ProxyInv, TypeOK
<1>2. CASE s \notin Entries
  BY <1>2 DEF UndoInv, Ownership, Outside, Changing, Quiet
<1>3. CASE s \in Entries
  <2>1. Settled(s, Goal(s))
    BY <1>3 DEF UndoInv, Ownership, GoalsMet, Pending
  <2>2. CASE Claiming /\ s = target
    BY <1>1, <2>1, <2>2 DEF Goal, Settled, On
  <2>3. CASE ~(Claiming /\ s = target)
    <3>1. Goal(s) = Off(undo[s].prev) /\ ~Active(Goal(s))
      <4>1. undo[s].prev \in States
        BY <1>3, StateTyped DEF UndoInv
      <4> QED BY <2>3, <4>1 DEF Goal, Off, Active, States
    <3> QED BY <1>1, <2>1, <3>1 DEF Settled
  <2> QED BY <2>2, <2>3
<1> QED BY <1>2, <1>3

LEMMA NoEntryShown ==
    ASSUME UndoInv, Entries = {}, NEW s \in Services
    PROVE  undo[s].prev = NoState
BY DEF Entries

\* A committed release: nothing of ours is on.
LEMMA ReleaseAppliedUndo ==
    ASSUME UndoInv, Applied, op.kind = "release"
    PROVE  UndoInv'
<1>1. /\ op.pc = "apply" /\ jobs = <<>> /\ jobs' = jobs
      /\ Commit /\ op' = [op EXCEPT !.pc = "clear"]
      /\ UNCHANGED <<native, prefs, minted, recovery>>
  BY DEF Applied, Written
<1>2. op'.pc = "clear" /\ op'.kind = "release" /\ op'.claim = NoClaim /\ op.claim = NoClaim
  BY <1>1 DEF UndoInv, ProxyInv, TypeOK, Ownership, Shape, Claiming
<1>3. /\ undo' = NoUndo /\ accepted' = NoClaim /\ running' = None /\ retained' = None
      /\ recovery' = FALSE
  BY <1>1, <1>2, Apart DEF Commit, UndoInv, ProxyInv, TypeOK, EntriesKept
<1>4. ASSUME NEW s \in Services, Active(os[s])
      PROVE  writer[s] = "foreign" /\ os[s].at \notin minted
  BY <1>1, <1>2, <1>4, Committed DEF Claiming, UndoInv, ProxyInv, TypeOK
<1>5. ProxyInv'
  BY AppliedKeeps DEF UndoInv
<1> QED BY <1>1, <1>2, <1>3, <1>4, <1>5, NoUndoTyped, EndedUndo DEF Quiet, native, ClaimsAgree

\* The claim is forgotten when nothing of ours is on.
LEMMA ForgottenUndo ==
    ASSUME UndoInv, ProxyInv', \A s \in Services : Quiet(s),
           Entries = {}, jobs = <<>>, ~recovery,
           prefs'.claim = NoClaim, op' = Idle,
           UNCHANGED <<native, accepted, pac, entries, recovery, jobs>>
    PROVE  UndoInv'
<1>1. /\ op'.pc = "idle" /\ op'.kind = "release" /\ op'.claim = NoClaim
      /\ \A s \in Services : undo'[s].prev = NoState
      /\ UNCHANGED <<os, writer, running, retained, minted>>
      /\ recovery' = FALSE /\ retained' = None
  BY NoEntryShown DEF Idle, entries, native, pac, UndoInv, ProxyInv, TypeOK, Serving, Listeners
<1>2. ClaimsAgree'
  BY DEF ClaimsAgree
<1>3. running # None => /\ running = accepted.at
                        /\ \A s \in Services : os[s].at = running => s = accepted.svc
  BY DEF UndoInv, Serving, Listeners
<1> QED BY <1>1, <1>2, <1>3, EndedUndo DEF Quiet

LEMMA ClearUndo ==
    ASSUME UndoInv, Clear
    PROVE  UndoInv'
<1>1. /\ op.pc = "clear" /\ op' = Idle
      /\ UNCHANGED <<native, accepted, pac, entries, recovery, jobs>>
      /\ \/ UNCHANGED prefs
         \/ prefs' = [prefs EXCEPT !.claim = NoClaim]
  BY DEF Clear
<1>2. CASE prefs' = [prefs EXCEPT !.claim = NoClaim]
  <2>1. Entries = {} /\ jobs = <<>> /\ ~recovery /\ \A s \in Services : Quiet(s)
    BY <1>1 DEF UndoInv, ProxyInv, EntriesKept, Writing, Ownership, Shape, Outside, Changing
  <2>2. prefs'.claim = NoClaim
    BY <1>2 DEF UndoInv, ProxyInv, TypeOK
  <2>3. ProxyInv'
    BY ClearKeeps DEF UndoInv
  <2> QED BY <1>1, <2>1, <2>2, <2>3, ForgottenUndo
<1> QED BY <1>1, <1>2, ClearFailsUndo

LEMMA PersistUndo ==
    ASSUME UndoInv, Persist
    PROVE  UndoInv'
<1>1. /\ op.pc = "persist" /\ jobs = <<>> /\ ~recovery /\ op' = Idle
      /\ prefs'.claim = op.claim
      /\ UNCHANGED <<native, minted, recovery, jobs>>
      /\ IF Entries = {} THEN UNCHANGED <<accepted, running, retained, entries>> ELSE Commit
  BY DEF Persist, UndoInv, ProxyInv, EntriesKept, Writing, Ownership, Shape
<1>2. ProxyInv'
  BY PersistKeeps DEF UndoInv
<1>3. CASE Entries = {}
  <2>1. op.claim = NoClaim
    BY <1>1, <1>3 DEF UndoInv, Ownership, Shape, Changing, Claiming
  <2>2. \A s \in Services : Quiet(s)
    BY <1>1, <1>3 DEF UndoInv, Ownership, Outside, Changing
  <2> QED BY <1>1, <1>2, <1>3, <2>1, <2>2, ForgottenUndo DEF pac
<1>4. CASE Entries # {}
  <2>1. /\ undo' = NoUndo /\ accepted' = op.claim
        /\ running' = IF op.claim.at \in Urls THEN op.claim.at ELSE None
        /\ retained' = None /\ recovery' = FALSE
        /\ op'.pc = "idle" /\ op'.kind = "release" /\ op'.claim = NoClaim
    BY <1>1, <1>4 DEF Commit, Idle, UndoInv, Serving, Listeners, ProxyInv, TypeOK
  <2>2. Claiming => op.claim.svc = target
    BY <1>1 DEF UndoInv, Ownership, Shape, Changing
  <2>3. ASSUME NEW s \in Services
        PROVE  /\ writer'[s] = "us" /\ Active(os'[s]) => Claimed(s, os[s])'
               /\ Active(os'[s]) /\ os'[s].at \in minted' => os'[s].at = running'
               /\ running' # None /\ os'[s].at = running' => s = accepted'.svc
    <3>1. Active(os[s]) =>
            /\ writer[s] = "us" => Claiming /\ s = target /\ os[s] = On(op.claim.at)
            /\ os[s].at \in minted => Claiming /\ s = target /\ os[s].at = op.claim.at
      BY <1>1, Committed
    <3>2. minted \subseteq Urls
      BY DEF UndoInv, ProxyInv, TypeOK
    <3>3. ASSUME running' # None, os[s].at = running' PROVE s = accepted'.svc
      <4>1. op.claim.at \in Urls /\ Candidate = op.claim.at /\ op.claim.at # None /\ Claiming
        BY <1>1, <2>1, <3>3, Apart DEF Candidate, Claiming
      <4>2. NewUrl(op.claim.at)
        BY <4>1 DEF Candidates, UndoInv, Serving, Listeners
      <4> QED BY <2>1, <2>2, <3>3, <4>1, <4>2 DEF NewUrl
    <3> QED BY <1>1, <2>1, <2>2, <3>1, <3>2, <3>3 DEF Claimed, native
  <2>4. running' # None => running' = accepted'.at
    BY <2>1
  <2>5. ClaimsAgree'
    BY <1>1, <2>1 DEF ClaimsAgree
  <2> QED BY <1>1, <1>2, <2>1, <2>3, <2>4, <2>5, NoUndoTyped, EndedUndo
<1> QED BY <1>3, <1>4

-----------------------------------------------------------------------------
(* How a change begins *)

\* A change of the services in S is staged: the one in t for the claim c, if it has
\* one, and every other to switch it off.
LEMMA StagedUndo ==
    ASSUME UndoInv, ProxyInv', ~recovery, op.pc \notin Changing,
           NEW S \in SUBSET Services, NEW t \in S, NEW c \in Claims \cup {NoClaim},
           \A r, s \in S \ {t} : r = s,
           undo' = [s \in Services |-> IF s \in S THEN NewEntry(s) ELSE NoEntry],
           target' = t,
           op'.pc = "apply", op'.claim = c,
           op'.kind \in {"release", "disable"} => c = NoClaim,
           op'.kind \in {"enable", "restore"} => c \in Claims,
           c # NoClaim => c.svc = t,
           c.at \in Urls => c.at # running /\ \A s \in Services : os[s].at # c.at,
           minted' \subseteq minted \cup {c.at},
           UNCHANGED <<native, prefs, accepted, running, retained, recovery>>,
           \A s \in Services \ S : Quiet(s),
           \A i \in DOMAIN jobs' : \E s \in S :
             jobs'[i] = Write(s, os[s], IF c # NoClaim /\ s = t THEN On(c.at) ELSE Off(os[s])),
           \A s \in S : \E i \in DOMAIN jobs' : jobs'[i].svc = s
    PROVE  UndoInv'
<1>1. /\ Entries = {} /\ retained = None /\ UNCHANGED <<os, writer>>
      /\ recovery' = FALSE
  BY DEF UndoInv, Ownership, Shape, Serving, Listeners, native, ProxyInv, TypeOK
<1>2. ASSUME NEW s \in Services
      PROVE  /\ os[s] \in States
             /\ s \in S => /\ undo'[s].prev = os[s] /\ undo'[s].known = {os[s]}
                           /\ undo'[s].observed = NoState /\ undo'[s].by = writer[s]
             /\ s \notin S => undo'[s].prev = NoState
  BY StateTyped DEF UndoInv, NewEntry, NoEntry
<1>3. Entries' = S
  BY <1>2, StateTyped DEF Entries, UndoInv
<1>4. /\ Candidate' = IF c.at \in Urls THEN c.at ELSE None
      /\ Candidates' = IF c.at \in Urls THEN {c.at} ELSE {}
      /\ minted' \subseteq Urls /\ None \notin Urls
  BY <1>1, Apart DEF Candidate, Candidates, ProxyInv, TypeOK
<1>5. ASSUME NEW s \in Services, Active(os[s]), os[s].at \in minted'
      PROVE  os[s].at \in minted /\ os[s].at = running
  <2>1. os[s].at \in minted
    BY <1>4, <1>5
  <2> QED BY <1>5, <2>1, OursIsClaimed
<1>6. Shape'
  BY <1>1, <1>3 DEF Shape, Releasing, Changing, Claiming
<1>7. Outside'
  <2> SUFFICES ASSUME NEW s \in Services \ S PROVE Quiet(s)'
    BY <1>3 DEF Outside
  <2> QED BY <1>1, <1>5 DEF Quiet
<1>8. ClaimsAgree' /\ Tracked' /\ PrevTracked'
  <2>1. \A s \in Services : writer[s] = "us" /\ Active(os[s]) => Claimed(s, os[s])
    BY <1>1 DEF UndoInv, Ownership, Tracked
  <2> QED BY <1>1, <1>2, <1>3, <2>1 DEF UndoInv, Ownership, ClaimsAgree, Tracked, PrevTracked,
                                        Claimed
<1>9. GoalsMet'
  BY <1>3 DEF GoalsMet, Pending
<1>10. Known'
  BY <1>2, <1>3 DEF Known, Usable
<1>11. Listeners'
  <2>1. running # None => /\ running = accepted.at /\ running \in Urls
                          /\ \A s \in Services : running = os[s].at => s = accepted.svc
    BY DEF UndoInv, Serving, Listeners, ProxyInv, TypeOK
  <2>2. \A s \in Services : undo'[s].prev.at \in {os[s].at, None}
    BY <1>2, Apart
  <2> QED BY <1>1, <1>4, <2>1, <2>2 DEF Listeners, NewUrl
<1>12. PrevServed' /\ PacServed'
  BY <1>1, <1>2, <1>3, <1>5 DEF PrevServed, PacServed
<1>13. ASSUME NEW i \in DOMAIN jobs'
       PROVE  JobKept(jobs[i])'
  <2>1. PICK s \in S : jobs'[i] = Write(s, os[s], IF c # NoClaim /\ s = t THEN On(c.at)
                                                  ELSE Off(os[s]))
    OBVIOUS
  <2> DEFINE z == IF c # NoClaim /\ s = t THEN On(c.at) ELSE Off(os[s])
  <2>2. /\ s \in Services /\ os[s] \in States /\ undo'[s].prev = os[s]
        /\ jobs'[i].svc = s /\ jobs'[i].at = os[s] /\ jobs'[i].path = Commands(os[s], z)
    BY <1>2, <2>1 DEF Write
  <2>3. z \in States
    BY <2>2, Apart DEF On, Off, States, Claims, Addresses
  <2>4. PICK y \in States : y = z
    BY <2>3
  <2>5. PICK p \in Seq(States) :
          jobs'[i].path = p /\ EndsIn(p, os[s], y) /\ AllBetween(p, os[s], y)
    BY <2>2, <2>4, CommandsTyped, CommandsLead
  <2>6. \/ y.at = os[s].at /\ ~Active(y)
        \/ s = t /\ c \in Claims /\ y.at = c.at
    BY <2>2, <2>4 DEF On, Off, States, Active
  <2>10. y = Goal(s)'
    BY <2>2, <2>4 DEF Goal, Claiming
  <2> HIDE DEF z
  <2>7. Leads(jobs[i])'
    BY <2>2, <2>5, <2>10 DEF Leads, EndsIn
  <2>8. ASSUME NEW k \in DOMAIN p
        PROVE  Usable(s, p[k].at)' /\ Served(s, p[k])'
    <3> DEFINE x == p[k]
    <3>1. x \in States /\ Between(x, os[s], y)
      BY <2>5, ElementOfSeq, LenProperties DEF AllBetween
    <3> HIDE DEF x
    <3>2. \/ x.at = os[s].at /\ (Active(x) => Active(os[s]))
          \/ s = t /\ c \in Claims /\ x.at = c.at
      BY <2>6, <3>1 DEF Between
    <3>3. x.at \in {undo'[s].prev.at} \cup Endpoints \/ (s = t /\ x.at \in Candidates')
      BY <1>4, <2>2, <3>2 DEF Claims
    <3>4. Active(x) /\ x.at \in minted' => x.at \in {running} \cup Candidates'
      BY <1>4, <1>5, <2>2, <3>2
    <3> QED BY <1>1, <3>3, <3>4 DEF Usable, Served, x
  <2>9. Usable(s, os[s].at)'
    BY <2>2, <1>1 DEF Usable
  <2> QED BY <1>1, <2>2, <2>5, <2>7, <2>8, <2>9 DEF JobKept
<1> QED BY <1>6, <1>7, <1>8, <1>9, <1>10, <1>11, <1>12, <1>13
        DEF UndoInv, Ownership, Serving, JobsKept

\* The jobs of a change: one, or two in a row.
LEMMA JobsGiven ==
    ASSUME NEW a \in Job, NEW b \in Job
    PROVE  /\ 1 \in DOMAIN <<a>> /\ <<a>>[1] = a
           /\ {1, 2} \subseteq DOMAIN <<a, b>> /\ <<a, b>>[1] = a /\ <<a, b>>[2] = b
OBVIOUS

LEMMA StageUndo ==
    ASSUME UndoInv, NEW c \in Claims, NEW kind \in {"enable", "restore"}, Stage(kind, c),
           op.pc \notin Changing,
           c.at \in Urls => c.at # running /\ \A s \in Services : os[s].at # c.at,
           UNCHANGED <<native, prefs, accepted, running, retained, recovery, spent>>
    PROVE  UndoInv'
<1> DEFINE o == CurrentClaim.svc
           change == Write(c.svc, os[c.svc], On(c.at))
           release == Write(o, os[o], Off(os[o]))
<1>1. /\ ~recovery /\ Stageable(c)
      /\ op'.pc = "apply" /\ op'.kind = kind /\ op'.claim = c
      /\ target' = c.svc
      /\ minted' \subseteq minted \cup {c.at}
      /\ undo' = [s \in Services |-> IF s \in OldService(c) \cup {c.svc}
                                     THEN NewEntry(s) ELSE NoEntry]
      /\ jobs' = IF OldService(c) = {} THEN <<change>> ELSE <<release, change>>
  BY DEF Stage
<1>2. c.svc \in Services /\ c # NoClaim /\ On(c.at) \in States
  BY Apart DEF Claims, On, States, Addresses
<1>3. ASSUME OldService(c) # {}
      PROVE  /\ OldService(c) = {o} /\ o \in Services /\ o # c.svc
             /\ os[o] \in States /\ Off(os[o]) \in States
  <2>1. OldService(c) = {o} /\ o # c.svc /\ CurrentClaim \in Claims
    BY <1>3, ClaimTyped DEF OldService, Matches, UndoInv, ProxyInv
  <2> QED BY <2>1, StateTyped DEF UndoInv, Claims, Off, States
<1>4. PICK S \in SUBSET Services : S = OldService(c) \cup {c.svc}
  BY <1>2, <1>3
<1>5. c.svc \in S /\ \A r, s \in S \ {c.svc} : r = s
  BY <1>3, <1>4
<1>6. ASSUME NEW s \in Services \ S
      PROVE  Quiet(s)
  <2> SUFFICES ASSUME Active(os[s]) PROVE writer[s] = "foreign" /\ os[s].at \notin minted
    BY DEF Quiet
  <2>1. s # c.svc /\ s \notin OldService(c)
    BY <1>4
  <2>2. writer[s] # "us" /\ os[s].at \notin minted
    BY <1>1, <2>1, OursIsClaimed DEF OldService, Stageable
  <2> QED BY <2>2 DEF UndoInv, ProxyInv, TypeOK
<1>7. change \in Job /\ (OldService(c) # {} => release \in Job)
  BY <1>2, <1>3, StateTyped, WriteTyped DEF UndoInv
<1>8. ASSUME NEW i \in DOMAIN jobs'
      PROVE  \E s \in S : jobs'[i] = Write(s, os[s], IF c # NoClaim /\ s = c.svc
                                                     THEN On(c.at) ELSE Off(os[s]))
  <2>1. jobs'[i] = change \/ (OldService(c) # {} /\ jobs'[i] = release)
    <3> HIDE DEF change, release, o
    <3>1. CASE OldService(c) = {}
      BY <1>1, <1>7, <3>1, JobsTyped
    <3>2. CASE OldService(c) # {}
      BY <1>1, <1>7, <3>2, JobsTyped
    <3> QED BY <3>1, <3>2
  <2> QED BY <1>2, <1>3, <1>4, <2>1
<1>9. ASSUME NEW s \in S
      PROVE  \E i \in DOMAIN jobs' : jobs'[i].svc = s
  <2>1. change.svc = c.svc /\ release.svc = o
    BY DEF Write
  <2> HIDE DEF change, release, o
  <2>2. CASE OldService(c) = {}
    BY <1>1, <1>4, <1>7, <2>1, <2>2, JobsGiven
  <2>3. CASE OldService(c) # {}
    <3>1. jobs' = <<release, change>> /\ s \in {o, c.svc}
      BY <1>1, <1>3, <1>4, <2>3
    <3>2. {1, 2} \subseteq DOMAIN jobs' /\ jobs'[1] = release /\ jobs'[2] = change
      BY <1>7, <2>3, <3>1, JobsGiven
    <3> QED BY <2>1, <3>1, <3>2
  <2> QED BY <2>2, <2>3
<1>10. ProxyInv'
  BY StageKeeps DEF UndoInv
<1> HIDE DEF change, release, o
<1> QED BY <1>1, <1>2, <1>4, <1>5, <1>6, <1>8, <1>9, <1>10, StagedUndo

LEMMA EnableUndo ==
    ASSUME UndoInv, NEW c \in Claims, Enable(c)
    PROVE  UndoInv'
<1>1. /\ op.pc \notin Changing /\ Stage("enable", c)
      /\ UNCHANGED <<native, prefs, accepted, running, retained, recovery, spent>>
      /\ c.at \in Urls => Fresh(c.at)
  BY Apart DEF Enable, Offered, Changing
<1> QED BY <1>1, StageUndo DEF Fresh

LEMMA ReconcileStagesUndo ==
    ASSUME UndoInv, ReconcileStages
    PROVE  UndoInv'
<1>1. CASE Stage("restore", op.claim)
  <2>1. PICK c \in Claims : c = op.claim
    BY DEF ReconcileStages, UndoInv, ProxyInv, EntriesKept
  <2>2. /\ op.pc \notin Changing /\ Stage("restore", c)
        /\ UNCHANGED <<native, prefs, accepted, running, retained, recovery, spent>>
        /\ c.at \in Urls => c.at # running /\ \A s \in Services : os[s].at # c.at
    BY <1>1, <2>1 DEF ReconcileStages, Changing, UndoInv, Serving, Listeners
  <2> QED BY <2>2, StageUndo
<1>2. CASE op' = Idle /\ UNCHANGED <<entries, minted, jobs>>
  BY <1>2, ReconcileStagesRefusedUndo
<1> QED BY <1>1, <1>2 DEF ReconcileStages

\* The claim is shown: it is released.
LEMMA ReleaseMatchedUndo ==
    ASSUME UndoInv, StageRelease, ReleaseMatched
    PROVE  UndoInv'
<1>1. PICK t \in Services : t = CurrentClaim.svc
  BY ClaimTyped DEF ReleaseMatched, Matches, UndoInv, ProxyInv, Claims
<1> DEFINE write == Write(t, os[t], Off(os[t]))
<1>2. /\ op.pc = "claim" /\ ~recovery
      /\ undo' = [NoUndo EXCEPT ![t] = NewEntry(t)]
      /\ target' = t /\ jobs' = <<write>>
      /\ op' = [op EXCEPT !.pc = "apply"]
      /\ UNCHANGED <<native, prefs, accepted, running, retained, minted, recovery>>
  BY <1>1 DEF StageRelease, ReleaseMatched, UndoInv, ProxyInv, EntriesKept
<1>3. op'.pc = "apply" /\ op'.kind \in {"release", "disable"} /\ op'.claim = NoClaim
  BY <1>2 DEF UndoInv, ProxyInv, TypeOK, Ownership, Shape, Releasing, Claiming
<1>4. undo' = [s \in Services |-> IF s \in {t} THEN NewEntry(s) ELSE NoEntry]
  BY <1>2 DEF NoUndo
<1>5. write \in Job /\ write.svc = t
  BY StateTyped, WriteTyped DEF UndoInv, Off, States
<1>6. ASSUME NEW s \in Services \ {t}
      PROVE  Quiet(s)
  <2>1. Active(os[s]) => writer[s] # "us" /\ os[s].at \notin minted
    BY <1>1, <1>2, OursIsClaimed DEF Changing
  <2> QED BY <2>1 DEF Quiet, UndoInv, ProxyInv, TypeOK
<1>7. /\ \A i \in DOMAIN jobs' : jobs'[i] = write
      /\ 1 \in DOMAIN jobs' /\ jobs'[1] = write
  <2> HIDE DEF write
  <2> QED BY <1>2, <1>5, JobsTyped, JobsGiven
<1>8. /\ \A i \in DOMAIN jobs' : \E s \in {t} :
           jobs'[i] = Write(s, os[s], IF NoClaim # NoClaim /\ s = t THEN On(NoClaim.at)
                                      ELSE Off(os[s]))
      /\ \A s \in {t} : \E i \in DOMAIN jobs' : jobs'[i].svc = s
  BY <1>5, <1>7
<1>9. ProxyInv'
  BY StageReleaseKeeps DEF UndoInv
<1> HIDE DEF write
<1>10. PICK S \in SUBSET Services, c \in Claims \cup {NoClaim} : S = {t} /\ c = NoClaim
  OBVIOUS
<1>11. /\ op.pc \notin Changing /\ c.at \notin Urls /\ minted' \subseteq minted \cup {c.at}
       /\ t \in S /\ \A r, s \in S \ {t} : r = s
       /\ op'.claim = c /\ op'.kind \notin {"enable", "restore"}
  BY <1>2, <1>3, <1>10, Apart DEF Changing
<1>12. /\ undo' = [s \in Services |-> IF s \in S THEN NewEntry(s) ELSE NoEntry]
       /\ \A s \in Services \ S : Quiet(s)
       /\ \A i \in DOMAIN jobs' : \E s \in S :
            jobs'[i] = Write(s, os[s], IF c # NoClaim /\ s = t THEN On(c.at) ELSE Off(os[s]))
       /\ \A s \in S : \E i \in DOMAIN jobs' : jobs'[i].svc = s
  BY <1>4, <1>6, <1>8, <1>10
<1>13. /\ ~recovery /\ target' = t /\ op'.pc = "apply"
       /\ UNCHANGED <<native, prefs, accepted, running, retained, recovery>>
       /\ op'.kind \in {"enable", "restore"} => c \in Claims
       /\ c # NoClaim => c.svc = t
  BY <1>2, <1>3, <1>10
<1> QED BY <1>9, <1>10, <1>11, <1>12, <1>13, StagedUndo

\* The claim is not shown at all: nothing of ours is on.
LEMMA ReleaseUnmatchedUndo ==
    ASSUME UndoInv, StageRelease, ReleaseUnmatched
    PROVE  UndoInv'
<1>1. /\ op.pc = "claim" /\ jobs = <<>> /\ jobs' = jobs
      /\ recovery = FALSE /\ recovery' = FALSE
      /\ op' = [op EXCEPT !.pc = IF op.kind = "disable" THEN "persist" ELSE "clear"]
      /\ running' = None /\ retained' = None
      /\ UNCHANGED <<native, prefs, accepted, minted, entries>>
  BY DEF StageRelease, ReleaseUnmatched, UndoInv, ProxyInv, TypeOK, EntriesKept, Writing
<1>2. /\ op'.pc \in {"persist", "clear"} /\ op'.claim = NoClaim
      /\ op'.kind \in {"release", "disable"}
      /\ op'.pc = "persist" <=> op'.kind = "disable"
  BY <1>1 DEF UndoInv, ProxyInv, TypeOK, Ownership, Shape, Releasing, Claiming
<1>3. ASSUME NEW s \in Services, Active(os[s])
      PROVE  writer[s] = "foreign" /\ os[s].at \notin minted
  <2>1. writer[s] # "us" /\ os[s].at \notin minted
    BY <1>1, <1>3, OursIsClaimed DEF ReleaseUnmatched, Changing
  <2> QED BY <2>1 DEF UndoInv, ProxyInv, TypeOK
<1>4. Entries = {}
  BY <1>1 DEF UndoInv, Ownership, Shape, Changing
<1>5. \A s \in Services : undo'[s].prev = NoState
  BY <1>1, <1>4, NoEntryShown DEF entries
<1>6. ClaimsAgree'
  BY <1>1 DEF UndoInv, Ownership, ClaimsAgree
<1>7. ProxyInv'
  BY StageReleaseKeeps DEF UndoInv
<1> QED BY <1>1, <1>2, <1>3, <1>5, <1>6, <1>7, EndedUndo DEF Quiet, native

LEMMA StageReleaseUndo ==
    ASSUME UndoInv, StageRelease
    PROVE  UndoInv'
BY ReleaseEndsUndo, ReleaseMatchedUndo, ReleaseUnmatchedUndo DEF StageRelease

-----------------------------------------------------------------------------
(* Theorems *)

LEMMA UndoNext == UndoInv /\ [Next]_vars => UndoInv'
<1> SUFFICES ASSUME UndoInv, [Next]_vars PROVE UndoInv'
  OBVIOUS
<1>1. CASE UNCHANGED vars
  <2>1. /\ UNCHANGED <<native, prefs, accepted, pac, target, recovery, op, jobs, undo>>
        /\ UNCHANGED <<os, writer, running, retained, minted>>
    BY <1>1 DEF vars, native, pac
  <2>2. ProxyInv'
    BY <1>1, NextKeeps DEF UndoInv
  <2>3. Entries' = Entries /\ Candidate' = Candidate
    BY <2>1 DEF Entries, Candidate
  <2>4. Candidates' = Candidates
    BY <2>1, <2>3 DEF Candidates
  <2>5. Ownership'
    BY <2>1, <2>3 DEF UndoInv, Ownership, Shape, Outside, Quiet, ClaimsAgree, Tracked,
                      PrevTracked, GoalsMet, Pending, Settled, Goal, Claiming, Claimed
  <2>6. Serving'
    BY <2>1, <2>3, <2>4 DEF UndoInv, Serving, JobsKept, JobKept, Leads, Goal, Claiming,
                            Known, Usable, Served, Listeners, NewUrl, PrevServed, PacServed
  <2> QED BY <2>2, <2>5, <2>6 DEF UndoInv
<1>2. CASE Begin
  BY <1>2, EnableUndo, ReconcileUndo, BeginReleaseUndo DEF Begin
<1>3. CASE Step
  BY <1>3, ReconcileStagesUndo, StageReleaseUndo, CommandUndo, WriteFailsUndo,
     VerifiedUndo, AppliedPersistsUndo, ReleaseAppliedUndo, PersistUndo, PersistFailsUndo,
     ClearUndo, RollbackUndo, RolledBackUndo, SafeUndo, SafetyEndsUndo, GiveUpUndo,
     RecoverUndo, ReobserveUndo, RecoveredUndo
  DEF Step
<1>4. CASE \E s \in Services : Intrusion(s)
  BY <1>4, IntrusionUndo
<1>5. CASE Crash
  BY <1>5, CrashUndo
<1> QED BY <1>1, <1>2, <1>3, <1>4, <1>5 DEF Next

\* The entries of a transaction, its jobs, the claims and the PAC listeners fit together
\* throughout (NativeProxyTransaction, PacServerInner, SystemProxyOwnership).
THEOREM UndoHolds == Spec => []UndoInv
BY UndoInit, UndoNext, PTL DEF Spec

LEMMA TrackedHolds == UndoInv => ProxyTracked
<1> SUFFICES ASSUME UndoInv, op.pc = "idle", NEW s \in Services,
                    writer[s] = "us", Active(os[s])
             PROVE  \/ os[s] = On(prefs.claim.at) /\ prefs.claim.svc = s
                    \/ recovery /\ s \in Entries
  BY DEF ProxyTracked
<1>1. CASE s \in Entries
  BY <1>1 DEF UndoInv, Ownership, Shape, Changing
<1>2. CASE s \notin Entries
  BY <1>2 DEF UndoInv, Ownership, Tracked, Claimed
<1> QED BY <1>1, <1>2

\* Between operations, the persisted claim or a pending recovery's entry names every
\* proxy of ours that is on: reconcile, set_enabled and release_owned of
\* system_proxy.rs, rollback and recover_native of native.rs lose none (SystemProxy's
\* ProxyTracked).
THEOREM ProxyIsTracked == Spec => []ProxyTracked
BY UndoHolds, TrackedHolds, PTL

\* An active PAC setting names a listener that is open, whatever an operation of
\* system_proxy.rs does to the listeners of pac.rs (SystemProxy's PacServed).
THEOREM PacIsServed == Spec => []PacServed
<1>1. UndoInv => PacServed
  BY DEF UndoInv, Serving
<1> QED BY UndoHolds, <1>1, PTL

\* Only RolledBack ends an operation from "undo" without a fault.
LEMMA RollbackStep ==
    ASSUME UndoInv, [Next]_vars, op.pc = "undo", op'.pc = "idle", spent' = spent
    PROVE  \A s \in Entries : os[s] = undo[s].prev \/ writer[s] = "foreign"
<1>1. spent.faults \in Nat /\ spent.intrusions \in Nat
  BY ProxyAssumption DEF UndoInv, ProxyInv, TypeOK
<1>2. ~Fault
  BY <1>1 DEF Fault, UndoInv, ProxyInv, TypeOK
<1>3. op' # op
  OBVIOUS
<1>4. ~UNCHANGED vars /\ ~Begin /\ ~Crash
  BY <1>2, <1>3 DEF vars, Begin, Enable, Reconcile, BeginRelease, Crash
<1>5. ASSUME NEW s \in Services, Intrusion(s) PROVE FALSE
  BY <1>3, <1>5 DEF Intrusion
<1>6. ASSUME Fail PROVE FALSE
  <2>1. op'.pc = "safety"
    BY <1>6 DEF Fail, Failed, UndoInv, ProxyInv, TypeOK
  <2> QED BY <2>1
<1>7. RolledBack
  <2>1. Step
    BY <1>4, <1>5 DEF Next
  <2> QED BY <1>3, <1>6, <2>1
      DEF Step, ReconcileStages, StageRelease, Command, WriteFails, Verified, Applied,
          Persist, PersistFails, Clear, Rollback, Safe, SafetyEnds, GiveUp, Recover,
          Reobserve, Recovered, Written
<1>8. \A s \in Entries : Settled(s, undo[s].prev)
  BY <1>7 DEF RolledBack, Written, UndoInv, Ownership, GoalsMet, Pending, Goal
<1> QED BY <1>8 DEF Settled

\* A change whose recovery is reported as confirmed (rollback of native.rs) has left
\* every service as it found it, but for what another program did since (SystemProxy's
\* RollbackExact).
THEOREM RollbackIsExact == Spec => RollbackExact
<1>1. UndoInv /\ [Next]_vars =>
        [op.pc = "undo" /\ op'.pc = "idle" /\ spent' = spent
         => \A s \in Entries : os[s] = undo[s].prev \/ writer[s] = "foreign"]_vars
  BY RollbackStep
<1> QED BY UndoHolds, <1>1, PTL DEF Spec, RollbackExact

=============================================================================
