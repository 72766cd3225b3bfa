------------------------ MODULE OwnerSession_proofs ------------------------
(***************************************************************************)
(* What OwnerSession promises for any number of desktop processes,         *)
(* accounts, starts and restarts.                                          *)
(***************************************************************************)
EXTENDS OwnerSession, TLAPS

\* The step of an operation says which operation it is.
OperationShape ==
    /\ pc = "free" <=> op.kind = "none"
    /\ op.kind \in {"start", "stop", "rollback", "abandon"} => op.gui \in Guis
    /\ pc \in {"start", "advance", "commit"} => op.kind = "start"
    /\ pc = "clear" => op.kind # "abandon"

\* Nobody owns the daemon between the old owner and the new one.
Between == pc \in {"start", "advance", "commit"} => active = NoProof

\* Whatever core runs beside an owner is the owner's.
CoreOfOwner == active # NoProof => core \in {0, active.token}

\* The core a start has in its hands is its own, and it has none before it starts one.
CoreUnderWay ==
    /\ pc \in {"clear", "start"} => core = 0
    /\ pc \in {"advance", "commit"} \/ op.kind \in {"rollback", "abandon"} => core \in {0, op.token}

\* Nothing is owned or under way once the daemon decided to exit idle.
ClosedIdle == closed => active = NoProof /\ pc = "free"

\* A stop that was admitted works for the owner it was admitted for.
StopOfOwner == op.kind = "stop" => active # NoProof /\ active = [token |-> op.token, gen |-> op.gen]

\* A generation on its way to the disk is newer than every one granted.
NewGeneration ==
    pc = "commit" => /\ op.gen = generation /\ generation > 0
                     /\ \A q \in Granted : q.gen < generation

\* What a proposed token that nobody has answered for looks like.
Awaits(t, g) ==
    /\ t \in Tokens /\ by[t] = g
    /\ \A h \in Guis : session[h].token # t
    /\ g \in alive => pending[g] = t

\* A start is tried once: until then its token is nowhere but with its GUI.
StartRequests ==
    \A r \in inbox : r.kind = "start" =>
        /\ Awaits(r.token, r.gui) /\ r.gen = 0
        /\ active.token # r.token /\ core # r.token
        /\ op.kind \in {"start", "rollback", "abandon"} => op.token # r.token

StartUnderWay == op.kind \in {"start", "rollback", "abandon"} => Awaits(op.token, op.gui)

\* Every token in use was proposed.
Proposed ==
    /\ active # NoProof => active.token \in Tokens /\ by[active.token] \in Guis
    /\ core # 0 => by[core] \in Guis

\* What a GUI holds is its own, and its call is about what it holds.
Clients ==
    \A g \in Guis :
        /\ g \notin alive => session[g] = NoProof /\ pending[g] = 0 /\ call[g] = NoCall
        /\ session[g] # NoProof => session[g].token \in Tokens /\ by[session[g].token] = g
        /\ pending[g] # 0 => by[pending[g]] = g
        /\ call[g].kind = "start" => pending[g] # 0 /\ call[g] = Asked("start", pending[g], 0)
        /\ call[g].kind = "stop" =>
            \/ pending[g] # 0 /\ call[g].token = pending[g]
            \/ pending[g] = 0 /\ session[g] # NoProof
               /\ call[g] = Asked("stop", session[g].token, session[g].gen)

\* A token that was acknowledged has its generation, and runs only as the owner.
Acknowledged ==
    \A g \in Guis : session[g] # NoProof =>
        /\ session[g].token = active.token => session[g] = active
        /\ session[g].token = core => core = active.token

DaemonInv == TypeOK /\ OperationShape /\ Between /\ CoreOfOwner /\ CoreUnderWay /\ StopOfOwner
SessionInv == /\ GenerationsUnique /\ NewGeneration /\ StartRequests /\ StartUnderWay
              /\ Proposed /\ Clients /\ Acknowledged /\ StopAuthority
IInv == DaemonInv /\ ClosedIdle /\ SessionInv

-----------------------------------------------------------------------------
(* Types *)

LEMMA InitInv == Init => IInv
  <1> SUFFICES ASSUME Init PROVE IInv
    OBVIOUS
  <1> USE OwnerAssumption DEF Init, NoProof, NoCall, NoOp, NoLease
  <1>1. TypeOK
    <2>1. active \in Proofs /\ generation \in Generations /\ op \in Operations /\ pc \in Steps
      BY DEF Proofs, Generations, Operations, Kinds, Steps
    <2>2. lease \in [gen : Generations, left : 0 .. Lifetime]
      BY DEF Generations
    <2>3. /\ session \in [Guis -> Proofs] /\ pending \in [Guis -> 0 .. MaxStarts]
          /\ call \in [Guis -> [kind : {"none", "start", "stop"}, token : 0 .. MaxStarts, gen : Generations]]
      BY DEF Proofs, Generations
    <2>4. desired \subseteq Owners /\ core \in 0 .. MaxStarts /\ ends \in 0 .. MaxEnds
      OBVIOUS
    <2>6. stuck \in BOOLEAN /\ fatal \in BOOLEAN /\ stopping \in BOOLEAN /\ closed \in BOOLEAN
      BY Zenon
    <2>5. by \in [Tokens -> Guis \cup {NoOne}] /\ inbox \subseteq Requests /\ alive \subseteq Guis
      OBVIOUS
    <2> QED BY ONLY <2>1, <2>2, <2>3, <2>4, <2>5, <2>6 DEF TypeOK
  <1>2. OperationShape /\ Between /\ CoreOfOwner /\ CoreUnderWay /\ StopOfOwner
    BY DEF OperationShape, Between, CoreOfOwner, CoreUnderWay, StopOfOwner
  <1>3. ClosedIdle /\ GenerationsUnique /\ NewGeneration
    BY DEF ClosedIdle, GenerationsUnique, Granted, NewGeneration
  <1>4. StartRequests /\ StartUnderWay /\ Proposed /\ Clients /\ Acknowledged /\ StopAuthority
    BY DEF StartRequests, StartUnderWay, Proposed, Clients, Acknowledged, StopAuthority, Tokens
  <1> QED BY <1>1, <1>2, <1>3, <1>4 DEF IInv, DaemonInv, SessionInv

\* An answer keeps the types of what a GUI holds.
LEMMA AnswerTyped ==
    ASSUME TypeOK, NEW g, NEW asked, NEW out, NEW gen \in Generations, Answered(g, asked, out, gen)
    PROVE  /\ session' \in [Guis -> Proofs]
           /\ pending' \in [Guis -> 0 .. MaxStarts]
           /\ call' \in [Guis -> [kind : {"none", "start", "stop"}, token : 0 .. MaxStarts, gen : Generations]]
  <1> USE OwnerAssumption DEF TypeOK, Proofs, Generations, NoProof
  <1>1. CASE UNCHANGED client
    BY <1>1 DEF client
  <1>2. CASE ~UNCHANGED client
    <2>1. call' = [call EXCEPT ![g] = NoCall]
      BY <1>2 DEF Answered
    <2>2. StartSettled(g, out, gen) \/ StopSettled(g, out)
      BY <1>2 DEF Answered
    <2>3. pending' \in [Guis -> 0 .. MaxStarts]
      BY <2>2 DEF StartSettled, StopSettled
    <2>4. g \in Guis => [token |-> call[g].token, gen |-> gen] \in Proofs
      OBVIOUS
    <2>5. session' \in [Guis -> Proofs]
      BY <2>2, <2>4 DEF StartSettled, StopSettled
    <2>6. NoCall \in [kind : {"none", "start", "stop"}, token : 0 .. MaxStarts, gen : Generations]
      BY DEF NoCall
    <2>7. call' \in [Guis -> [kind : {"none", "start", "stop"}, token : 0 .. MaxStarts, gen : Generations]]
      BY <2>1, <2>6
    <2> QED BY <2>3, <2>5, <2>7
  <1> QED BY <1>1, <1>2

LEMMA EndTyped ==
    ASSUME TypeOK, NEW out, Ends(out)
    PROVE  /\ session' \in [Guis -> Proofs]
           /\ pending' \in [Guis -> 0 .. MaxStarts]
           /\ call' \in [Guis -> [kind : {"none", "start", "stop"}, token : 0 .. MaxStarts, gen : Generations]]
           /\ op' = NoOp /\ pc' = "free" /\ op' \in Operations /\ pc' \in Steps
  <1>1. op' = NoOp /\ pc' = "free" /\ op' \in Operations /\ pc' \in Steps
    BY OwnerAssumption DEF Ends, NoOp, Operations, Kinds, Generations, Steps
  <1>2. op.gen \in Generations
    BY DEF TypeOK, Operations
  <1>3. \/ UNCHANGED client
        \/ Answered(op.gui, Asked("stop", op.token, op.gen), out, op.gen)
        \/ Answered(op.gui, Asked("start", op.token, 0), out, op.gen)
    BY DEF Ends
  <1>4. CASE UNCHANGED client
    BY <1>1, <1>4 DEF client, TypeOK
  <1>5. CASE Answered(op.gui, Asked("stop", op.token, op.gen), out, op.gen)
    BY <1>1, <1>2, <1>5, AnswerTyped
  <1>6. CASE Answered(op.gui, Asked("start", op.token, 0), out, op.gen)
    BY <1>1, <1>2, <1>6, AnswerTyped
  <1> QED BY <1>3, <1>4, <1>5, <1>6

ClientTyped ==
    /\ session \in [Guis -> Proofs]
    /\ pending \in [Guis -> 0 .. MaxStarts]
    /\ call \in [Guis -> [kind : {"none", "start", "stop"}, token : 0 .. MaxStarts, gen : Generations]]

LEMMA AccountTyped == ASSUME TypeOK, NEW t \in 0 .. MaxStarts PROVE Account(t) \in Owners \cup {NoOne}
  BY OwnerAssumption DEF Account, TypeOK, Tokens

\* Type correctness of every step (OwnerSession's TypeOK).
LEMMA TypeStep ==
    ASSUME TypeOK, OperationShape, [Next]_vars
    PROVE  TypeOK'
  <1> USE OwnerAssumption DEF TypeOK, disk, daemon, manager, held, gui
  <1>a. op.gen \in Generations /\ op.token \in 0 .. MaxStarts /\ NoProof \in Proofs /\ 0 \in 0 .. MaxStarts
    BY DEF Operations, Proofs, NoProof, Generations
  <1>b. /\ \A n \in Generations : Leased(n) \in [gen : Generations, left : 0 .. Lifetime]
        /\ \A n \in Generations : Renewed(n) \in [gen : Generations, left : 0 .. Lifetime]
        /\ NoLease \in [gen : Generations, left : 0 .. Lifetime]
        /\ active.gen \in Generations
    BY DEF Leased, Renewed, NoLease, Generations, Proofs
  <1>c. NoOp \in Operations /\ \A k \in Kinds : [op EXCEPT !.kind = k] \in Operations
    <2>1. NoOp \in Operations
      BY ONLY OwnerAssumption DEF NoOp, Operations, Kinds, Generations
    <2> QED BY <2>1 DEF Operations
  <1>d. ASSUME NEW kind \in {"start", "stop"}, NEW token \in 0 .. MaxStarts, NEW gen \in Generations, NEW g \in Guis,
               Ask(g, kind, token, gen)
        PROVE  /\ inbox' \subseteq Requests
               /\ call' \in [Guis -> [kind : {"none", "start", "stop"}, token : 0 .. MaxStarts, gen : Generations]]
    BY <1>d DEF Ask, Asked, Requests
  <1>1. CASE UNCHANGED vars
    BY <1>1 DEF vars
  <1>2. ASSUME NEW g \in Guis, Propose(g) PROVE TypeOK'
    <2>1. PICK t \in Untried : by' = [by EXCEPT ![t] = g] /\ pending' = [pending EXCEPT ![g] = t] /\ Ask(g, "start", t, 0)
      BY <1>2 DEF Propose
    <2>2. t \in Tokens /\ t \in 0 .. MaxStarts /\ 0 \in Generations
      BY DEF Untried, Tokens, Generations
    <2>3. by' \in [Tokens -> Guis \cup {NoOne}] /\ pending' \in [Guis -> 0 .. MaxStarts]
      BY <2>1, <2>2
    <2> QED BY <1>2, <2>1, <2>2, <2>3, <1>d DEF Propose
  <1>3. ASSUME NEW g \in Guis, RequestStop(g) PROVE TypeOK'
    <2>1. pending[g] \in 0 .. MaxStarts /\ session[g].token \in 0 .. MaxStarts /\ session[g].gen \in Generations
      BY DEF Proofs
    <2>2. Ask(g, "stop", pending[g], active.gen) \/ Ask(g, "stop", session[g].token, session[g].gen)
      BY <1>3 DEF RequestStop
    <2>3. inbox' \subseteq Requests /\ call' \in [Guis -> [kind : {"none", "start", "stop"}, token : 0 .. MaxStarts, gen : Generations]]
      BY <2>1, <2>2, <1>b, <1>d
    <2> QED BY <1>3, <2>3 DEF RequestStop
  <1>4. ASSUME NEW g \in Guis, GiveUp(g) PROVE TypeOK'
    BY <1>4 DEF GiveUp, NoCall, Generations
  <1>5. ASSUME NEW g \in Guis, Exit(g) PROVE TypeOK'
    BY <1>5, <1>a DEF Exit, NoCall, Generations
  <1>6. ASSUME NEW g \in Guis, Heartbeat(g) PROVE TypeOK'
    BY <1>6, <1>b DEF Heartbeat
  <1>7. ASSUME NEW g \in Guis, Use(g) PROVE TypeOK'
    <2>1. session[g].gen \in Generations
      BY DEF Proofs
    <2> QED BY <1>7, <2>1, <1>b DEF Use
  <1>8. ASSUME NEW r \in inbox, TakeStart(r) PROVE TypeOK'
    <2>1. r.gui \in Guis /\ r.token \in 0 .. MaxStarts /\ active.token \in 0 .. MaxStarts /\ 0 \in Generations
      BY DEF Requests, Proofs, Generations
    <2>2. CASE UNCHANGED client
      <3>1. op' \in Operations /\ pc' \in Steps
        BY <1>8, <2>1, AccountTyped DEF TakeStart, Operations, Kinds, Steps
      <3> QED BY <1>8, <2>2, <3>1 DEF TakeStart, client
    <2>3. CASE ~UNCHANGED client
      <3>1. UNCHANGED held /\ Answered(r.gui, Asked("start", r.token, r.gen), IF closed THEN "unknown" ELSE "refused", 0)
        BY <1>8, <2>3 DEF TakeStart
      <3> QED BY <1>8, <2>1, <3>1, AnswerTyped DEF TakeStart
    <2> QED BY <2>2, <2>3
  <1>9. ASSUME NEW r \in inbox, TakeStop(r) PROVE TypeOK'
    <2>1. r.gui \in Guis /\ r.token \in 0 .. MaxStarts /\ r.gen \in Generations
      BY DEF Requests
    <2>2. CASE UNCHANGED client
      <3>1. op' \in Operations /\ pc' \in Steps
        BY <1>9, <2>1 DEF TakeStop, Operations, Kinds, Steps
      <3> QED BY <1>9, <2>2, <3>1 DEF TakeStop, client
    <2>3. CASE ~UNCHANGED client
      <3>1. UNCHANGED held /\ Answered(r.gui, Asked("stop", r.token, r.gen), IF closed THEN "unknown" ELSE "refused", r.gen)
        BY <1>9, <2>3 DEF TakeStop
      <3> QED BY <1>9, <2>1, <3>1, AnswerTyped DEF TakeStop
    <2> QED BY <2>2, <2>3
  <1>10. CASE TakeExpired
    <2>1. active.token \in 0 .. MaxStarts /\ active.gen \in Generations
      BY DEF Proofs
    <2>2. op' \in Operations /\ pc' \in Steps
      BY <1>10, <2>1, AccountTyped DEF TakeExpired, Operations, Kinds, Steps
    <2> QED BY <1>10, <2>2 DEF TakeExpired
  <1>11. CASE StopCore
    <2>1. /\ UNCHANGED <<active, generation, daemon, lease, inbox, by, alive>>
          /\ core' = 0 /\ stuck' = FALSE /\ fatal' = FALSE /\ desired' \subseteq Owners
      BY <1>11 DEF StopCore, NoCore, Hinted
    <2>2. core' \in 0 .. MaxStarts /\ stuck' \in BOOLEAN /\ fatal' \in BOOLEAN
      BY <2>1, <1>a
    <2>4. CASE Ends("unknown")
      BY <2>1, <2>2, <2>4, EndTyped
    <2>3. CASE Goes("clear")
      BY <2>1, <2>2, <2>3 DEF Goes, client, Steps
    <2> QED BY <1>11, <2>3, <2>4 DEF StopCore
  <1>12. CASE StopFails
    <2>1. /\ UNCHANGED <<disk, daemon, core, inbox, by, alive>> /\ Ends("unknown")
          /\ stuck' \in BOOLEAN /\ fatal' \in BOOLEAN
      BY <1>12 DEF StopFails, Fails
    <2>2. lease' \in [gen : Generations, left : 0 .. Lifetime]
      BY <1>12, <1>a, <1>b DEF StopFails, Fails
    <2> QED BY <2>1, <2>2, EndTyped
  <1>13. CASE ClearActive
    <2>1. UNCHANGED <<generation, desired, daemon, manager, inbox, by, alive>> /\ active' \in Proofs
      BY <1>13, <1>a DEF ClearActive
    <2>2. lease' \in [gen : Generations, left : 0 .. Lifetime]
      BY <1>13, <1>b DEF ClearActive
    <2>3. Ends("unknown") \/ Ends("ok") \/ Goes("start")
      BY <1>13 DEF ClearActive
    <2>4. CASE Goes("start")
      BY <2>1, <2>2, <2>4 DEF Goes, client, Steps
    <2>5. CASE Ends("unknown") \/ Ends("ok")
      BY <2>1, <2>2, <2>5, EndTyped
    <2> QED BY <2>3, <2>4, <2>5
  <1>14. CASE ClearActiveFails
    <2>1. UNCHANGED <<disk, daemon, manager, inbox, by, alive>> /\ Ends("unknown")
      BY <1>14 DEF ClearActiveFails, Fails
    <2>2. lease' \in [gen : Generations, left : 0 .. Lifetime]
      BY <1>14, <1>a, <1>b DEF ClearActiveFails, Fails
    <2> QED BY <2>1, <2>2, EndTyped
  <1>15. CASE StartCore
    <2>1. /\ UNCHANGED <<active, generation, daemon, lease, inbox, by, alive>>
          /\ core' \in 0 .. MaxStarts /\ stuck' \in BOOLEAN /\ fatal' \in BOOLEAN
      BY <1>15, <1>a DEF StartCore, Published, NoCore
    <2>2. op.gui \in Guis
      BY <1>15 DEF StartCore, OperationShape
    <2>8. desired' \in {desired, desired \cup {OwnerOf[op.gui]}}
      BY <1>15 DEF StartCore, Hinted
    <2>3. desired' \subseteq Owners
      BY <2>2, <2>8
    <2>4. Goes("advance") \/ Ends("unknown") \/ Becomes("abandon")
      BY <1>15 DEF StartCore
    <2>5. CASE Goes("advance")
      BY <2>1, <2>3, <2>5 DEF Goes, client, Steps
    <2>6. CASE Ends("unknown")
      BY <2>1, <2>3, <2>6, EndTyped
    <2>7. CASE Becomes("abandon")
      BY <2>1, <2>3, <2>7, <1>c DEF Becomes, client, Steps, Kinds
    <2> QED BY <2>4, <2>5, <2>6, <2>7
  <1>16. CASE AdvanceGeneration
    <2>1. /\ UNCHANGED <<active, desired, daemon, manager, lease, inbox, by, alive, client>>
          /\ generation' \in Generations /\ pc' \in Steps
      BY <1>16 DEF AdvanceGeneration, Becomes, Generations, Steps
    <2>2. op' = [op EXCEPT !.gen = generation + 1] \/ op' = [op EXCEPT !.kind = "rollback"]
      BY <1>16 DEF AdvanceGeneration, Becomes
    <2>3. op' \in Operations
      BY <2>2 DEF Operations, Kinds, Generations
    <2> QED BY <2>1, <2>3 DEF client
  <1>17. CASE CommitOwner
    <2>1. Candidate \in Proofs
      BY <1>a DEF Candidate, Proofs
    <2>2. UNCHANGED <<generation, desired, daemon, manager, inbox, by, alive>> /\ active' \in Proofs
      BY <1>17, <2>1 DEF CommitOwner
    <2>3. lease' \in [gen : Generations, left : 0 .. Lifetime]
      BY <1>17, <1>a, <1>b DEF CommitOwner
    <2>4. Becomes("rollback") \/ \E out \in {"ok", "unknown"} : Ends(out)
      BY <1>17 DEF CommitOwner
    <2>5. CASE Becomes("rollback")
      BY <2>2, <2>3, <2>5, <1>c DEF Becomes, client, Steps, Kinds
    <2>6. CASE \E out \in {"ok", "unknown"} : Ends(out)
      BY <2>2, <2>3, <2>6, EndTyped
    <2> QED BY <2>4, <2>5, <2>6
  <1>18. CASE LeaseAges
    BY <1>18 DEF LeaseAges
  <1>19. CASE IdleExit
    BY <1>19 DEF IdleExit, Idle
  <1>20. CASE ServerStop
    BY <1>20, <1>a DEF ServerStop, NoCore
  <1>21. CASE Restart
    <2>1. active.token \in 0 .. MaxStarts
      BY DEF Proofs
    <2>2. /\ core' \in 0 .. MaxStarts /\ stuck' \in BOOLEAN /\ fatal' \in BOOLEAN /\ desired' \subseteq Owners
      BY <1>21, <1>a, <2>1 DEF Restart, Wanted, Published, NoCore, Hinted
    <2>3. /\ ends' \in 0 .. MaxEnds /\ stopping' = FALSE /\ closed' = FALSE /\ op' = NoOp /\ pc' = "free" /\ inbox' = {}
          /\ lease' = Leased(active.gen) /\ UNCHANGED <<active, generation, by, alive, session, pending, call>>
      BY <1>21 DEF Restart
    <2> QED BY <2>2, <2>3, <1>b, <1>c DEF Steps
  <1>22. CASE Watchdog
    BY <1>22, <1>a DEF Watchdog, Recovers, GivesUp, RecoveryStuck, NoCore
  <1> QED
    BY <1>1, <1>2, <1>3, <1>4, <1>5, <1>6, <1>7, <1>8, <1>9, <1>10, <1>11, <1>12, <1>13, <1>14, <1>15, <1>16, <1>17, <1>18, <1>19, <1>20, <1>21, <1>22 DEF Next, Work

-----------------------------------------------------------------------------
(* The operation, its owner and its core *)

LEMMA OperationStep ==
    ASSUME DaemonInv, [Next]_vars
    PROVE  OperationShape' /\ Between' /\ StopOfOwner'
  <1> USE DEF DaemonInv, OperationShape, Between, StopOfOwner, disk, daemon, manager, held, gui
  <1> DEFINE Goal == OperationShape' /\ Between' /\ StopOfOwner'
  <1>a. \A r \in inbox : r.gui \in Guis
    BY DEF TypeOK, Requests
  <1>b. ASSUME NEW out, Ends(out) PROVE pc' = "free" /\ (op').kind = "none"
    BY <1>b DEF Ends, NoOp
  <1>c. \A k \in Kinds : ([op EXCEPT !.kind = k]).kind = k /\ ([op EXCEPT !.kind = k]).gui = op.gui
    BY DEF TypeOK, Operations
  <1>d. \A n : ([op EXCEPT !.gen = n]).kind = op.kind /\ ([op EXCEPT !.gen = n]).gui = op.gui
    BY DEF TypeOK, Operations
  <1>1. CASE UNCHANGED vars
    BY <1>1 DEF vars
  <1>2. ASSUME NEW g \in Guis, Propose(g) PROVE Goal
    BY <1>2 DEF Propose
  <1>3. ASSUME NEW g \in Guis, RequestStop(g) PROVE Goal
    BY <1>3 DEF RequestStop
  <1>4. ASSUME NEW g \in Guis, GiveUp(g) PROVE Goal
    BY <1>4 DEF GiveUp
  <1>5. ASSUME NEW g \in Guis, Exit(g) PROVE Goal
    BY <1>5 DEF Exit
  <1>6. ASSUME NEW g \in Guis, Heartbeat(g) PROVE Goal
    BY <1>6 DEF Heartbeat
  <1>7. ASSUME NEW g \in Guis, Use(g) PROVE Goal
    BY <1>7 DEF Use
  <1>8. ASSUME NEW r \in inbox, TakeStart(r) PROVE Goal
    BY <1>8, <1>a DEF TakeStart
  <1>9. ASSUME NEW r \in inbox, TakeStop(r) PROVE Goal
    BY <1>9, <1>a DEF TakeStop, Authorized
  <1>10. CASE TakeExpired
    BY <1>10 DEF TakeExpired
  <1>11. CASE StopCore
    BY <1>11, <1>b DEF StopCore, Goes
  <1>12. CASE StopFails
    BY <1>12, <1>b DEF StopFails, Fails
  <1>13. CASE ClearActive
    <2>1. CASE op.kind = "start"
      BY <1>13, <2>1 DEF ClearActive, Goes
    <2>2. CASE op.kind # "start"
      BY <1>13, <2>2, <1>b DEF ClearActive
    <2> QED BY <2>1, <2>2
  <1>14. CASE ClearActiveFails
    BY <1>14, <1>b DEF ClearActiveFails, Fails
  <1>15. CASE StartCore
    BY <1>15, <1>b, <1>c DEF StartCore, Goes, Becomes, Kinds
  <1>16. CASE AdvanceGeneration
    <2>1. /\ op'.token = op.token /\ op'.gui = op.gui
          /\ (op'.kind = "start" /\ pc' = "commit") \/ (op'.kind = "rollback" /\ pc' = "stop")
      BY <1>16 DEF AdvanceGeneration, Becomes, TypeOK, Operations
    <2>2. active' = active /\ pc = "advance"
      BY <1>16 DEF AdvanceGeneration
    <2> QED BY <2>1, <2>2
  <1>17. CASE CommitOwner
    BY <1>17, <1>b, <1>c DEF CommitOwner, Becomes, Kinds
  <1>18. CASE LeaseAges
    BY <1>18 DEF LeaseAges
  <1>19. CASE IdleExit
    BY <1>19 DEF IdleExit
  <1>20. CASE ServerStop
    BY <1>20 DEF ServerStop
  <1>21. CASE Restart
    BY <1>21 DEF Restart, NoOp
  <1>22. CASE Watchdog
    BY <1>22 DEF Watchdog, Recovers, GivesUp, RecoveryStuck
  <1> QED
    BY <1>1, <1>2, <1>3, <1>4, <1>5, <1>6, <1>7, <1>8, <1>9, <1>10, <1>11, <1>12, <1>13, <1>14, <1>15, <1>16, <1>17, <1>18, <1>19, <1>20, <1>21, <1>22 DEF Next, Work

LEMMA CoreStep ==
    ASSUME DaemonInv, [Next]_vars
    PROVE  CoreOfOwner' /\ CoreUnderWay'
  <1> USE DEF DaemonInv, OperationShape, Between, CoreOfOwner, CoreUnderWay, disk, daemon, manager, held, gui
  <1> DEFINE Goal == CoreOfOwner' /\ CoreUnderWay'
  <1>b. ASSUME NEW out, Ends(out) PROVE pc' = "free" /\ (op').kind = "none"
    BY <1>b DEF Ends, NoOp
  <1>c. \A k \in Kinds : ([op EXCEPT !.kind = k]).kind = k /\ ([op EXCEPT !.kind = k]).token = op.token
    BY DEF TypeOK, Operations
  <1>d. \A n : ([op EXCEPT !.gen = n]).kind = op.kind /\ ([op EXCEPT !.gen = n]).token = op.token
    BY DEF TypeOK, Operations
  <1>1. CASE UNCHANGED vars
    BY <1>1 DEF vars
  <1>2. ASSUME NEW g \in Guis, Propose(g) PROVE Goal
    BY <1>2 DEF Propose
  <1>3. ASSUME NEW g \in Guis, RequestStop(g) PROVE Goal
    BY <1>3 DEF RequestStop
  <1>4. ASSUME NEW g \in Guis, GiveUp(g) PROVE Goal
    BY <1>4 DEF GiveUp
  <1>5. ASSUME NEW g \in Guis, Exit(g) PROVE Goal
    BY <1>5 DEF Exit
  <1>6. ASSUME NEW g \in Guis, Heartbeat(g) PROVE Goal
    BY <1>6 DEF Heartbeat
  <1>7. ASSUME NEW g \in Guis, Use(g) PROVE Goal
    BY <1>7 DEF Use
  <1>8. ASSUME NEW r \in inbox, TakeStart(r) PROVE Goal
    <2>1. (UNCHANGED <<op, pc>>) \/ (pc' = "stop" /\ op'.kind = "start")
      BY <1>8 DEF TakeStart
    <2>2. UNCHANGED <<active, core>> /\ pc = "free"
      BY <1>8 DEF TakeStart, Free
    <2> QED BY <2>1, <2>2
  <1>9. ASSUME NEW r \in inbox, TakeStop(r) PROVE Goal
    <2>1. (UNCHANGED <<op, pc>>) \/ (pc' = "stop" /\ op'.kind = "stop")
      BY <1>9 DEF TakeStop
    <2>2. UNCHANGED <<active, core>> /\ pc = "free"
      BY <1>9 DEF TakeStop, Free
    <2> QED BY <2>1, <2>2
  <1>10. CASE TakeExpired
    BY <1>10 DEF TakeExpired
  <1>11. CASE StopCore
    BY <1>11, <1>b DEF StopCore, NoCore, Goes
  <1>12. CASE StopFails
    BY <1>12, <1>b DEF StopFails, Fails
  <1>13. CASE ClearActive
    <2>1. CASE op.kind = "start"
      BY <1>13, <2>1 DEF ClearActive, Goes
    <2>2. CASE op.kind # "start"
      BY <1>13, <2>2, <1>b DEF ClearActive
    <2> QED BY <2>1, <2>2
  <1>14. CASE ClearActiveFails
    BY <1>14, <1>b DEF ClearActiveFails, Fails
  <1>15. CASE StartCore
    BY <1>15, <1>b, <1>c DEF StartCore, Published, NoCore, Goes, Becomes, Kinds
  <1>16. CASE AdvanceGeneration
    <2>1. /\ op'.token = op.token /\ op'.gui = op.gui
          /\ (op'.kind = "start" /\ pc' = "commit") \/ (op'.kind = "rollback" /\ pc' = "stop")
      BY <1>16 DEF AdvanceGeneration, Becomes, TypeOK, Operations
    <2>2. UNCHANGED <<active, core>> /\ pc = "advance"
      BY <1>16 DEF AdvanceGeneration
    <2> QED BY <2>1, <2>2
  <1>17. CASE CommitOwner
    <2>1. Candidate.token = op.token /\ pc = "commit" /\ core' = core /\ active' \in {active, Candidate}
      BY <1>17 DEF CommitOwner, Candidate
    <2>2. \/ active' = Candidate /\ pc' = "free" /\ op'.kind = "none"
          \/ pc' = "stop" /\ op'.kind = "rollback" /\ op'.token = op.token
      BY <1>17, <1>b, <1>c DEF CommitOwner, Becomes, Kinds
    <2>3. NoProof.token = 0
      BY DEF NoProof
    <2> QED BY <2>1, <2>2, <2>3
  <1>18. CASE LeaseAges
    BY <1>18 DEF LeaseAges
  <1>19. CASE IdleExit
    BY <1>19 DEF IdleExit
  <1>20. CASE ServerStop
    BY <1>20 DEF ServerStop, NoCore
  <1>21. CASE Restart
    BY <1>21 DEF Restart, Published, NoCore, NoOp, Wanted
  <1>22. CASE Watchdog
    BY <1>22 DEF Watchdog, Recovers, GivesUp, RecoveryStuck, NoCore
  <1> QED
    BY <1>1, <1>2, <1>3, <1>4, <1>5, <1>6, <1>7, <1>8, <1>9, <1>10, <1>11, <1>12, <1>13, <1>14, <1>15, <1>16, <1>17, <1>18, <1>19, <1>20, <1>21, <1>22 DEF Next, Work

LEMMA IdleStep ==
    ASSUME DaemonInv, ClosedIdle, [Next]_vars
    PROVE  ClosedIdle'
  <1> USE DEF ClosedIdle, disk, daemon, manager, held, gui
  <1>1. CASE UNCHANGED vars
    BY <1>1 DEF vars
  <1>2. ASSUME NEW g \in Guis, Propose(g) PROVE ClosedIdle'
    BY <1>2 DEF Propose
  <1>3. ASSUME NEW g \in Guis, RequestStop(g) PROVE ClosedIdle'
    BY <1>3 DEF RequestStop
  <1>4. ASSUME NEW g \in Guis, GiveUp(g) PROVE ClosedIdle'
    BY <1>4 DEF GiveUp
  <1>5. ASSUME NEW g \in Guis, Exit(g) PROVE ClosedIdle'
    BY <1>5 DEF Exit
  <1>6. ASSUME NEW g \in Guis, Heartbeat(g) PROVE ClosedIdle'
    BY <1>6 DEF Heartbeat
  <1>7. ASSUME NEW g \in Guis, Use(g) PROVE ClosedIdle'
    BY <1>7 DEF Use
  <1>8. ASSUME NEW r \in inbox, TakeStart(r) PROVE ClosedIdle'
    BY <1>8 DEF TakeStart
  <1>9. ASSUME NEW r \in inbox, TakeStop(r) PROVE ClosedIdle'
    BY <1>9 DEF TakeStop, Authorized
  <1>10. CASE TakeExpired
    BY <1>10 DEF TakeExpired
  <1>11. CASE StopCore
    BY <1>11 DEF StopCore
  <1>12. CASE StopFails
    BY <1>12 DEF StopFails
  <1>13. CASE ClearActive
    BY <1>13 DEF ClearActive
  <1>14. CASE ClearActiveFails
    BY <1>14 DEF ClearActiveFails
  <1>15. CASE StartCore
    BY <1>15 DEF StartCore
  <1>16. CASE AdvanceGeneration
    BY <1>16 DEF AdvanceGeneration
  <1>17. CASE CommitOwner
    BY <1>17 DEF CommitOwner
  <1>18. CASE LeaseAges
    BY <1>18 DEF LeaseAges
  <1>19. CASE IdleExit
    BY <1>19 DEF IdleExit, Idle
  <1>20. CASE ServerStop
    BY <1>20 DEF ServerStop
  <1>21. CASE Restart
    BY <1>21 DEF Restart
  <1>22. CASE Watchdog
    BY <1>22 DEF Watchdog, Recovers, GivesUp, RecoveryStuck
  <1> QED
    BY <1>1, <1>2, <1>3, <1>4, <1>5, <1>6, <1>7, <1>8, <1>9, <1>10, <1>11, <1>12, <1>13, <1>14, <1>15, <1>16, <1>17, <1>18, <1>19, <1>20, <1>21, <1>22 DEF Next, Work

-----------------------------------------------------------------------------
(* What an answer does to the GUI that hears it *)

Settled(g) ==
    /\ g \in alive
    /\ call' = [call EXCEPT ![g] = NoCall]
Acked(g, t, gen) ==
    /\ Settled(g) /\ t # 0 /\ pending[g] = t
    /\ session' = [session EXCEPT ![g] = [token |-> t, gen |-> gen]]
    /\ pending' = [pending EXCEPT ![g] = 0]
Refused(g, t) ==
    /\ Settled(g) /\ t # 0 /\ pending[g] = t
    /\ session' = session
    /\ pending' = [pending EXCEPT ![g] = 0]
Retired(g) ==
    /\ Settled(g)
    /\ session' = [session EXCEPT ![g] = NoProof]
    /\ pending' = [pending EXCEPT ![g] = 0]
Unsettled == UNCHANGED <<session, pending, call>>

LEMMA QuietEnd ==
    ASSUME Ends("unknown") PROVE Unsettled /\ op' = NoOp /\ pc' = "free"
  BY DEF Ends, Answered, client, Unsettled

\* The answer to a start.
LEMMA StartAnswer ==
    ASSUME TypeOK, Clients, NEW g \in Guis, NEW t, NEW out, NEW gen, Answered(g, Asked("start", t, 0), out, gen)
    PROVE  \/ Unsettled
           \/ out = "ok" /\ Acked(g, t, gen)
           \/ out = "refused" /\ Refused(g, t)
  <1>1. CASE UNCHANGED client
    BY <1>1 DEF client, Unsettled
  <1>2. CASE ~UNCHANGED client
    <2>1. /\ out \in {"ok", "refused"} /\ call[g] = Asked("start", t, 0)
          /\ call' = [call EXCEPT ![g] = NoCall] /\ StartSettled(g, out, gen)
      BY <1>2 DEF Answered, Asked
    <2>2. call[g].kind = "start" /\ call[g].token = t /\ call[g] # NoCall
      BY <2>1 DEF Asked, NoCall
    <2>7. call[g].kind = "start" => pending[g] # 0 /\ call[g] = Asked("start", pending[g], 0)
      BY DEF Clients
    <2>8. g \notin alive => call[g] = NoCall
      BY DEF Clients
    <2>3. g \in alive /\ t # 0 /\ pending[g] = t
      BY <2>2, <2>7, <2>8 DEF Asked
    <2>4. pending' = [pending EXCEPT ![g] = 0]
      BY <2>1 DEF StartSettled
    <2>5. CASE out = "ok"
      BY <2>1, <2>2, <2>3, <2>4, <2>5 DEF StartSettled, Acked, Settled
    <2>6. CASE out = "refused"
      <3>1. session' = [session EXCEPT ![g] = session[g]]
        BY <2>1, <2>6 DEF StartSettled
      <3>2. session' = session
        BY <3>1 DEF TypeOK
      <3> QED BY <2>1, <2>3, <2>4, <2>6, <3>2 DEF Refused, Settled
    <2> QED BY <2>1, <2>5, <2>6
  <1> QED BY <1>1, <1>2

\* The answer to a stop: only a proof that was acknowledged is retired by a refusal.
LEMMA StopAnswer ==
    ASSUME Clients, NEW g \in Guis, NEW t, NEW n, NEW out, NEW gen, Answered(g, Asked("stop", t, n), out, gen)
    PROVE  \/ Unsettled
           \/ Settled(g) /\ UNCHANGED <<session, pending>>
           \/ out = "ok" /\ Retired(g)
           \/ /\ out = "refused" /\ Retired(g)
              /\ pending[g] = 0 /\ session[g] # NoProof
              /\ session[g].token = t /\ session[g].gen = n
  <1>1. CASE UNCHANGED client
    BY <1>1 DEF client, Unsettled
  <1>2. CASE ~UNCHANGED client
    <2>1. /\ out \in {"ok", "refused"} /\ call[g] = Asked("stop", t, n)
          /\ call' = [call EXCEPT ![g] = NoCall] /\ StopSettled(g, out)
      BY <1>2 DEF Answered, Asked
    <2>2. call[g].kind = "stop" /\ call[g].token = t /\ call[g].gen = n /\ call[g] # NoCall
      BY <2>1 DEF Asked, NoCall
    <2>3. g \in alive
      BY <2>2 DEF Clients
    <2>4. \/ call[g].token = pending[g]
          \/ /\ pending[g] = 0 /\ session[g] # NoProof
             /\ session[g].token = t /\ session[g].gen = n
      <3>1. \/ pending[g] # 0 /\ call[g].token = pending[g]
            \/ pending[g] = 0 /\ session[g] # NoProof
               /\ call[g] = Asked("stop", session[g].token, session[g].gen)
        BY <2>2 DEF Clients
      <3> QED BY <2>2, <3>1 DEF Asked
    <2>5. CASE UNCHANGED <<session, pending>>
      BY <2>1, <2>3, <2>5 DEF Settled
    <2>6. CASE ~UNCHANGED <<session, pending>>
      BY <2>1, <2>3, <2>4, <2>6 DEF StopSettled, Retired, Settled
    <2> QED BY <2>5, <2>6
  <1> QED BY <1>1, <1>2

LEMMA CommitEffect ==
    ASSUME DaemonInv, Clients, CommitOwner
    PROVE  /\ pc = "commit" /\ op.kind = "start" /\ op.gui \in Guis
           /\ active = NoProof /\ active' \in {NoProof, Candidate}
           /\ UNCHANGED <<generation, core, inbox, by, alive>>
           /\ \/ /\ op'.kind = "rollback" /\ op'.token = op.token /\ op'.gui = op.gui
                 /\ pc' = "stop" /\ Unsettled
              \/ /\ op' = NoOp /\ pc' = "free" /\ active' = Candidate
                 /\ Unsettled \/ Acked(op.gui, op.token, op.gen)
  <1>1. pc = "commit" /\ op.kind = "start" /\ op.gui \in Guis /\ active = NoProof
    BY DEF CommitOwner, DaemonInv, OperationShape, Between
  <1>2. active' \in {NoProof, Candidate} /\ UNCHANGED <<generation, core, inbox, by, alive>>
    BY <1>1 DEF CommitOwner, manager
  <1>3. CASE Becomes("rollback")
    BY <1>1, <1>2, <1>3 DEF Becomes, DaemonInv, TypeOK, Operations, client, Unsettled
  <1>4. CASE active' = Candidate /\ \E out \in {"ok", "unknown"} : Ends(out)
    <2>1. PICK out \in {"ok", "unknown"} : Ends(out)
      BY <1>4
    <2>2. Answered(op.gui, Asked("start", op.token, 0), out, op.gen) /\ op' = NoOp /\ pc' = "free"
      BY <1>1, <2>1 DEF Ends
    <2>3. Unsettled \/ Acked(op.gui, op.token, op.gen)
      BY <1>1, <2>1, <2>2, StartAnswer DEF DaemonInv
    <2> QED BY <1>1, <1>2, <1>4, <2>2, <2>3
  <1> QED BY <1>3, <1>4 DEF CommitOwner

LEMMA ClearEffect ==
    ASSUME DaemonInv, Clients, ClearActive
    PROVE  /\ pc = "clear" /\ active' = NoProof /\ core = 0
           /\ UNCHANGED <<generation, core, inbox, by, alive>>
           /\ \/ op' = op /\ pc' = "start" /\ op.kind = "start" /\ Unsettled
              \/ /\ op' = NoOp /\ pc' = "free"
                 /\ Unsettled \/ (op.gui \in Guis /\ Retired(op.gui))
                    \/ (op.gui \in Guis /\ Settled(op.gui) /\ UNCHANGED <<session, pending>>)
  <1>1. /\ pc = "clear" /\ active' = NoProof /\ core = 0
        /\ UNCHANGED <<generation, core, inbox, by, alive>>
    BY DEF ClearActive, manager, DaemonInv, CoreUnderWay
  <1>2. CASE op.kind = "start"
    BY <1>1, <1>2 DEF ClearActive, Goes, client, Unsettled
  <1>3. CASE op.kind = "rollback"
    BY <1>1, <1>3, QuietEnd DEF ClearActive
  <1>4. CASE op.kind = "stop"
    <2>1. Ends("ok") /\ op.gui \in Guis
      BY <1>4 DEF ClearActive, DaemonInv, OperationShape
    <2>2. Answered(op.gui, Asked("stop", op.token, op.gen), "ok", op.gen) /\ op' = NoOp /\ pc' = "free"
      BY <1>4, <2>1 DEF Ends
    <2> QED BY <1>1, <2>1, <2>2, StopAnswer
  <1>5. CASE op.kind = "retire"
    <2>1. Ends("ok")
      BY <1>5 DEF ClearActive
    <2> QED BY <1>1, <1>5, <2>1 DEF Ends, client, Unsettled
  <1>6. op.kind \in {"start", "rollback", "stop", "retire"}
    BY <1>1 DEF DaemonInv, TypeOK, Operations, Kinds, OperationShape
  <1> QED BY <1>2, <1>3, <1>4, <1>5, <1>6

\* Only a stop retires the keys of the GUI that asked for it.
LEMMA RetiredByStop ==
    ASSUME DaemonInv, Clients, ClearActive, op' = NoOp, ~Unsettled
    PROVE  /\ op.kind = "stop" /\ active = [token |-> op.token, gen |-> op.gen]
           /\ op.gui \in Guis /\ pending[op.gui] \in {0, op.token}
  <1>1. op.kind # "start"
    BY DEF ClearActive, Goes, client, Unsettled
  <1>2. op.kind # "rollback"
    BY QuietEnd DEF ClearActive
  <1>3. op.kind # "retire"
    BY DEF ClearActive, Ends, client, Unsettled
  <1>4. op.kind \in {"start", "rollback", "stop", "retire"}
    BY DEF ClearActive, DaemonInv, TypeOK, Operations, Kinds, OperationShape
  <1>5. op.kind = "stop" /\ active = [token |-> op.token, gen |-> op.gen] /\ op.gui \in Guis
    BY <1>1, <1>2, <1>3, <1>4 DEF DaemonInv, StopOfOwner, OperationShape
  <1>6. Answered(op.gui, Asked("stop", op.token, op.gen), "ok", op.gen)
    BY <1>5 DEF ClearActive, Ends
  <1>7. call[op.gui] = Asked("stop", op.token, op.gen)
    BY <1>6 DEF Answered, client, Unsettled
  <1>8. call[op.gui].kind = "stop" /\ call[op.gui].token = op.token
    BY <1>7 DEF Asked
  <1>9. call[op.gui].token = pending[op.gui] \/ pending[op.gui] = 0
    BY <1>5, <1>8 DEF Clients
  <1> QED BY <1>5, <1>8, <1>9

LEMMA TakeStartEffect ==
    ASSUME DaemonInv, Clients, NEW r \in inbox, r.gen = 0, TakeStart(r)
    PROVE  /\ pc = "free" /\ r.kind = "start" /\ inbox' = inbox \ {r} /\ r.gui \in Guis
           /\ UNCHANGED <<active, generation, core, by, alive>>
           /\ \/ /\ op'.kind = "start" /\ op'.token = r.token /\ op'.gui = r.gui
                 /\ pc' = "stop" /\ Unsettled
              \/ UNCHANGED <<op, pc>> /\ (Unsettled \/ Refused(r.gui, r.token))
  <1>1. /\ pc = "free" /\ r.kind = "start" /\ inbox' = inbox \ {r} /\ r.gui \in Guis
        /\ UNCHANGED <<active, generation, core, by, alive>>
    BY DEF TakeStart, Free, disk, manager, DaemonInv, TypeOK, Requests
  <1>2. CASE UNCHANGED <<op, pc>>
    <2>1. Answered(r.gui, Asked("start", r.token, 0), IF closed THEN "unknown" ELSE "refused", 0)
      BY <1>1, <1>2 DEF TakeStart, held
    <2> QED BY <1>1, <1>2, <2>1, StartAnswer DEF DaemonInv
  <1>3. CASE ~UNCHANGED <<op, pc>>
    BY <1>1, <1>3 DEF TakeStart, held, client, Unsettled
  <1> QED BY <1>2, <1>3

LEMMA TakeStopEffect ==
    ASSUME DaemonInv, Clients, NEW r \in inbox, TakeStop(r)
    PROVE  /\ pc = "free" /\ r.kind = "stop" /\ inbox' = inbox \ {r} /\ r.gui \in Guis
           /\ UNCHANGED <<active, generation, core, by, alive>>
           /\ \/ op'.kind = "stop" /\ Unsettled
              \/ /\ UNCHANGED <<op, pc>>
                 /\ \/ Unsettled
                    \/ Settled(r.gui) /\ UNCHANGED <<session, pending>>
                    \/ /\ Retired(r.gui) /\ pending[r.gui] = 0 /\ session[r.gui] # NoProof
                       /\ session[r.gui].token = r.token /\ session[r.gui].gen = r.gen
                       /\ ~Authorized(r.gui, [token |-> r.token, gen |-> r.gen])
  <1>1. /\ pc = "free" /\ r.kind = "stop" /\ inbox' = inbox \ {r} /\ r.gui \in Guis
        /\ UNCHANGED <<active, generation, core, by, alive>>
    BY DEF TakeStop, Free, disk, manager, DaemonInv, TypeOK, Requests
  <1>2. CASE ~closed /\ Authorized(r.gui, [token |-> r.token, gen |-> r.gen])
    BY <1>1, <1>2 DEF TakeStop, client, Unsettled
  <1>3. CASE closed
    <2>1. UNCHANGED held /\ Answered(r.gui, Asked("stop", r.token, r.gen), "unknown", r.gen)
      BY <1>3 DEF TakeStop
    <2>2. Unsettled
      BY <2>1 DEF Answered, client, Unsettled
    <2> QED BY <1>1, <2>1, <2>2 DEF held
  <1>4. CASE ~closed /\ ~Authorized(r.gui, [token |-> r.token, gen |-> r.gen])
    <2>1. UNCHANGED held /\ Answered(r.gui, Asked("stop", r.token, r.gen), "refused", r.gen)
      BY <1>4 DEF TakeStop
    <2> QED BY <1>1, <1>4, <2>1, StopAnswer DEF held
  <1> QED BY <1>2, <1>3, <1>4

-----------------------------------------------------------------------------
(* Tokens, proofs and generations *)

LEMMA ProposedStep ==
    ASSUME DaemonInv, SessionInv, [Next]_vars
    PROVE  Proposed'
  <1> USE DEF SessionInv, Proposed, disk, daemon, manager, held, gui
  <1>a. NoProof.token = 0
    BY DEF NoProof
  <1>b. by \in [Tokens -> Guis \cup {NoOne}] /\ Guis \cap {NoOne} = {}
    BY OwnerAssumption DEF DaemonInv, TypeOK
  <1>1. CASE UNCHANGED vars
    BY <1>1 DEF vars
  <1>2. ASSUME NEW g \in Guis, Propose(g) PROVE Proposed'
    <2>1. PICK t \in Untried : by' = [by EXCEPT ![t] = g] /\ UNCHANGED <<active, core>>
      BY <1>2 DEF Propose
    <2>2. t \in Tokens /\ by[t] = NoOne
      BY <2>1 DEF Untried
    <2> QED BY <2>1, <2>2, <1>b
  <1>3. ASSUME NEW g \in Guis, RequestStop(g) PROVE Proposed'
    BY <1>3 DEF RequestStop
  <1>4. ASSUME NEW g \in Guis, GiveUp(g) PROVE Proposed'
    BY <1>4 DEF GiveUp
  <1>5. ASSUME NEW g \in Guis, Exit(g) PROVE Proposed'
    BY <1>5 DEF Exit
  <1>6. ASSUME NEW g \in Guis, Heartbeat(g) PROVE Proposed'
    BY <1>6 DEF Heartbeat
  <1>7. ASSUME NEW g \in Guis, Use(g) PROVE Proposed'
    BY <1>7 DEF Use
  <1>8. ASSUME NEW r \in inbox, TakeStart(r) PROVE Proposed'
    BY <1>8 DEF TakeStart
  <1>9. ASSUME NEW r \in inbox, TakeStop(r) PROVE Proposed'
    BY <1>9 DEF TakeStop
  <1>10. CASE TakeExpired
    BY <1>10 DEF TakeExpired
  <1>11. CASE StopCore
    BY <1>11 DEF StopCore, NoCore
  <1>12. CASE StopFails
    BY <1>12 DEF StopFails
  <1>13. CASE ClearActive
    BY <1>13 DEF ClearActive
  <1>14. CASE ClearActiveFails
    BY <1>14 DEF ClearActiveFails
  <1>15. CASE StartCore
    <2>1. op.kind = "start" /\ op.gui \in Guis /\ by[op.token] = op.gui
      BY <1>15 DEF StartCore, StartUnderWay, Awaits, DaemonInv, OperationShape
    <2>2. core' \in {0, core, op.token} /\ UNCHANGED <<active, by>>
      BY <1>15 DEF StartCore, Published, NoCore
    <2> QED BY <2>1, <2>2
  <1>16. CASE AdvanceGeneration
    BY <1>16 DEF AdvanceGeneration
  <1>17. CASE CommitOwner
    <2>1. op.kind = "start" /\ op.gui \in Guis /\ op.token \in Tokens /\ by[op.token] = op.gui
      BY <1>17, CommitEffect DEF StartUnderWay, Awaits
    <2>2. UNCHANGED <<core, by>> /\ active' \in {NoProof, Candidate} /\ Candidate.token = op.token
      BY <1>17, CommitEffect DEF Candidate
    <2> QED BY <2>1, <2>2
  <1>18. CASE LeaseAges
    BY <1>18 DEF LeaseAges
  <1>19. CASE IdleExit
    BY <1>19 DEF IdleExit
  <1>20. CASE ServerStop
    BY <1>20 DEF ServerStop, NoCore
  <1>21. CASE Restart
    BY <1>21, <1>a DEF Restart, Wanted, Published, NoCore
  <1>22. CASE Watchdog
    BY <1>22 DEF Watchdog, Recovers, GivesUp, RecoveryStuck, NoCore
  <1> QED
    BY <1>1, <1>2, <1>3, <1>4, <1>5, <1>6, <1>7, <1>8, <1>9, <1>10, <1>11, <1>12, <1>13, <1>14, <1>15, <1>16, <1>17, <1>18, <1>19, <1>20, <1>21, <1>22 DEF Next, Work

\* A GUI's keys after an answer are its own, and about what it holds.
LEMMA ClientsAnswered ==
    ASSUME DaemonInv, Clients, UNCHANGED <<by, alive>>, NEW h \in Guis,
           \/ Unsettled
           \/ Settled(h) /\ UNCHANGED <<session, pending>>
           \/ Retired(h)
           \/ \E t \in Tokens : Refused(h, t)
           \/ \E t \in Tokens, n \in Generations : by[t] = h /\ Acked(h, t, n)
    PROVE  Clients'
  <1> SUFFICES ASSUME NEW g \in Guis
      PROVE  /\ g \notin alive => session'[g] = NoProof /\ pending'[g] = 0 /\ call'[g] = NoCall
             /\ session'[g] # NoProof => session'[g].token \in Tokens /\ by[session'[g].token] = g
             /\ pending'[g] # 0 => by[pending'[g]] = g
             /\ call'[g].kind = "start" => pending'[g] # 0 /\ call'[g] = Asked("start", pending'[g], 0)
             /\ call'[g].kind = "stop" =>
                 \/ pending'[g] # 0 /\ call'[g].token = pending'[g]
                 \/ pending'[g] = 0 /\ session'[g] # NoProof
                    /\ call'[g] = Asked("stop", session'[g].token, session'[g].gen)
    BY DEF Clients
  <1> USE DEF Clients, DaemonInv, TypeOK
  <1>1. NoCall.kind = "none"
    BY DEF NoCall
  <1>2. CASE Unsettled
    BY <1>2 DEF Unsettled
  <1>3. CASE ~Unsettled /\ g # h
    <2>1. session'[g] = session[g] /\ pending'[g] = pending[g] /\ call'[g] = call[g]
      BY <1>3 DEF Settled, Retired, Refused, Acked
    <2> QED BY <2>1
  <1>4. CASE ~Unsettled /\ g = h
    <2>1. g \in alive /\ call'[g] = NoCall
      BY <1>4 DEF Settled, Retired, Refused, Acked
    <2>2. CASE Settled(g) /\ UNCHANGED <<session, pending>>
      BY <2>1, <2>2, <1>1
    <2>3. CASE Retired(g)
      <3>1. session'[g] = NoProof /\ pending'[g] = 0
        BY <2>3 DEF Retired
      <3> QED BY <2>1, <3>1, <1>1
    <2>4. CASE \E t \in Tokens : Refused(g, t)
      <3>1. session'[g] = session[g] /\ pending'[g] = 0
        BY <2>4 DEF Refused
      <3> QED BY <2>1, <3>1, <1>1
    <2>5. CASE \E t \in Tokens, n \in Generations : by[t] = g /\ Acked(g, t, n)
      <3>1. PICK t \in Tokens, n \in Generations : by[t] = g /\ Acked(g, t, n)
        BY <2>5
      <3>2. session'[g] = [token |-> t, gen |-> n] /\ pending'[g] = 0
        BY <3>1 DEF Acked
      <3>3. session'[g].token = t
        BY <3>2
      <3> QED BY <2>1, <3>1, <3>2, <3>3, <1>1
    <2> QED BY <1>4, <2>2, <2>3, <2>4, <2>5
  <1> QED BY <1>2, <1>3, <1>4

LEMMA ClientsStep ==
    ASSUME DaemonInv, SessionInv, [Next]_vars
    PROVE  Clients'
  <1> USE DEF SessionInv, disk, daemon, manager, held, gui
  <1>a. NoCall.kind = "none"
    BY DEF NoCall
  <1>b. /\ session \in [Guis -> Proofs] /\ pending \in [Guis -> 0 .. MaxStarts] /\ by \in [Tokens -> Guis \cup {NoOne}]
        /\ call \in [Guis -> [kind : {"none", "start", "stop"}, token : 0 .. MaxStarts, gen : Generations]]
        /\ NoOne \notin Guis
    BY OwnerAssumption DEF DaemonInv, TypeOK
  <1>c. ASSUME Unsettled, UNCHANGED <<by, alive>> PROVE Clients'
    BY <1>c DEF Clients, Unsettled
  <1>1. CASE UNCHANGED vars
    BY <1>1, <1>c DEF vars, Unsettled
  <1>2. ASSUME NEW g \in Guis, Propose(g) PROVE Clients'
    <2>1. PICK t \in Untried : /\ by' = [by EXCEPT ![t] = g] /\ pending' = [pending EXCEPT ![g] = t]
                               /\ call' = [call EXCEPT ![g] = Asked("start", t, 0)]
                               /\ UNCHANGED <<session, alive>> /\ g \in alive
      BY <1>2 DEF Propose, Ask
    <2>2. t \in Tokens /\ by[t] = NoOne /\ t # 0
      BY <2>1 DEF Untried, Tokens
    <2>3. Asked("start", t, 0).kind = "start"
      BY DEF Asked
    <2> QED BY <2>1, <2>2, <2>3, <1>b DEF Clients
  <1>3. ASSUME NEW g \in Guis, RequestStop(g) PROVE Clients'
    <2>1. g \in alive /\ UNCHANGED <<session, pending, by, alive>>
      BY <1>3 DEF RequestStop
    <2>2. \/ pending[g] # 0 /\ call' = [call EXCEPT ![g] = Asked("stop", pending[g], active.gen)]
          \/ /\ pending[g] = 0 /\ session[g] # NoProof
             /\ call' = [call EXCEPT ![g] = Asked("stop", session[g].token, session[g].gen)]
      BY <1>3 DEF RequestStop, Ask
    <2>3. \A n : Asked("stop", pending[g], n).kind = "stop" /\ Asked("stop", pending[g], n).token = pending[g]
      BY DEF Asked
    <2>4. Asked("stop", session[g].token, session[g].gen).kind = "stop"
      BY DEF Asked
    <2> QED BY <2>1, <2>2, <2>3, <2>4, <1>b DEF Clients
  <1>4. ASSUME NEW g \in Guis, GiveUp(g) PROVE Clients'
    BY <1>4, <1>a, <1>b DEF GiveUp, Clients
  <1>5. ASSUME NEW g \in Guis, Exit(g) PROVE Clients'
    BY <1>5, <1>a, <1>b DEF Exit, Clients
  <1>6. ASSUME NEW g \in Guis, Heartbeat(g) PROVE Clients'
    BY <1>6, <1>c DEF Heartbeat, Unsettled, client
  <1>7. ASSUME NEW g \in Guis, Use(g) PROVE Clients'
    BY <1>7, <1>c DEF Use, Unsettled, client
  <1>8. ASSUME NEW r \in inbox, TakeStart(r) PROVE Clients'
    <2>1. r.kind = "start" /\ r.gen = 0 /\ r.token \in Tokens
      BY <1>8 DEF TakeStart, StartRequests, Awaits
    <2> QED BY <1>8, <2>1, TakeStartEffect, ClientsAnswered
  <1>9. ASSUME NEW r \in inbox, TakeStop(r) PROVE Clients'
    BY <1>9, TakeStopEffect, ClientsAnswered
  <1>10. CASE TakeExpired
    BY <1>10, <1>c DEF TakeExpired, Unsettled, client
  <1>11. CASE StopCore
    BY <1>11, <1>c, QuietEnd DEF StopCore, Unsettled, client, Goes
  <1>12. CASE StopFails
    BY <1>12, <1>c, QuietEnd DEF StopFails, Fails
  <1>13. CASE ClearActive
    BY <1>13, <1>c, ClearEffect, ClientsAnswered
  <1>14. CASE ClearActiveFails
    BY <1>14, <1>c, QuietEnd DEF ClearActiveFails, Fails
  <1>15. CASE StartCore
    BY <1>15, <1>c, QuietEnd DEF StartCore, Unsettled, client, Goes, Becomes
  <1>16. CASE AdvanceGeneration
    BY <1>16, <1>c DEF AdvanceGeneration, Unsettled, client, Becomes
  <1>17. CASE CommitOwner
    <2>1. op.gui \in Guis /\ op.token \in Tokens /\ by[op.token] = op.gui
      BY <1>17, CommitEffect DEF StartUnderWay, Awaits
    <2>2. op.gen \in Generations
      BY DEF DaemonInv, TypeOK, Operations
    <2> QED BY <1>17, <2>1, <2>2, CommitEffect, ClientsAnswered
  <1>18. CASE LeaseAges
    BY <1>18, <1>c DEF LeaseAges, Unsettled, client
  <1>19. CASE IdleExit
    BY <1>19, <1>c DEF IdleExit, Unsettled, client
  <1>20. CASE ServerStop
    BY <1>20, <1>c DEF ServerStop, Unsettled, client
  <1>21. CASE Restart
    BY <1>21, <1>c DEF Restart, Unsettled, client
  <1>22. CASE Watchdog
    BY <1>22, <1>c DEF Watchdog, Recovers, GivesUp, RecoveryStuck, Unsettled, client
  <1> QED
    BY <1>1, <1>2, <1>3, <1>4, <1>5, <1>6, <1>7, <1>8, <1>9, <1>10, <1>11, <1>12, <1>13, <1>14, <1>15, <1>16, <1>17, <1>18, <1>19, <1>20, <1>21, <1>22 DEF Next, Work

\* Sessions other than the new owner's only end, and no step but the commit makes one.
LEMMA SessionsChange ==
    ASSUME DaemonInv, SessionInv, Next
    PROVE  \/ \A g \in Guis : session'[g] \in {session[g], NoProof}
           \/ /\ CommitOwner /\ active' = Candidate /\ op.gui \in Guis
              /\ session' = [session EXCEPT ![op.gui] = Candidate]
  <1> USE DEF SessionInv, disk, daemon, manager, held, gui
  <1> DEFINE Goal == \/ \A g \in Guis : session'[g] \in {session[g], NoProof}
                     \/ /\ CommitOwner /\ active' = Candidate /\ op.gui \in Guis
                        /\ session' = [session EXCEPT ![op.gui] = Candidate]
  <1>b. session \in [Guis -> Proofs]
    BY DEF DaemonInv, TypeOK
  <1>c. ASSUME Unsettled PROVE Goal
    BY <1>c DEF Unsettled
  <1>d. ASSUME NEW h, UNCHANGED session \/ Refused(h, 0) \/ Retired(h) PROVE Goal
    BY <1>b, <1>d DEF Refused, Retired
  <1>2. ASSUME NEW g \in Guis, Propose(g) PROVE Goal
    BY <1>2 DEF Propose
  <1>3. ASSUME NEW g \in Guis, RequestStop(g) PROVE Goal
    BY <1>3 DEF RequestStop
  <1>4. ASSUME NEW g \in Guis, GiveUp(g) PROVE Goal
    BY <1>4 DEF GiveUp
  <1>5. ASSUME NEW g \in Guis, Exit(g) PROVE Goal
    BY <1>5, <1>b DEF Exit
  <1>6. ASSUME NEW g \in Guis, Heartbeat(g) PROVE Goal
    BY <1>6 DEF Heartbeat, client
  <1>7. ASSUME NEW g \in Guis, Use(g) PROVE Goal
    BY <1>7 DEF Use, client
  <1>8. ASSUME NEW r \in inbox, TakeStart(r) PROVE Goal
    <2>1. r.kind = "start" /\ r.gen = 0
      BY <1>8 DEF TakeStart, StartRequests
    <2> QED BY <1>8, <2>1, TakeStartEffect, <1>d DEF Refused, Unsettled
  <1>9. ASSUME NEW r \in inbox, TakeStop(r) PROVE Goal
    BY <1>9, TakeStopEffect, <1>c, <1>d
  <1>10. CASE TakeExpired
    BY <1>10 DEF TakeExpired, client
  <1>11. CASE StopCore
    BY <1>11, <1>c, QuietEnd DEF StopCore, Unsettled, client, Goes
  <1>12. CASE StopFails
    BY <1>12, <1>c, QuietEnd DEF StopFails, Fails
  <1>13. CASE ClearActive
    BY <1>13, <1>c, <1>d, ClearEffect
  <1>14. CASE ClearActiveFails
    BY <1>14, <1>c, QuietEnd DEF ClearActiveFails, Fails
  <1>15. CASE StartCore
    BY <1>15, <1>c, QuietEnd DEF StartCore, Unsettled, client, Goes, Becomes
  <1>16. CASE AdvanceGeneration
    BY <1>16, <1>c DEF AdvanceGeneration, Unsettled, client, Becomes
  <1>17. CASE CommitOwner
    BY <1>17, <1>c, CommitEffect DEF Acked, Candidate
  <1>18. CASE LeaseAges
    BY <1>18 DEF LeaseAges, client
  <1>19. CASE IdleExit
    BY <1>19 DEF IdleExit, client
  <1>20. CASE ServerStop
    BY <1>20 DEF ServerStop, client
  <1>21. CASE Restart
    BY <1>21 DEF Restart, client
  <1>22. CASE Watchdog
    BY <1>22 DEF Watchdog, Recovers, GivesUp, RecoveryStuck, client
  <1> QED
    BY <1>2, <1>3, <1>4, <1>5, <1>6, <1>7, <1>8, <1>9, <1>10, <1>11, <1>12, <1>13, <1>14, <1>15, <1>16, <1>17, <1>18, <1>19, <1>20, <1>21, <1>22 DEF Next, Work

LEMMA AcknowledgedStep ==
    ASSUME DaemonInv, SessionInv, [Next]_vars
    PROVE  Acknowledged'
  <1> USE DEF SessionInv, disk, daemon, manager, held, gui
  <1>a. Clients'
    BY ClientsStep
  <1>b. \A g \in Guis : session'[g] # NoProof => session'[g].token # 0
    BY <1>a DEF Clients, Tokens
  <1>c. session \in [Guis -> Proofs] /\ NoProof.token = 0
    BY DEF DaemonInv, TypeOK, NoProof
  <1>d. ASSUME CommitOwner PROVE Acknowledged'
    <2>1. /\ op.gui \in Guis /\ active = NoProof /\ core' = core /\ core \in {0, op.token}
          /\ active' \in {NoProof, Candidate} /\ Candidate.token = op.token
          /\ \A g \in Guis : session[g].token # op.token
      BY <1>d, CommitEffect DEF StartUnderWay, Awaits, DaemonInv, CoreUnderWay, Candidate
    <2>2. \/ \A g \in Guis : session'[g] = session[g]
          \/ active' = Candidate /\ session' = [session EXCEPT ![op.gui] = Candidate]
      BY <1>d, CommitEffect DEF Unsettled, Acked, Candidate
    <2> QED BY <2>1, <2>2, <1>b, <1>c DEF Acknowledged
  <1>e. CASE UNCHANGED vars
    BY <1>e DEF vars, Acknowledged
  <1>f. SUFFICES ASSUME Next, ~CommitOwner PROVE Acknowledged'
    BY <1>d, <1>e
  <1>g. \A g \in Guis : session'[g] \in {session[g], NoProof}
    BY <1>f, SessionsChange
  <1>h. ASSUME UNCHANGED <<active, core>> PROVE Acknowledged'
    BY <1>g, <1>h DEF Acknowledged
  <1>2. ASSUME NEW g \in Guis, Propose(g) PROVE Acknowledged'
    BY <1>2, <1>h DEF Propose
  <1>3. ASSUME NEW g \in Guis, RequestStop(g) PROVE Acknowledged'
    BY <1>3, <1>h DEF RequestStop
  <1>4. ASSUME NEW g \in Guis, GiveUp(g) PROVE Acknowledged'
    BY <1>4, <1>h DEF GiveUp
  <1>5. ASSUME NEW g \in Guis, Exit(g) PROVE Acknowledged'
    BY <1>5, <1>h DEF Exit
  <1>6. ASSUME NEW g \in Guis, Heartbeat(g) PROVE Acknowledged'
    BY <1>6, <1>h DEF Heartbeat
  <1>7. ASSUME NEW g \in Guis, Use(g) PROVE Acknowledged'
    BY <1>7, <1>h DEF Use
  <1>8. ASSUME NEW r \in inbox, TakeStart(r) PROVE Acknowledged'
    BY <1>8, <1>h DEF TakeStart
  <1>9. ASSUME NEW r \in inbox, TakeStop(r) PROVE Acknowledged'
    BY <1>9, <1>h DEF TakeStop
  <1>10. CASE TakeExpired
    BY <1>10, <1>h DEF TakeExpired
  <1>11. CASE StopCore
    BY <1>11, <1>b, <1>g DEF StopCore, NoCore, Acknowledged
  <1>12. CASE StopFails
    BY <1>12, <1>h DEF StopFails
  <1>13. CASE ClearActive
    <2>1. active' = NoProof /\ core' = 0
      BY <1>13, ClearEffect
    <2> QED BY <2>1, <1>b, <1>c, <1>g DEF Acknowledged
  <1>14. CASE ClearActiveFails
    BY <1>14, <1>h DEF ClearActiveFails
  <1>15. CASE StartCore
    <2>1. core' \in {0, core, op.token} /\ active' = active
      BY <1>15 DEF StartCore, Published, NoCore
    <2>2. \A g \in Guis : session[g].token # op.token
      BY <1>15 DEF StartCore, DaemonInv, OperationShape, StartUnderWay, Awaits
    <2> QED BY <2>1, <2>2, <1>b, <1>g DEF Acknowledged
  <1>16. CASE AdvanceGeneration
    BY <1>16, <1>h DEF AdvanceGeneration
  <1>18. CASE LeaseAges
    BY <1>18, <1>h DEF LeaseAges
  <1>19. CASE IdleExit
    BY <1>19, <1>h DEF IdleExit
  <1>20. CASE ServerStop
    BY <1>20, <1>b, <1>g DEF ServerStop, NoCore, Acknowledged
  <1>21. CASE Restart
    <2>1. core' \in {0, active.token} /\ active' = active
      BY <1>21 DEF Restart, Published, NoCore
    <2> QED BY <2>1, <1>b, <1>g DEF Acknowledged
  <1>22. CASE Watchdog
    <2>1. core' \in {0, core} /\ active' = active
      BY <1>22 DEF Watchdog, Recovers, GivesUp, RecoveryStuck, NoCore
    <2> QED BY <2>1, <1>b, <1>g DEF Acknowledged
  <1> QED
    BY <1>2, <1>3, <1>4, <1>5, <1>6, <1>7, <1>8, <1>9, <1>10, <1>11, <1>12, <1>13, <1>14, <1>15, <1>16, <1>18, <1>19, <1>20, <1>21, <1>22, <1>f DEF Next, Work

LEMMA GenerationStep ==
    ASSUME DaemonInv, SessionInv, [Next]_vars
    PROVE  GenerationsUnique' /\ NewGeneration'
  <1> USE DEF SessionInv, disk, daemon, manager, held, gui
  <1> DEFINE Goal == GenerationsUnique' /\ NewGeneration'
  <1>a. generation \in Nat /\ Granted \subseteq Proofs /\ NoProof \in Proofs /\ NoProof.gen = 0
    <2>1. active \in Proofs /\ \A g \in Guis : session[g] \in Proofs
      BY DEF DaemonInv, TypeOK
    <2>2. Granted \subseteq Proofs
      BY <2>1 DEF Granted
    <2>3. NoProof \in Proofs /\ NoProof.gen = 0
      BY OwnerAssumption DEF Proofs, NoProof, Generations
    <2> QED BY <2>2, <2>3 DEF DaemonInv, TypeOK, Generations
  <1>k. \A q \in Proofs : q.gen \in Nat
    BY DEF Proofs, Generations
  <1>b. \A q \in Granted : q.gen <= generation
    BY <1>a DEF GenerationsUnique
  <1>c. ASSUME CommitOwner PROVE Goal
    <2>1. /\ op.gen = generation /\ generation > 0 /\ \A q \in Granted : q.gen < generation
          /\ generation' = generation /\ pc' # "commit"
          /\ Candidate.gen = generation
      BY <1>c, CommitEffect DEF NewGeneration, Candidate
    <2>2. Granted' \subseteq Granted \cup {NoProof, Candidate}
      <3>1. \/ \A g \in Guis : session'[g] = session[g]
            \/ session' = [session EXCEPT ![op.gui] = Candidate]
        BY <1>c, CommitEffect DEF Unsettled, Acked, Candidate
      <3>2. \A g \in Guis : session'[g] \in {session[g], Candidate}
        BY <3>1 DEF DaemonInv, TypeOK
      <3>3. active' \in {NoProof, Candidate}
        BY <1>c, CommitEffect
      <3> QED BY <3>2, <3>3 DEF Granted
    <2>3. GenerationsUnique'
      BY <2>1, <2>2, <1>a, <1>k DEF GenerationsUnique
    <2> QED BY <2>1, <2>3 DEF NewGeneration
  <1>d. CASE UNCHANGED vars
    BY <1>d DEF vars, GenerationsUnique, NewGeneration, Granted
  <1>f. SUFFICES ASSUME Next, ~CommitOwner PROVE Goal
    BY <1>c, <1>d
  <1>g. \A g \in Guis : session'[g] \in {session[g], NoProof}
    BY <1>f, SessionsChange
  <1>h. ASSUME active' \in {active, NoProof} PROVE Granted' \subseteq Granted \cup {NoProof}
    BY <1>g, <1>h DEF Granted
  <1>i. ASSUME active' \in {active, NoProof}, generation' \in Nat, generation' >= generation PROVE GenerationsUnique'
    <2>1. Granted' \subseteq Granted \cup {NoProof}
      BY <1>h, <1>i
    <2> QED BY <2>1, <1>a, <1>b, <1>i, <1>k DEF GenerationsUnique
  <1>j. ASSUME active' \in {active, NoProof}, generation' = generation, pc' # "commit" PROVE Goal
    <2>1. GenerationsUnique'
      BY <1>a, <1>i, <1>j
    <2> QED BY <2>1, <1>j DEF NewGeneration
  <1>l. ASSUME UNCHANGED <<active, generation, op, pc>> PROVE Goal
    <2>1. GenerationsUnique' /\ Granted' \subseteq Granted \cup {NoProof}
      BY <1>a, <1>h, <1>i, <1>l
    <2> QED BY <2>1, <1>a, <1>l DEF NewGeneration
  <1>2. ASSUME NEW g \in Guis, Propose(g) PROVE Goal
    BY <1>2, <1>l DEF Propose
  <1>3. ASSUME NEW g \in Guis, RequestStop(g) PROVE Goal
    BY <1>3, <1>l DEF RequestStop
  <1>4. ASSUME NEW g \in Guis, GiveUp(g) PROVE Goal
    BY <1>4, <1>l DEF GiveUp
  <1>5. ASSUME NEW g \in Guis, Exit(g) PROVE Goal
    BY <1>5, <1>l DEF Exit
  <1>6. ASSUME NEW g \in Guis, Heartbeat(g) PROVE Goal
    BY <1>6, <1>l DEF Heartbeat
  <1>7. ASSUME NEW g \in Guis, Use(g) PROVE Goal
    BY <1>7, <1>l DEF Use
  <1>8. ASSUME NEW r \in inbox, TakeStart(r) PROVE Goal
    BY <1>8, <1>j, <1>l DEF TakeStart
  <1>9. ASSUME NEW r \in inbox, TakeStop(r) PROVE Goal
    BY <1>9, <1>j, <1>l DEF TakeStop
  <1>10. CASE TakeExpired
    BY <1>10, <1>j DEF TakeExpired
  <1>11. CASE StopCore
    BY <1>11, <1>j, QuietEnd DEF StopCore, Goes
  <1>12. CASE StopFails
    BY <1>12, <1>j, QuietEnd DEF StopFails, Fails
  <1>13. CASE ClearActive
    <2>1. active' = NoProof /\ generation' = generation /\ pc' \in {"start", "free"}
      BY <1>13, ClearEffect
    <2> QED BY <2>1, <1>j
  <1>14. CASE ClearActiveFails
    BY <1>14, <1>j, QuietEnd DEF ClearActiveFails, Fails
  <1>15. CASE StartCore
    BY <1>15, <1>j, QuietEnd DEF StartCore, Goes, Becomes
  <1>16. CASE AdvanceGeneration
    <2>1. active' = active /\ generation' \in Nat /\ generation' >= generation
      BY <1>16, <1>a DEF AdvanceGeneration
    <2>2. GenerationsUnique' /\ Granted' \subseteq Granted \cup {NoProof}
      BY <2>1, <1>h, <1>i
    <2>3. pc' = "commit" => op'.gen = generation' /\ generation' = generation + 1
      BY <1>16 DEF AdvanceGeneration, Becomes, DaemonInv, TypeOK, Operations
    <2>4. pc' = "commit" => \A q \in Granted' : q.gen < generation'
      BY <2>2, <2>3, <1>a, <1>b, <1>k
    <2> QED BY <2>2, <2>3, <2>4, <1>a DEF NewGeneration
  <1>18. CASE LeaseAges
    BY <1>18, <1>l DEF LeaseAges
  <1>19. CASE IdleExit
    BY <1>19, <1>l DEF IdleExit
  <1>20. CASE ServerStop
    BY <1>20, <1>l DEF ServerStop
  <1>21. CASE Restart
    BY <1>21, <1>j DEF Restart
  <1>22. CASE Watchdog
    BY <1>22, <1>l DEF Watchdog, Recovers, GivesUp, RecoveryStuck
  <1> QED
    BY <1>2, <1>3, <1>4, <1>5, <1>6, <1>7, <1>8, <1>9, <1>10, <1>11, <1>12, <1>13, <1>14, <1>15, <1>16, <1>18, <1>19, <1>20, <1>21, <1>22, <1>f DEF Next, Work

LEMMA AwaitsStep ==
    ASSUME DaemonInv, SessionInv, [Next]_vars
    PROVE  StartRequests' /\ StartUnderWay'
  <1> USE DEF SessionInv, disk, daemon, manager, held, gui
  <1> DEFINE Goal == StartRequests' /\ StartUnderWay'
             Busy == op.kind \in {"start", "rollback", "abandon"}
  <1>a. /\ session \in [Guis -> Proofs] /\ pending \in [Guis -> 0 .. MaxStarts] /\ by \in [Tokens -> Guis \cup {NoOne}]
        /\ NoOne \notin Guis /\ NoProof.token = 0 /\ 0 \notin Tokens
        /\ \A r \in inbox : r.gui \in Guis
        /\ NoOp.kind = "none"
    BY OwnerAssumption DEF DaemonInv, TypeOK, NoProof, Tokens, Requests, NoOp
  <1> DEFINE Keeps == \A t, g : Awaits(t, g) => Awaits(t, g)'
  <1>b. CASE UNCHANGED vars
    BY <1>b DEF vars, StartRequests, StartUnderWay, Awaits
  <1>f. SUFFICES ASSUME Next PROVE Goal
    BY <1>b
  <1>g. ASSUME ~CommitOwner PROVE \A g \in Guis : session'[g] \in {session[g], NoProof}
    BY <1>f, <1>g, SessionsChange
  <1>h. ASSUME UNCHANGED <<session, pending, by, alive>> PROVE Keeps
    BY <1>h DEF Awaits
  <1>i. ASSUME Unsettled, UNCHANGED <<by, alive, active, core, op>>, inbox' \subseteq inbox PROVE Goal
    BY <1>h, <1>i DEF StartRequests, StartUnderWay, Unsettled
  <1>j. ASSUME Keeps, UNCHANGED <<active, core, op>>, inbox' \subseteq inbox PROVE Goal
    BY <1>j DEF StartRequests, StartUnderWay
  <1>k. ASSUME Unsettled, UNCHANGED <<by, alive, active>>, core' \in {0, core}, inbox' \subseteq inbox,
               op'.kind \notin {"start", "rollback", "abandon"} PROVE Goal
    <2>1. \A r \in inbox : r.kind = "start" => 0 # r.token
      BY <1>a DEF StartRequests, Awaits
    <2> QED BY <2>1, <1>h, <1>k DEF StartRequests, StartUnderWay, Unsettled
  <1>2. ASSUME NEW g \in Guis, Propose(g) PROVE Goal
    <2>1. PICK t \in Untried : /\ by' = [by EXCEPT ![t] = g] /\ pending' = [pending EXCEPT ![g] = t]
                               /\ inbox' = inbox \cup {[gui |-> g, kind |-> "start", token |-> t, gen |-> 0]}
                               /\ UNCHANGED <<session, alive, active, core, op>> /\ g \in alive /\ pending[g] = 0
      BY <1>2 DEF Propose, Ask
    <2>2. t \in Tokens /\ by[t] = NoOne
      BY <2>1 DEF Untried
    <2>3. \A h \in Guis : session[h].token # t
      BY <2>2, <1>a DEF Clients
    <2>4. active.token # t /\ core # t /\ (Busy => op.token # t)
      BY <2>2, <1>a DEF Proposed, StartUnderWay, Awaits, DaemonInv, OperationShape
    <2>5. Awaits(t, g)'
      BY <2>1, <2>2, <2>3, <1>a DEF Awaits
    <2>6. ASSUME NEW u, NEW h \in Guis, Awaits(u, h) PROVE Awaits(u, h)'
      <3>1. u # t /\ u \in Tokens
        BY <2>2, <2>6, <1>a DEF Awaits
      <3>2. by'[u] = h /\ \A k \in Guis : session'[k].token # u
        BY <2>1, <2>6, <3>1, <1>a DEF Awaits
      <3>3. h = g => h \notin alive
        BY <2>1, <2>6, <3>1, <1>a DEF Awaits
      <3>4. h # g => (h \in alive => pending'[h] = u)
        BY <2>1, <2>6, <1>a DEF Awaits
      <3> QED BY <2>1, <3>1, <3>2, <3>3, <3>4 DEF Awaits
    <2>7. StartUnderWay'
      BY <2>1, <2>6 DEF StartUnderWay, DaemonInv, OperationShape
    <2>8. ASSUME NEW r \in inbox', r.kind = "start"
          PROVE  /\ Awaits(r.token, r.gui)' /\ r.gen = 0
                 /\ active'.token # r.token /\ core' # r.token
                 /\ op'.kind \in {"start", "rollback", "abandon"} => op'.token # r.token
      <3>1. CASE r \in inbox
        BY <2>1, <2>6, <2>8, <3>1, <1>a DEF StartRequests
      <3>2. CASE r = [gui |-> g, kind |-> "start", token |-> t, gen |-> 0]
        BY <2>1, <2>4, <2>5, <3>2
      <3> QED BY <2>1, <3>1, <3>2
    <2> QED BY <2>7, <2>8 DEF StartRequests
  <1>3. ASSUME NEW g \in Guis, RequestStop(g) PROVE Goal
    <2>1. PICK t, n : inbox' = inbox \cup {[gui |-> g, kind |-> "stop", token |-> t, gen |-> n]}
      BY <1>3 DEF RequestStop, Ask
    <2>2. UNCHANGED <<session, pending, by, alive, active, core, op>>
      BY <1>3 DEF RequestStop
    <2>3. \A r \in inbox' : r.kind = "start" => r \in inbox
      BY <2>1
    <2> QED BY <2>2, <2>3, <1>h DEF StartRequests, StartUnderWay
  <1>4. ASSUME NEW g \in Guis, GiveUp(g) PROVE Goal
    BY <1>4, <1>h, <1>j DEF GiveUp
  <1>5. ASSUME NEW g \in Guis, Exit(g) PROVE Goal
    <2>1. /\ alive' = alive \ {g} /\ UNCHANGED <<by, active, core, op, inbox>>
          /\ session' = [session EXCEPT ![g] = NoProof] /\ pending' = [pending EXCEPT ![g] = 0]
      BY <1>5 DEF Exit
    <2>2. ASSUME NEW t, NEW h, Awaits(t, h) PROVE Awaits(t, h)'
      BY <2>1, <2>2, <1>a DEF Awaits, DaemonInv, TypeOK
    <2> QED BY <2>1, <2>2, <1>j
  <1>6. ASSUME NEW g \in Guis, Heartbeat(g) PROVE Goal
    BY <1>6, <1>i DEF Heartbeat, Unsettled
  <1>7. ASSUME NEW g \in Guis, Use(g) PROVE Goal
    BY <1>7, <1>i DEF Use, Unsettled
  <1>8. ASSUME NEW r \in inbox, TakeStart(r) PROVE Goal
    <2>1. r.kind = "start" /\ r.gen = 0 /\ Awaits(r.token, r.gui)
      BY <1>8 DEF TakeStart, StartRequests
    <2>2. /\ inbox' = inbox \ {r} /\ r.gui \in Guis /\ UNCHANGED <<active, core, by, alive>>
          /\ pc = "free"
      BY <1>8, <2>1, TakeStartEffect
    <2>3. \A q \in inbox' : q.kind = "start" => q.token # r.token
      <3> SUFFICES ASSUME NEW q \in inbox', q.kind = "start", q.token = r.token PROVE FALSE
        OBVIOUS
      <3>1. q \in inbox /\ q # r /\ Awaits(q.token, q.gui) /\ q.gen = 0
        BY <2>2 DEF StartRequests
      <3>2. q.gui = r.gui
        BY <2>1, <3>1 DEF Awaits
      <3>3. q \in Requests /\ r \in Requests
        BY <3>1 DEF DaemonInv, TypeOK
      <3> QED BY <2>1, <3>1, <3>2, <3>3 DEF Requests
    <2>4. CASE op'.kind = "start" /\ op'.token = r.token /\ op'.gui = r.gui /\ Unsettled
      <3>1. Keeps
        BY <2>2, <2>4, <1>h DEF Unsettled
      <3> QED BY <2>1, <2>2, <2>3, <2>4, <3>1 DEF StartRequests, StartUnderWay
    <2>5. CASE UNCHANGED <<op, pc>> /\ (Unsettled \/ Refused(r.gui, r.token))
      <3>1. ~Busy
        BY <2>2 DEF DaemonInv, OperationShape
      <3>2. ASSUME NEW q \in inbox', q.kind = "start" PROVE Awaits(q.token, q.gui)'
        <4>1. Awaits(q.token, q.gui) /\ q.token # r.token
          BY <2>2, <2>3, <3>2 DEF StartRequests
        <4>2. q.gui = r.gui => q.gui \notin alive
          BY <2>1, <4>1 DEF Awaits
        <4>3. CASE Unsettled
          BY <2>2, <4>1, <4>3 DEF Awaits, Unsettled
        <4>4. CASE Refused(r.gui, r.token)
          BY <2>2, <4>1, <4>2, <4>4, <1>a DEF Awaits, Refused
        <4> QED BY <2>5, <4>3, <4>4
      <3> QED BY <2>2, <2>5, <3>1, <3>2 DEF StartRequests, StartUnderWay
    <2> QED BY <1>8, <2>1, <2>4, <2>5, TakeStartEffect
  <1>9. ASSUME NEW r \in inbox, TakeStop(r) PROVE Goal
    <2>1. /\ pc = "free" /\ inbox' = inbox \ {r} /\ r.gui \in Guis /\ UNCHANGED <<active, core, by, alive>>
      BY <1>9, TakeStopEffect
    <2>2. CASE op'.kind = "stop" /\ Unsettled
      BY <2>1, <2>2, <1>k
    <2>3. CASE UNCHANGED <<op, pc>> /\ (Unsettled \/ UNCHANGED <<session, pending>>)
      <3>1. Keeps
        BY <2>1, <2>3, <1>h DEF Unsettled
      <3> QED BY <2>1, <2>3, <3>1, <1>j
    <2>4. CASE UNCHANGED <<op, pc>> /\ Retired(r.gui) /\ pending[r.gui] = 0
      <3>1. ASSUME NEW t, NEW h, Awaits(t, h) PROVE Awaits(t, h)'
        BY <2>1, <2>4, <3>1, <1>a DEF Awaits, Retired
      <3> QED BY <2>1, <2>4, <3>1, <1>j
    <2> QED BY <1>9, <2>2, <2>3, <2>4, TakeStopEffect
  <1>10. CASE TakeExpired
    <2>1. op'.kind = "retire" /\ Unsettled /\ UNCHANGED <<by, alive, active, core, inbox>>
      BY <1>10 DEF TakeExpired, Unsettled
    <2> QED BY <2>1, <1>k
  <1>11. CASE StopCore
    <2>1. core' = 0 /\ UNCHANGED <<active, inbox, by, alive>> /\ Unsettled /\ op' \in {op, NoOp}
      BY <1>11, QuietEnd DEF StopCore, NoCore, Goes, client, Unsettled
    <2>2. \A r \in inbox : r.kind = "start" => 0 # r.token
      BY <1>a DEF StartRequests, Awaits
    <2> QED BY <2>1, <2>2, <1>a, <1>h DEF StartRequests, StartUnderWay, Unsettled
  <1>12. CASE StopFails
    BY <1>12, <1>a, <1>k, QuietEnd DEF StopFails, Fails
  <1>13. CASE ClearActive
    <2>1. /\ active' = NoProof /\ core' = core /\ UNCHANGED <<inbox, by, alive>>
          /\ \A r \in inbox : r.kind = "start" => 0 # r.token
      BY <1>13, ClearEffect, <1>a DEF StartRequests, Awaits
    <2>2. CASE Unsettled /\ op' \in {op, NoOp}
      BY <2>1, <2>2, <1>a, <1>h DEF StartRequests, StartUnderWay, Unsettled
    <2>3. CASE op' = NoOp /\ op.gui \in Guis /\ UNCHANGED <<session, pending>>
      BY <2>1, <2>3, <1>a, <1>h DEF StartRequests, StartUnderWay
    <2>4. CASE op' = NoOp /\ ~Unsettled /\ Retired(op.gui)
      <3>1. /\ op.kind = "stop" /\ active = [token |-> op.token, gen |-> op.gen]
            /\ op.gui \in Guis /\ pending[op.gui] \in {0, op.token}
        BY RetiredByStop, <1>13, <2>4
      <3>2. ASSUME NEW r \in inbox, r.kind = "start" PROVE Awaits(r.token, r.gui)'
        <4>1. Awaits(r.token, r.gui) /\ r.token # op.token
          BY <3>1, <3>2 DEF StartRequests
        <4>2. r.gui = op.gui => r.gui \notin alive
          BY <3>1, <4>1, <1>a DEF Awaits
        <4> QED BY <2>1, <2>4, <4>1, <4>2, <1>a DEF Awaits, Retired
      <3> QED BY <2>1, <2>4, <3>2, <1>a DEF StartRequests, StartUnderWay
    <2> QED BY <1>13, <2>2, <2>3, <2>4, ClearEffect DEF Settled
  <1>14. CASE ClearActiveFails
    BY <1>14, <1>a, <1>k, QuietEnd DEF ClearActiveFails, Fails
  <1>15. CASE StartCore
    <2>1. /\ UNCHANGED <<active, inbox, by, alive>> /\ Unsettled /\ core' \in {0, core, op.token}
          /\ op' = op \/ op' = NoOp \/ (op'.token = op.token /\ op'.gui = op.gui /\ op'.kind = "abandon")
      BY <1>15, QuietEnd DEF StartCore, Published, NoCore, Goes, Becomes, client, Unsettled, DaemonInv, TypeOK, Operations
    <2>2. op.kind = "start"
      BY <1>15 DEF StartCore, DaemonInv, OperationShape
    <2>3. \A r \in inbox : r.kind = "start" => 0 # r.token
      BY <1>a DEF StartRequests, Awaits
    <2> QED BY <2>1, <2>2, <2>3, <1>a, <1>h DEF StartRequests, StartUnderWay, Unsettled
  <1>16. CASE AdvanceGeneration
    <2>1. /\ op'.token = op.token /\ op'.gui = op.gui /\ op.kind = "start"
          /\ Unsettled /\ UNCHANGED <<active, core, inbox, by, alive>>
      BY <1>16 DEF AdvanceGeneration, Becomes, DaemonInv, OperationShape, TypeOK, Operations, Unsettled, client
    <2> QED BY <2>1, <1>h DEF StartRequests, StartUnderWay, Unsettled
  <1>17. CASE CommitOwner
    <2>1. /\ op.kind = "start" /\ op.gui \in Guis /\ active' \in {NoProof, Candidate} /\ Candidate.token = op.token
          /\ UNCHANGED <<core, inbox, by, alive>> /\ Awaits(op.token, op.gui)
      BY <1>17, CommitEffect DEF Candidate, StartUnderWay
    <2>2. CASE Unsettled
      <3>1. Keeps
        BY <2>1, <2>2, <1>h DEF Unsettled
      <3>2. (op'.kind = "rollback" /\ op'.token = op.token /\ op'.gui = op.gui) \/ op' = NoOp
        BY <1>17, CommitEffect
      <3>3. \A r \in inbox : r.kind = "start" => 0 # r.token
        BY <1>a DEF StartRequests, Awaits
      <3> QED BY <2>1, <3>1, <3>2, <3>3, <1>a DEF StartRequests, StartUnderWay
    <2>3. CASE op' = NoOp /\ Acked(op.gui, op.token, op.gen)
      <3>1. ASSUME NEW r \in inbox, r.kind = "start"
            PROVE  Awaits(r.token, r.gui)' /\ r.token # op.token /\ r.token # 0
        <4>1. Awaits(r.token, r.gui) /\ r.token # op.token
          BY <2>1, <3>1 DEF StartRequests
        <4>2. r.gui = op.gui => r.gui \notin alive
          BY <2>1, <4>1 DEF Awaits
        <4>3. session' = [session EXCEPT ![op.gui] = [token |-> op.token, gen |-> op.gen]]
              /\ pending' = [pending EXCEPT ![op.gui] = 0]
          BY <2>3 DEF Acked
        <4> QED BY <2>1, <4>1, <4>2, <4>3, <1>a DEF Awaits
      <3> QED BY <2>1, <2>3, <3>1, <1>a DEF StartRequests, StartUnderWay
    <2> QED BY <1>17, <2>2, <2>3, CommitEffect
  <1>18. CASE LeaseAges
    BY <1>18, <1>i DEF LeaseAges, Unsettled
  <1>19. CASE IdleExit
    BY <1>19, <1>i DEF IdleExit, Unsettled
  <1>20. CASE ServerStop
    <2>1. core' = 0 /\ UNCHANGED <<active, op, inbox, by, alive>> /\ Unsettled
      BY <1>20 DEF ServerStop, NoCore, Unsettled
    <2>2. \A r \in inbox : r.kind = "start" => 0 # r.token
      BY <1>a DEF StartRequests, Awaits
    <2> QED BY <2>1, <2>2, <1>h DEF StartRequests, StartUnderWay, Unsettled
  <1>21. CASE Restart
    <2>1. op' = NoOp /\ inbox' = {}
      BY <1>21 DEF Restart
    <2> QED BY <2>1, <1>a DEF StartRequests, StartUnderWay
  <1>22. CASE Watchdog
    <2>1. core' \in {0, core} /\ UNCHANGED <<active, op, inbox, by, alive>> /\ Unsettled
      BY <1>22 DEF Watchdog, Recovers, GivesUp, RecoveryStuck, NoCore, Unsettled
    <2>2. \A r \in inbox : r.kind = "start" => 0 # r.token
      BY <1>a DEF StartRequests, Awaits
    <2> QED BY <2>1, <2>2, <1>h DEF StartRequests, StartUnderWay, Unsettled
  <1> QED
    BY <1>2, <1>3, <1>4, <1>5, <1>6, <1>7, <1>8, <1>9, <1>10, <1>11, <1>12, <1>13, <1>14, <1>15, <1>16, <1>17, <1>18, <1>19, <1>20, <1>21, <1>22, <1>f DEF Next, Work

LEMMA AuthorityStep ==
    ASSUME DaemonInv, SessionInv, [Next]_vars
    PROVE  StopAuthority'
  <1> USE DEF SessionInv, disk, daemon, manager, held, gui
  <1>a. /\ session \in [Guis -> Proofs] /\ pending \in [Guis -> 0 .. MaxStarts] /\ by \in [Tokens -> Guis \cup {NoOne}]
        /\ NoOne \notin Guis /\ NoProof.token = 0 /\ 0 \notin Tokens /\ alive \subseteq Guis
    BY OwnerAssumption DEF DaemonInv, TypeOK, NoProof, Tokens
  <1>b. ASSUME UNCHANGED <<session, pending, by, alive>>,
               active'.token \in {active.token, 0}, core' \in {core, 0, active.token}
        PROVE  StopAuthority'
    BY <1>a, <1>b DEF StopAuthority, Held, Holds
  <1>c. ASSUME Unsettled, UNCHANGED <<by, alive, active, core>> PROVE StopAuthority'
    BY <1>b, <1>c DEF Unsettled
  <1>d. CASE UNCHANGED vars
    BY <1>c, <1>d DEF vars, Unsettled
  <1>f. SUFFICES ASSUME Next PROVE StopAuthority'
    BY <1>d
  <1>2. ASSUME NEW g \in Guis, Propose(g) PROVE StopAuthority'
    <2>1. PICK t \in Untried : /\ by' = [by EXCEPT ![t] = g] /\ pending' = [pending EXCEPT ![g] = t]
                               /\ UNCHANGED <<session, alive, active, core>> /\ g \in alive /\ pending[g] = 0
      BY <1>2 DEF Propose, Ask
    <2>2. t \in Tokens /\ by[t] = NoOne
      BY <2>1 DEF Untried
    <2>3. active.token # t /\ core # t
      BY <2>2, <1>a DEF Proposed
    <2>4. ASSUME NEW u \in Tokens, by'[u] \in alive, active.token = u \/ core = u PROVE Held(u)'
      <3>1. u # t /\ by'[u] = by[u] /\ by[u] \in Guis
        BY <2>1, <2>2, <2>3, <2>4, <1>a
      <3>2. Held(u) /\ u # 0
        BY <2>4, <3>1, <1>a DEF StopAuthority
      <3> QED BY <2>1, <3>1, <3>2, <1>a DEF Held, Holds
    <2> QED BY <2>1, <2>4 DEF StopAuthority
  <1>3. ASSUME NEW g \in Guis, RequestStop(g) PROVE StopAuthority'
    BY <1>3, <1>b DEF RequestStop
  <1>4. ASSUME NEW g \in Guis, GiveUp(g) PROVE StopAuthority'
    BY <1>4, <1>b DEF GiveUp
  <1>5. ASSUME NEW g \in Guis, Exit(g) PROVE StopAuthority'
    <2>1. /\ alive' = alive \ {g} /\ UNCHANGED <<by, active, core>>
          /\ session' = [session EXCEPT ![g] = NoProof] /\ pending' = [pending EXCEPT ![g] = 0]
      BY <1>5 DEF Exit
    <2> QED BY <2>1, <1>a DEF StopAuthority, Held, Holds
  <1>6. ASSUME NEW g \in Guis, Heartbeat(g) PROVE StopAuthority'
    BY <1>6, <1>c DEF Heartbeat, Unsettled, client
  <1>7. ASSUME NEW g \in Guis, Use(g) PROVE StopAuthority'
    BY <1>7, <1>c DEF Use, Unsettled, client
  <1>8. ASSUME NEW r \in inbox, TakeStart(r) PROVE StopAuthority'
    <2>1. /\ r.kind = "start" /\ r.gen = 0 /\ active.token # r.token /\ core # r.token
      BY <1>8 DEF TakeStart, StartRequests
    <2>2. r.gui \in Guis /\ UNCHANGED <<active, core, by, alive>> /\ (Unsettled \/ Refused(r.gui, r.token))
      BY <1>8, <2>1, TakeStartEffect
    <2>3. CASE Unsettled
      BY <2>2, <2>3, <1>c
    <2>4. CASE Refused(r.gui, r.token)
      BY <2>1, <2>2, <2>4, <1>a DEF Refused, StopAuthority, Held, Holds
    <2> QED BY <2>2, <2>3, <2>4
  <1>9. ASSUME NEW r \in inbox, TakeStop(r) PROVE StopAuthority'
    <2> DEFINE g == r.gui
    <2>1. g \in Guis /\ UNCHANGED <<active, core, by, alive>>
      BY <1>9, TakeStopEffect
    <2>2. CASE UNCHANGED <<session, pending>>
      BY <2>1, <2>2, <1>b
    <2>3. CASE /\ Retired(g) /\ pending[g] = 0 /\ session[g] # NoProof
               /\ session[g].token = r.token /\ session[g].gen = r.gen
               /\ ~Authorized(g, [token |-> r.token, gen |-> r.gen])
      <3>1. session[g] = [token |-> r.token, gen |-> r.gen] /\ by[session[g].token] = g /\ session[g].token \in Tokens
        BY <2>1, <2>3, <1>a DEF Proofs, Clients
      <3>2. session[g] # active
        <4> SUFFICES ASSUME session[g] = active PROVE FALSE
          OBVIOUS
        <4>1. Account(active.token) = OwnerOf[g]
          BY <2>1, <3>1, <1>a DEF Account
        <4> QED BY <2>3, <3>1, <4>1 DEF Authorized
      <3>3. session[g].token # active.token /\ session[g].token # core
        BY <2>1, <2>3, <3>2 DEF Acknowledged
      <3>4. session' = [session EXCEPT ![g] = NoProof] /\ pending' = [pending EXCEPT ![g] = 0]
        BY <2>3 DEF Retired
      <3>5. ASSUME NEW u \in Tokens, by[u] \in alive, active.token = u \/ core = u PROVE Held(u)'
        <4>1. Held(u) /\ u # 0 /\ by[u] \in Guis
          BY <3>5, <1>a DEF StopAuthority
        <4>2. by[u] # g
          BY <2>3, <3>3, <3>5, <4>1 DEF Held, Holds
        <4> QED BY <2>1, <3>4, <4>1, <4>2, <1>a DEF Held, Holds
      <3> QED BY <2>1, <3>5 DEF StopAuthority
    <2> QED BY <1>9, <2>2, <2>3, TakeStopEffect DEF Unsettled
  <1>10. CASE TakeExpired
    BY <1>10, <1>c DEF TakeExpired, Unsettled, client
  <1>11. CASE StopCore
    BY <1>11, <1>b, QuietEnd DEF StopCore, NoCore, Goes, client, Unsettled
  <1>12. CASE StopFails
    BY <1>12, <1>c, QuietEnd DEF StopFails, Fails
  <1>13. CASE ClearActive
    <2>1. active' = NoProof /\ core' = 0
      BY <1>13, ClearEffect
    <2> QED BY <2>1, <1>a DEF StopAuthority
  <1>14. CASE ClearActiveFails
    BY <1>14, <1>c, QuietEnd DEF ClearActiveFails, Fails
  <1>15. CASE StartCore
    <2>1. /\ UNCHANGED <<active, by, alive, session, pending>> /\ core' \in {0, core, op.token}
      BY <1>15, QuietEnd DEF StartCore, Published, NoCore, Goes, Becomes, client, Unsettled
    <2>2. Awaits(op.token, op.gui) /\ op.gui \in Guis
      BY <1>15 DEF StartCore, DaemonInv, OperationShape, StartUnderWay
    <2> QED BY <2>1, <2>2, <1>a DEF StopAuthority, Held, Holds, Awaits
  <1>16. CASE AdvanceGeneration
    BY <1>16, <1>c DEF AdvanceGeneration, Becomes, client, Unsettled
  <1>17. CASE CommitOwner
    <2>1. /\ op.gui \in Guis /\ active' \in {NoProof, Candidate} /\ Candidate.token = op.token
          /\ UNCHANGED <<by, alive>> /\ core' \in {0, op.token} /\ Awaits(op.token, op.gui)
      BY <1>17, CommitEffect DEF Candidate, StartUnderWay, DaemonInv, CoreUnderWay
    <2>2. op.gui \in alive => session'[op.gui].token = op.token \/ pending'[op.gui] = op.token
      <3>1. CASE Unsettled
        BY <2>1, <3>1 DEF Unsettled, Awaits
      <3>2. CASE Acked(op.gui, op.token, op.gen)
        BY <2>1, <3>2, <1>a DEF Acked
      <3> QED BY <1>17, <3>1, <3>2, CommitEffect
    <2> QED BY <2>1, <2>2, <1>a DEF StopAuthority, Held, Holds, Awaits
  <1>18. CASE LeaseAges
    BY <1>18, <1>c DEF LeaseAges, Unsettled, client
  <1>19. CASE IdleExit
    BY <1>19, <1>c DEF IdleExit, Unsettled, client
  <1>20. CASE ServerStop
    BY <1>20, <1>b DEF ServerStop, NoCore
  <1>21. CASE Restart
    <2>1. core' \in {0, active.token} /\ UNCHANGED <<active, by, alive, session, pending>>
      BY <1>21 DEF Restart, Published, NoCore
    <2> QED BY <2>1, <1>b
  <1>22. CASE Watchdog
    BY <1>22, <1>b DEF Watchdog, Recovers, GivesUp, RecoveryStuck, NoCore
  <1> QED
    BY <1>2, <1>3, <1>4, <1>5, <1>6, <1>7, <1>8, <1>9, <1>10, <1>11, <1>12, <1>13, <1>14, <1>15, <1>16, <1>17, <1>18, <1>19, <1>20, <1>21, <1>22, <1>f DEF Next, Work

-----------------------------------------------------------------------------
(* A core that is nobody's *)

\* A core becomes nobody's only in the failed stop of a rollback or of a failed start.
LEMMA LeftBehind ==
    ASSUME DaemonInv, Next, NobodysCore', ~NobodysCore
    PROVE  LeftByStop
  <1> USE DEF DaemonInv, OperationShape, CoreOfOwner, CoreUnderWay, NobodysCore, disk, daemon, manager, held, gui
  <1>a. NoProof.token = 0
    BY DEF NoProof
  <1>b. ASSUME NEW out, Ends(out) PROVE pc' = "free" /\ (op').kind = "none"
    BY <1>b DEF Ends, NoOp
  <1>c. \A k \in Kinds : ([op EXCEPT !.kind = k]).kind = k
    BY DEF TypeOK, Operations
  <1>d. \A n : ([op EXCEPT !.gen = n]).kind = op.kind
    BY DEF TypeOK, Operations
  <1>2. ASSUME NEW g \in Guis, Propose(g) PROVE LeftByStop
    BY <1>2, <1>a DEF Propose
  <1>3. ASSUME NEW g \in Guis, RequestStop(g) PROVE LeftByStop
    BY <1>3, <1>a DEF RequestStop
  <1>4. ASSUME NEW g \in Guis, GiveUp(g) PROVE LeftByStop
    BY <1>4, <1>a DEF GiveUp
  <1>5. ASSUME NEW g \in Guis, Exit(g) PROVE LeftByStop
    BY <1>5, <1>a DEF Exit
  <1>6. ASSUME NEW g \in Guis, Heartbeat(g) PROVE LeftByStop
    BY <1>6, <1>a DEF Heartbeat
  <1>7. ASSUME NEW g \in Guis, Use(g) PROVE LeftByStop
    BY <1>7, <1>a DEF Use
  <1>8. ASSUME NEW r \in inbox, TakeStart(r) PROVE LeftByStop
    BY <1>8, <1>a DEF TakeStart, Free
  <1>9. ASSUME NEW r \in inbox, TakeStop(r) PROVE LeftByStop
    BY <1>9, <1>a DEF TakeStop, Free
  <1>10. CASE TakeExpired
    BY <1>10, <1>a DEF TakeExpired, Free
  <1>11. CASE StopCore
    BY <1>11, <1>a DEF StopCore, NoCore, Goes
  <1>12. CASE StopFails
    BY <1>12, <1>b DEF StopFails, Fails, LeftByStop
  <1>13. CASE ClearActive
    BY <1>13, <1>a DEF ClearActive
  <1>14. CASE ClearActiveFails
    BY <1>14, <1>a DEF ClearActiveFails
  <1>15. CASE StartCore
    BY <1>15, <1>b, <1>c DEF StartCore, Published, NoCore, Goes, Becomes, Kinds
  <1>16. CASE AdvanceGeneration
    BY <1>16, <1>c, <1>d DEF AdvanceGeneration, Becomes, Kinds
  <1>17. CASE CommitOwner
    <2>1. pc = "commit" /\ core' = core /\ core \in {0, op.token}
      BY <1>17 DEF CommitOwner
    <2>2. active' = Candidate \/ Becomes("rollback")
      BY <1>17 DEF CommitOwner
    <2>3. CASE active' = Candidate
      BY <2>1, <2>3 DEF Candidate
    <2>4. CASE Becomes("rollback")
      BY <2>4, <1>c DEF Becomes, Kinds
    <2> QED BY <2>2, <2>3, <2>4
  <1>18. CASE LeaseAges
    BY <1>18, <1>a DEF LeaseAges
  <1>19. CASE IdleExit
    BY <1>19, <1>a DEF IdleExit, Idle
  <1>20. CASE ServerStop
    BY <1>20, <1>a DEF ServerStop, NoCore
  <1>21. CASE Restart
    BY <1>21, <1>a DEF Restart, Published, NoCore, Wanted, NoOp
  <1>22. CASE Watchdog
    BY <1>22, <1>a DEF Watchdog, Recovers, GivesUp, RecoveryStuck, NoCore
  <1> QED
    BY <1>2, <1>3, <1>4, <1>5, <1>6, <1>7, <1>8, <1>9, <1>10, <1>11, <1>12, <1>13, <1>14, <1>15, <1>16, <1>17, <1>18, <1>19, <1>20, <1>21, <1>22 DEF Next, Work

\* A core that is nobody's stays that until it is gone.
LEMMA NotAdopted ==
    ASSUME DaemonInv, Next, NobodysCore
    PROVE  NobodysCore' \/ core' = 0
  <1> USE DEF DaemonInv, OperationShape, CoreOfOwner, CoreUnderWay, NobodysCore, disk, daemon, manager, held, gui
  <1>a. NoProof.token = 0
    BY DEF NoProof
  <1>b. ASSUME NEW out, Ends(out) PROVE pc' = "free" /\ (op').kind = "none"
    BY <1>b DEF Ends, NoOp
  <1>c. \A k \in Kinds : ([op EXCEPT !.kind = k]).kind = k
    BY DEF TypeOK, Operations
  <1>d. \A n : ([op EXCEPT !.gen = n]).kind = op.kind
    BY DEF TypeOK, Operations
  <1>2. ASSUME NEW g \in Guis, Propose(g) PROVE NobodysCore' \/ core' = 0
    BY <1>2, <1>a DEF Propose
  <1>3. ASSUME NEW g \in Guis, RequestStop(g) PROVE NobodysCore' \/ core' = 0
    BY <1>3, <1>a DEF RequestStop
  <1>4. ASSUME NEW g \in Guis, GiveUp(g) PROVE NobodysCore' \/ core' = 0
    BY <1>4, <1>a DEF GiveUp
  <1>5. ASSUME NEW g \in Guis, Exit(g) PROVE NobodysCore' \/ core' = 0
    BY <1>5, <1>a DEF Exit
  <1>6. ASSUME NEW g \in Guis, Heartbeat(g) PROVE NobodysCore' \/ core' = 0
    BY <1>6, <1>a DEF Heartbeat
  <1>7. ASSUME NEW g \in Guis, Use(g) PROVE NobodysCore' \/ core' = 0
    BY <1>7, <1>a DEF Use
  <1>8. ASSUME NEW r \in inbox, TakeStart(r) PROVE NobodysCore' \/ core' = 0
    BY <1>8, <1>a DEF TakeStart, Free
  <1>9. ASSUME NEW r \in inbox, TakeStop(r) PROVE NobodysCore' \/ core' = 0
    BY <1>9, <1>a DEF TakeStop, Free
  <1>10. CASE TakeExpired
    BY <1>10, <1>a DEF TakeExpired, Free
  <1>11. CASE StopCore
    BY <1>11, <1>a DEF StopCore, NoCore, Goes
  <1>12. CASE StopFails
    BY <1>12, <1>b DEF StopFails, Fails
  <1>13. CASE ClearActive
    BY <1>13, <1>a DEF ClearActive
  <1>14. CASE ClearActiveFails
    BY <1>14, <1>a DEF ClearActiveFails
  <1>15. CASE StartCore
    BY <1>15, <1>a DEF StartCore, Published, NoCore, Goes, Becomes
  <1>16. CASE AdvanceGeneration
    BY <1>16, <1>a DEF AdvanceGeneration, Becomes
  <1>17. CASE CommitOwner
    BY <1>17, <1>a DEF CommitOwner, Becomes
  <1>18. CASE LeaseAges
    BY <1>18, <1>a DEF LeaseAges
  <1>19. CASE IdleExit
    BY <1>19, <1>a DEF IdleExit, Idle
  <1>20. CASE ServerStop
    BY <1>20, <1>a DEF ServerStop, NoCore
  <1>21. CASE Restart
    BY <1>21, <1>a DEF Restart, Published, NoCore, Wanted, NoOp
  <1>22. CASE Watchdog
    BY <1>22, <1>a DEF Watchdog, Recovers, GivesUp, RecoveryStuck, NoCore
  <1> QED
    BY <1>2, <1>3, <1>4, <1>5, <1>6, <1>7, <1>8, <1>9, <1>10, <1>11, <1>12, <1>13, <1>14, <1>15, <1>16, <1>17, <1>18, <1>19, <1>20, <1>21, <1>22 DEF Next, Work

\* What runs after the decision to exit idle ran before it, and was nobody's.
LEMMA ClosedSteps ==
    ASSUME DaemonInv, ClosedIdle, Next, closed', core' # 0
    PROVE  NobodysCore /\ core' = core
  <1> USE DEF DaemonInv, OperationShape, ClosedIdle, NobodysCore, disk, daemon, manager, held, gui
  <1>a. NoProof.token = 0
    BY DEF NoProof
  <1>2. ASSUME NEW g \in Guis, Propose(g) PROVE NobodysCore /\ core' = core
    BY <1>2, <1>a DEF Propose
  <1>3. ASSUME NEW g \in Guis, RequestStop(g) PROVE NobodysCore /\ core' = core
    BY <1>3, <1>a DEF RequestStop
  <1>4. ASSUME NEW g \in Guis, GiveUp(g) PROVE NobodysCore /\ core' = core
    BY <1>4, <1>a DEF GiveUp
  <1>5. ASSUME NEW g \in Guis, Exit(g) PROVE NobodysCore /\ core' = core
    BY <1>5, <1>a DEF Exit
  <1>6. ASSUME NEW g \in Guis, Heartbeat(g) PROVE NobodysCore /\ core' = core
    BY <1>6, <1>a DEF Heartbeat
  <1>7. ASSUME NEW g \in Guis, Use(g) PROVE NobodysCore /\ core' = core
    BY <1>7, <1>a DEF Use
  <1>8. ASSUME NEW r \in inbox, TakeStart(r) PROVE NobodysCore /\ core' = core
    BY <1>8, <1>a DEF TakeStart, Free
  <1>9. ASSUME NEW r \in inbox, TakeStop(r) PROVE NobodysCore /\ core' = core
    BY <1>9, <1>a DEF TakeStop, Free
  <1>10. CASE TakeExpired
    BY <1>10, <1>a DEF TakeExpired, Free
  <1>11. CASE StopCore
    BY <1>11, <1>a DEF StopCore, NoCore, Goes
  <1>12. CASE StopFails
    BY <1>12, <1>a DEF StopFails, Fails
  <1>13. CASE ClearActive
    BY <1>13, <1>a DEF ClearActive
  <1>14. CASE ClearActiveFails
    BY <1>14, <1>a DEF ClearActiveFails
  <1>15. CASE StartCore
    BY <1>15, <1>a DEF StartCore, Published, NoCore, Goes, Becomes
  <1>16. CASE AdvanceGeneration
    BY <1>16, <1>a DEF AdvanceGeneration, Becomes
  <1>17. CASE CommitOwner
    BY <1>17, <1>a DEF CommitOwner, Becomes
  <1>18. CASE LeaseAges
    BY <1>18, <1>a DEF LeaseAges
  <1>19. CASE IdleExit
    BY <1>19, <1>a DEF IdleExit, Idle
  <1>20. CASE ServerStop
    BY <1>20, <1>a DEF ServerStop, NoCore
  <1>21. CASE Restart
    BY <1>21, <1>a DEF Restart, Published, NoCore, Wanted, NoOp
  <1>22. CASE Watchdog
    BY <1>22, <1>a DEF Watchdog, Recovers, GivesUp, RecoveryStuck, NoCore
  <1> QED
    BY <1>2, <1>3, <1>4, <1>5, <1>6, <1>7, <1>8, <1>9, <1>10, <1>11, <1>12, <1>13, <1>14, <1>15, <1>16, <1>17, <1>18, <1>19, <1>20, <1>21, <1>22 DEF Next, Work

-----------------------------------------------------------------------------
(* Theorems *)

THEOREM Invariance == Spec => []IInv
  <1>1. IInv /\ [Next]_vars => IInv'
    BY TypeStep, OperationStep, CoreStep, IdleStep, ProposedStep, ClientsStep, AcknowledgedStep,
       GenerationStep, AwaitsStep, AuthorityStep
    DEF IInv, DaemonInv, SessionInv
  <1> QED BY InitInv, <1>1, PTL DEF Spec

\* Every variable keeps its type (OwnerSession's TypeOK).
THEOREM TypeCorrect == Spec => []TypeOK
  BY Invariance, PTL DEF IInv, DaemonInv

\* No core ever runs beside an owner it does not belong to.  A core is left without an
\* owner only where the stop that undoes its start fails (start_new_core,
\* rollback_started_owner), Fatal at that moment if it was a rollback's; what its
\* watchdog makes of the state later is not promised.  And no later start or restart of
\* the daemon adopts it: it stays nobody's until it is stopped.
THEOREM CoreIsOwned == Spec => OwnedCore
  <1>1. IInv => (active # NoProof => core \in {0, active.token})
    BY DEF IInv, DaemonInv, CoreOfOwner
  <1>2. IInv /\ [Next]_vars => [NobodysCore' => NobodysCore \/ LeftByStop]_vars
    BY LeftBehind DEF IInv
  <1>3. IInv /\ [Next]_vars => [NobodysCore => NobodysCore' \/ core' = 0]_vars
    BY NotAdopted DEF IInv
  <1> QED BY Invariance, <1>1, <1>2, <1>3, PTL DEF Spec, OwnedCore

\* No GUI loses the token that proves a core or an ownership of its own
\* (ServiceSession's pending_start).
THEOREM AuthorityIsKept == Spec => []StopAuthority
  BY Invariance, PTL DEF IInv, SessionInv

\* Generations are never given twice, whatever crashes and failed writes come between
\* (commit_active_owner_session).
THEOREM GenerationsAreUnique == Spec => []GenerationsUnique
  BY Invariance, PTL DEF IInv, SessionInv

\* A daemon that closed admission when idle has no owner and does nothing for one
\* (wait_for_macos_idle, enter_owner_lifecycle): a core that runs then ran before, and
\* was nobody's.
THEOREM IdleExitIsFinal == Spec => IdleExitFinal
  <1>1. IInv => (closed => active = NoProof /\ pc = "free")
    BY DEF IInv, ClosedIdle
  <1>2. IInv /\ [Next]_vars => [closed' /\ core' # 0 => NobodysCore /\ core' = core]_vars
    BY ClosedSteps DEF IInv
  <1> QED BY Invariance, <1>1, <1>2, PTL DEF Spec, IdleExitFinal

\* StopClash never stops the core of another session (require_active_session).
THEOREM StopsItsOwn == Spec => StopsOwnCore
  <1>1. IInv => (op.kind = "stop" /\ core # 0 => core = op.token)
    BY DEF IInv, DaemonInv, StopOfOwner, CoreOfOwner
  <1>2. IInv /\ [Next]_vars =>
          [op.kind = "stop" /\ pc = "stop" /\ core # 0 /\ core' = 0 /\ daemon' = daemon => core = op.token]_vars
    BY <1>1
  <1> QED BY Invariance, <1>2, PTL DEF Spec, StopsOwnCore
=============================================================================
