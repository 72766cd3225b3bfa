---------------------- MODULE DataCoordinator_proofs ----------------------
(***************************************************************************)
(* What DataCoordinator guarantees for any number of operations, any       *)
(* places and any requests.                                                *)
(***************************************************************************)
EXTENDS DataCoordinator, TLAPS

\* The types, without the conjunct about the guards' flags.
Typed ==
    /\ link \in [Places -> Places]
    /\ pc \in [Ops -> States]
    /\ places \in [Ops -> SUBSET Places]
    /\ sole \subseteq Ops
    /\ paths \in [Ops -> SUBSET Places]
    /\ waiting \subseteq Ops
    /\ ahead \in [Ops -> SUBSET Ops]
    /\ active \subseteq Ops
    /\ lease \in [Ops -> Ops \cup {NoOp}]
    /\ valid \subseteq Ops
    /\ permit \in [Ops -> [guard : Ops \cup {NoOp}, lease : Ops \cup {NoOp}]]

\* A guard's flag is set while the guard exists: it is cleared before the drop.
Flagged == \A t \in valid : pc[t] \in {"check", "held"}

\* Who holds a strong reference: an operation between its admission, or the
\* upgrade of its permit, and the drop of its guard.
Referring == {"confirm", "check", "held", "declined", "dropped"}
HoldsReference ==
    \A t \in Ops : lease[t] # NoOp <=> pc[t] \in Referring

\* An operation in the middle of its checks still has its permit.
PermitKept ==
    \A t \in Ops :
        pc[t] \in {"permit", "upgrade", "confirm"} => permit[t].lease \in Ops

\* A lease somebody refers to has its record among the active ones.
ReferencedIsActive == \A t \in Ops : lease[t] # NoOp => lease[t] \in active

\* An operation has no active record while it asks for one.
Asking == {"permit", "upgrade", "confirm", "request", "resolved", "asleep", "woken",
           "declined", "notify", "renotify"}
NoRecordWhileAsking == \A t \in Ops : pc[t] \in Asking => t \notin active

\* Whoever has a record of its own works under it.
OwnRecord == \A t \in active : lease[t] # NoOp => lease[t] = t

\* No two active records conflict.
Disjoint ==
    \A l, m \in active : l # m /\ l \in sole => paths[l] \cap paths[m] = {}

\* The ids order the waiting restores.
WaitingRestores ==
    /\ \A t \in Ops : t \in waiting => t \in sole /\ pc[t] \in {"asleep", "woken"}
    /\ \A t \in Ops : t \in sole /\ pc[t] \in {"asleep", "woken"} => t \in waiting
    /\ \A t \in Ops : ahead[t] \subseteq waiting /\ t \notin ahead[t]
    /\ \A t, u \in Ops : u \in ahead[t] => t \in waiting /\ ahead[u] \subseteq ahead[t]

\* WakeupOwed holds because the restore with the lowest id waits for an active
\* lease only: a sleeping restore's excuse is one ahead of it.
Excused(t) ==
    \/ active # {}
    \/ \E u \in Ops : pc[u] \in {"notify", "renotify"}
    \/ \E u \in (IF t \in sole THEN ahead[t] ELSE waiting) : pc[u] = "woken"
OrderedExcuse == \A t \in Ops : pc[t] = "asleep" => Excused(t)

\* An active record lives as long as somebody refers to it.
ActiveIsReferenced == \A l \in active : References(l) # {}

LeaseInv ==
    /\ Typed
    /\ HoldsReference
    /\ PermitKept
    /\ ReferencedIsActive
    /\ ActiveIsReferenced
    /\ NoRecordWhileAsking
    /\ OwnRecord
    /\ Disjoint

IInv == LeaseInv /\ Flagged /\ WaitingRestores /\ OrderedExcuse

-----------------------------------------------------------------------------
LEMMA InitInv == Init => IInv
  BY CoordinatorAssumption
  DEF Init, IInv, LeaseInv, Typed, Flagged, HoldsReference, PermitKept, ReferencedIsActive,
      ActiveIsReferenced, NoRecordWhileAsking, OwnRecord, Disjoint, WaitingRestores, OrderedExcuse, Referring, Asking,
      States, NoPermit

\* What the checks of a permit do to the operation that makes them, and to nobody
\* else (WritePermit::acquire).
LEMMA ConfirmEffect ==
    ASSUME NEW t \in Ops, ConfirmPermit(t)
    PROVE  /\ pc[t] = "confirm"
           /\ \E n \in {"held", "dropped", "declined"} : pc' = [pc EXCEPT ![t] = n]
           /\ permit' = [permit EXCEPT ![t] = NoPermit]
           /\ valid' \in {valid, valid \cup {t}}
           /\ UNCHANGED <<link, places, sole, paths, waiting, ahead, active, lease>>
  <1> DEFINE lent == permit[t].guard \in valid
             whole == Covers(lease[t], places[t])
             some == \E p \in places[t] : Covers(lease[t], {p})
             all == \A p \in places[t] : Covers(lease[t], {p})
  <1>1. \/ lent /\ whole /\ Withdrawn(t, "held") /\ valid' = valid \cup {t}
        \/ lent /\ ~whole /\ some /\ Withdrawn(t, "dropped") /\ UNCHANGED valid
        \/ (~lent \/ ~all) /\ Withdrawn(t, "declined") /\ UNCHANGED valid
    BY DEF ConfirmPermit
  <1>2. pc[t] = "confirm" /\ UNCHANGED <<link, places, sole, paths, waiting, ahead, active, lease>>
    BY DEF ConfirmPermit, requests, queue
  <1> QED BY <1>1, <1>2 DEF Withdrawn

\* A woken operation resolves its paths again and sleeps on, or is admitted
\* (the loop of acquire).
AheadOf(t) == IF t \in sole THEN ahead[t] ELSE waiting
LEMMA RecheckEffect ==
    ASSUME NEW t \in Ops, Recheck(t)
    PROVE  /\ pc[t] = "woken"
           /\ paths' = [paths EXCEPT ![t] = Resolved(places[t])]
           /\ UNCHANGED <<link, places, sole, permit>>
           /\ \/ /\ \/ Conflicts(t, Resolved(places[t]))
                    \/ RestorePrecedes(t, Resolved(places[t]), AheadOf(t))
                 /\ pc' = [pc EXCEPT ![t] = "asleep"]
                 /\ UNCHANGED <<waiting, ahead, active, lease, valid>>
              \/ /\ ~Conflicts(t, Resolved(places[t]))
                 /\ Admitted(t)
  <1> DEFINE S == Resolved(places[t])
             blocked == Conflicts(t, S) \/ RestorePrecedes(t, S, AheadOf(t))
  <1>1. /\ pc[t] = "woken"
        /\ paths' = [paths EXCEPT ![t] = S]
        /\ UNCHANGED <<link, places, sole, permit>>
    BY DEF Recheck
  <1>2. \/ blocked /\ pc' = [pc EXCEPT ![t] = "asleep"] /\ UNCHANGED <<queue, lease, valid>>
        \/ ~blocked /\ Admitted(t)
    BY DEF Recheck, AheadOf
  <1> QED BY <1>1, <1>2 DEF queue

\* Type correctness of every step (DataCoordinator's Typed).
LEMMA TypeStep ==
    ASSUME LeaseInv, [Next]_vars
    PROVE  Typed'
  <1> USE DEF LeaseInv, Typed, States, requests, queue, guards, NoPermit
  <1>1. CASE UNCHANGED vars
    BY <1>1 DEF vars
  <1>2. ASSUME NEW t \in Ops, Begin(t) PROVE Typed'
    BY <1>2, CoordinatorAssumption DEF Begin
  <1>3. ASSUME NEW t \in Ops, NEW g \in Ops, Lend(g, t) PROVE Typed'
    <2>1. lease[g] \in Ops \cup {NoOp}
      OBVIOUS
    <2>2. [guard |-> g, lease |-> lease[g]] \in [guard : Ops \cup {NoOp}, lease : Ops \cup {NoOp}]
      BY <2>1
    <2>3. permit' \in [Ops -> [guard : Ops \cup {NoOp}, lease : Ops \cup {NoOp}]]
      BY <1>3, <2>2 DEF Lend
    <2>4. places' \in [Ops -> SUBSET Places] /\ pc' \in [Ops -> States]
      BY <1>3, CoordinatorAssumption DEF Lend
    <2> QED BY <1>3, <2>3, <2>4 DEF Lend
  <1>4. ASSUME NEW t \in Ops, CheckPermit(t) PROVE Typed'
    <2>1. NoPermit \in [guard : Ops \cup {NoOp}, lease : Ops \cup {NoOp}]
      OBVIOUS
    <2>2. permit' \in [Ops -> [guard : Ops \cup {NoOp}, lease : Ops \cup {NoOp}]]
      BY <1>4, <2>1 DEF CheckPermit, Withdrawn
    <2>3. pc' \in [Ops -> States]
      BY <1>4 DEF CheckPermit, Withdrawn
    <2> QED BY <1>4, <2>2, <2>3 DEF CheckPermit
  <1>5. ASSUME NEW t \in Ops, UpgradePermit(t) PROVE Typed'
    <2>1. permit[t].lease \in Ops
      BY <1>5 DEF UpgradePermit, PermitKept
    <2>2. NoPermit \in [guard : Ops \cup {NoOp}, lease : Ops \cup {NoOp}]
      OBVIOUS
    <2>3. permit' \in [Ops -> [guard : Ops \cup {NoOp}, lease : Ops \cup {NoOp}]]
      BY <1>5, <2>2 DEF UpgradePermit, Withdrawn
    <2>4. lease' \in [Ops -> Ops \cup {NoOp}] /\ pc' \in [Ops -> States]
      BY <1>5, <2>1 DEF UpgradePermit, Withdrawn
    <2> QED BY <1>5, <2>3, <2>4 DEF UpgradePermit
  <1>6. ASSUME NEW t \in Ops, ConfirmPermit(t) PROVE Typed'
    <2>1. PICK n \in {"held", "dropped", "declined"} : pc' = [pc EXCEPT ![t] = n]
      BY <1>6, ConfirmEffect
    <2>2. /\ permit' = [permit EXCEPT ![t] = NoPermit]
          /\ valid' \in {valid, valid \cup {t}}
          /\ UNCHANGED <<link, places, sole, paths, waiting, ahead, active, lease>>
      BY <1>6, ConfirmEffect
    <2> QED BY <2>1, <2>2
  <1>7. ASSUME NEW t \in Ops, Resolve(t) PROVE Typed'
    BY <1>7 DEF Resolve, Resolved
  <1>8. ASSUME NEW t \in Ops, Enter(t) PROVE Typed'
    <2>1. CASE Admitted(t)
      BY <1>8, <2>1 DEF Enter, Earlier, Admitted
    <2>2. CASE ~Admitted(t)
      BY <1>8, <2>2 DEF Enter, Earlier
    <2> QED BY <2>1, <2>2
  <1>9. ASSUME NEW t \in Ops, Recheck(t) PROVE Typed'
    <2>. Resolved(places[t]) \in SUBSET Places
      BY DEF Resolved
    <2>1. paths' \in [Ops -> SUBSET Places]
      BY <1>9, RecheckEffect
    <2>2. CASE Admitted(t)
      BY <1>9, <2>1, <2>2, RecheckEffect DEF Admitted
    <2>3. CASE ~Admitted(t)
      BY <1>9, <2>1, <2>3, RecheckEffect
    <2> QED BY <2>2, <2>3
  <1>10. ASSUME NEW t \in Ops, CheckAvailable(t) PROVE Typed'
    BY <1>10 DEF CheckAvailable, Revoked
  <1>11. ASSUME NEW t \in Ops, Drop(t) PROVE Typed'
    BY <1>11 DEF Drop, Revoked
  <1>12. ASSUME NEW t \in Ops, Release(t) PROVE Typed'
    <2>1. lease[t] \in Ops
      BY <1>12 DEF Release, LastReference, HoldsReference, Referring
    <2>2. pc' \in [Ops -> States] /\ lease' \in [Ops -> Ops \cup {NoOp}] /\ places' \in [Ops -> SUBSET Places]
      BY <1>12 DEF Release, LastReference
    <2>3. active' \subseteq Ops /\ sole' \subseteq Ops /\ paths' \in [Ops -> SUBSET Places]
      BY <1>12, <2>1 DEF Release, LastReference, Forgotten
    <2> QED BY <1>12, <2>2, <2>3 DEF Release, LastReference
  <1>13. ASSUME NEW t \in Ops, Notify(t) PROVE Typed'
    BY <1>13 DEF Notify
  <1>14. ASSUME NEW t \in Ops, ReplaceDirectory(t) PROVE Typed'
    BY <1>14 DEF ReplaceDirectory, Destinations
  <1> QED
    BY <1>1, <1>2, <1>3, <1>4, <1>5, <1>6, <1>7, <1>8, <1>9, <1>10, <1>11, <1>12, <1>13, <1>14
    DEF Next, Step

\* Permits are withdrawn before the guard that lent them is dropped
\* (DataWriteLease::drop).
LEMMA FlagStep ==
    ASSUME LeaseInv, Flagged, [Next]_vars
    PROVE  Flagged'
  <1> USE DEF LeaseInv, Typed, Flagged
  <1>1. CASE UNCHANGED vars
    BY <1>1 DEF vars
  <1>2. ASSUME NEW t \in Ops, Begin(t) PROVE Flagged'
    BY <1>2 DEF Begin, Fresh, guards
  <1>3. ASSUME NEW t \in Ops, NEW g \in Ops, Lend(g, t) PROVE Flagged'
    BY <1>3 DEF Lend, Fresh
  <1>4. ASSUME NEW t \in Ops, CheckPermit(t) PROVE Flagged'
    BY <1>4 DEF CheckPermit, Withdrawn
  <1>5. ASSUME NEW t \in Ops, UpgradePermit(t) PROVE Flagged'
    BY <1>5 DEF UpgradePermit, Withdrawn
  <1>6. ASSUME NEW t \in Ops, ConfirmPermit(t) PROVE Flagged'
    <2>1. pc[t] = "confirm"
      BY <1>6 DEF ConfirmPermit
    <2>2. \/ Withdrawn(t, "held") /\ valid' = valid \cup {t}
          \/ Withdrawn(t, "dropped") /\ valid' = valid
          \/ Withdrawn(t, "declined") /\ valid' = valid
      BY <1>6 DEF ConfirmPermit
    <2> QED BY <2>1, <2>2 DEF Withdrawn
  <1>7. ASSUME NEW t \in Ops, Resolve(t) PROVE Flagged'
    BY <1>7 DEF Resolve, guards
  <1>8. ASSUME NEW t \in Ops, Enter(t) PROVE Flagged'
    BY <1>8 DEF Enter, Admitted
  <1>9. ASSUME NEW t \in Ops, Recheck(t) PROVE Flagged'
    BY <1>9, RecheckEffect DEF Admitted
  <1>10. ASSUME NEW t \in Ops, CheckAvailable(t) PROVE Flagged'
    BY <1>10 DEF CheckAvailable, Revoked
  <1>11. ASSUME NEW t \in Ops, Drop(t) PROVE Flagged'
    BY <1>11 DEF Drop, Revoked
  <1>12. ASSUME NEW t \in Ops, Release(t) PROVE Flagged'
    BY <1>12 DEF Release
  <1>13. ASSUME NEW t \in Ops, Notify(t) PROVE Flagged'
    BY <1>13 DEF Notify, guards
  <1>14. ASSUME NEW t \in Ops, ReplaceDirectory(t) PROVE Flagged'
    BY <1>14 DEF ReplaceDirectory, guards
  <1> QED
    BY <1>1, <1>2, <1>3, <1>4, <1>5, <1>6, <1>7, <1>8, <1>9, <1>10, <1>11, <1>12, <1>13, <1>14
    DEF Next, Step

-----------------------------------------------------------------------------
Rest ==
    HoldsReference /\ PermitKept /\ ReferencedIsActive /\ ActiveIsReferenced /\ NoRecordWhileAsking /\ OwnRecord /\ Disjoint

\* An admission keeps the leases apart: the new record conflicts with none.
LEMMA AdmissionKeeps ==
    ASSUME LeaseInv, NEW t \in Ops, NEW S \in SUBSET Places,
           pc[t] \in {"resolved", "woken"},
           ~Conflicts(t, S), paths' = [paths EXCEPT ![t] = S],
           UNCHANGED <<sole, permit>>, Admitted(t)
    PROVE  Rest'
  <1> USE DEF LeaseInv, Typed, Rest, Admitted
  <1>1. t \notin active /\ lease[t] = NoOp
    BY DEF NoRecordWhileAsking, Asking, HoldsReference, Referring
  <1>2. HoldsReference'
    BY CoordinatorAssumption DEF HoldsReference, Referring
  <1>3. PermitKept'
    BY DEF PermitKept
  <1>4. ReferencedIsActive'
    BY DEF ReferencedIsActive
  <1>8. ActiveIsReferenced'
    BY <1>1, CoordinatorAssumption DEF ActiveIsReferenced, References
  <1>5. NoRecordWhileAsking'
    BY DEF NoRecordWhileAsking, Asking
  <1>6. Disjoint'
    BY <1>1 DEF Disjoint, Conflicts
  <1>7. OwnRecord'
    BY DEF OwnRecord
  <1> QED BY <1>2, <1>3, <1>4, <1>5, <1>6, <1>7, <1>8

\* Every step keeps references and records together and the records apart.
LEMMA LeaseStep ==
    ASSUME LeaseInv, [Next]_vars
    PROVE  LeaseInv'
  <1> USE DEF LeaseInv, Typed, Rest, requests, queue, guards, NoPermit, Referring, Asking
  <1> SUFFICES Rest' BY TypeStep
  <1>1. CASE UNCHANGED vars
    BY <1>1 DEF vars, HoldsReference, PermitKept, ReferencedIsActive, ActiveIsReferenced, References, NoRecordWhileAsking, OwnRecord, Disjoint
  <1>2. ASSUME NEW t \in Ops, Begin(t) PROVE Rest'
    BY <1>2 DEF Begin, Fresh, HoldsReference, PermitKept, ReferencedIsActive, ActiveIsReferenced, References, NoRecordWhileAsking, OwnRecord, Disjoint
  <1>3. ASSUME NEW t \in Ops, NEW g \in Ops, Lend(g, t) PROVE Rest'
    <2>1. HoldsReference' /\ ReferencedIsActive' /\ ActiveIsReferenced' /\ NoRecordWhileAsking' /\ OwnRecord' /\ Disjoint'
      BY <1>3 DEF Lend, Fresh, HoldsReference, ReferencedIsActive, ActiveIsReferenced, References, NoRecordWhileAsking, OwnRecord, Disjoint
    <2>2. lease[g] \in Ops
      BY <1>3 DEF Lend, HoldsReference
    <2>3. PermitKept'
      BY <1>3, <2>2 DEF Lend, PermitKept
    <2> QED BY <2>1, <2>3
  <1>4. ASSUME NEW t \in Ops, CheckPermit(t) PROVE Rest'
    <2>1. pc[t] = "permit" /\ UNCHANGED <<lease, active>>
      BY <1>4 DEF CheckPermit
    <2>2. HoldsReference'
      BY <1>4, <2>1 DEF CheckPermit, Withdrawn, HoldsReference
    <2>3. PermitKept'
      <3>1. CASE permit[t].guard \in valid
        BY <1>4, <2>1, <3>1 DEF CheckPermit, PermitKept
      <3>2. CASE permit[t].guard \notin valid
        BY <1>4, <2>1, <3>2 DEF CheckPermit, Withdrawn, PermitKept
      <3> QED BY <3>1, <3>2
    <2>4. NoRecordWhileAsking'
      BY <1>4, <2>1 DEF CheckPermit, Withdrawn, NoRecordWhileAsking
    <2>5. ReferencedIsActive' /\ ActiveIsReferenced' /\ OwnRecord' /\ Disjoint'
      BY <1>4 DEF CheckPermit, ReferencedIsActive, ActiveIsReferenced, References, OwnRecord, Disjoint
    <2> QED BY <2>2, <2>3, <2>4, <2>5
  <1>5. ASSUME NEW t \in Ops, UpgradePermit(t) PROVE Rest'
    <2> USE <1>5 DEF UpgradePermit, Withdrawn
    <2>1. permit[t].lease \in Ops
      BY DEF PermitKept
    <2>2. HoldsReference'
      BY <2>1, CoordinatorAssumption DEF HoldsReference
    <2>3. PermitKept'
      BY DEF PermitKept
    <2>4. ReferencedIsActive'
      BY DEF ReferencedIsActive, References
    <2>7. ActiveIsReferenced'
      BY CoordinatorAssumption DEF ActiveIsReferenced, References, HoldsReference
    <2>5. NoRecordWhileAsking' /\ Disjoint'
      BY DEF NoRecordWhileAsking, Disjoint
    <2>6. OwnRecord'
      BY DEF OwnRecord, NoRecordWhileAsking
    <2> QED BY <2>2, <2>3, <2>4, <2>5, <2>6, <2>7
  <1>6. ASSUME NEW t \in Ops, ConfirmPermit(t) PROVE Rest'
    <2>1. PICK n \in {"held", "dropped", "declined"} : pc' = [pc EXCEPT ![t] = n]
      BY <1>6, ConfirmEffect
    <2>2. /\ pc[t] = "confirm"
          /\ permit' = [permit EXCEPT ![t] = NoPermit]
          /\ UNCHANGED <<sole, paths, active, lease>>
      BY <1>6, ConfirmEffect
    <2> QED
      BY <2>1, <2>2 DEF HoldsReference, PermitKept, ReferencedIsActive, ActiveIsReferenced, References, NoRecordWhileAsking, OwnRecord, Disjoint
  <1>7. ASSUME NEW t \in Ops, Resolve(t) PROVE Rest'
    BY <1>7 DEF Resolve, HoldsReference, PermitKept, ReferencedIsActive, ActiveIsReferenced, References, NoRecordWhileAsking, OwnRecord, Disjoint
  <1>8. ASSUME NEW t \in Ops, Enter(t) PROVE Rest'
    <2>1. CASE Admitted(t) /\ ~Conflicts(t, paths[t])
      BY <1>8, <2>1, AdmissionKeeps DEF Enter, Earlier
    <2>2. CASE ~(Admitted(t) /\ ~Conflicts(t, paths[t]))
      BY <1>8, <2>2 DEF Enter, Earlier, HoldsReference, PermitKept, ReferencedIsActive, ActiveIsReferenced, References, NoRecordWhileAsking, OwnRecord, Disjoint
    <2> QED BY <2>1, <2>2
  <1>9. ASSUME NEW t \in Ops, Recheck(t) PROVE Rest'
    <2> DEFINE S == Resolved(places[t])
    <2>1. S \in SUBSET Places
      BY DEF Resolved
    <2>2. /\ pc[t] = "woken"
          /\ paths' = [paths EXCEPT ![t] = S]
          /\ UNCHANGED <<sole, permit>>
          /\ \/ pc' = [pc EXCEPT ![t] = "asleep"] /\ UNCHANGED <<active, lease>>
             \/ ~Conflicts(t, S) /\ Admitted(t)
      BY <1>9, RecheckEffect
    <2> HIDE DEF S
    <2>3. CASE ~Conflicts(t, S) /\ Admitted(t)
      BY <2>1, <2>2, <2>3, AdmissionKeeps
    <2>4. CASE pc' = [pc EXCEPT ![t] = "asleep"] /\ UNCHANGED <<active, lease>>
      BY <2>1, <2>2, <2>4 DEF HoldsReference, PermitKept, ReferencedIsActive, ActiveIsReferenced, References, NoRecordWhileAsking, OwnRecord, Disjoint
    <2> QED BY <2>2, <2>3, <2>4
  <1>10. ASSUME NEW t \in Ops, CheckAvailable(t) PROVE Rest'
    BY <1>10 DEF CheckAvailable, Revoked, HoldsReference, PermitKept, ReferencedIsActive, ActiveIsReferenced, References, NoRecordWhileAsking, OwnRecord, Disjoint
  <1>11. ASSUME NEW t \in Ops, Drop(t) PROVE Rest'
    BY <1>11 DEF Drop, Revoked, HoldsReference, PermitKept, ReferencedIsActive, ActiveIsReferenced, References, NoRecordWhileAsking, OwnRecord, Disjoint
  <1>12. ASSUME NEW t \in Ops, Release(t) PROVE Rest'
    <2>1. lease[t] \in active /\ lease[t] \in Ops /\ t \in References(lease[t])
      BY <1>12 DEF Release, LastReference, HoldsReference, ReferencedIsActive, References
    <2>2. HoldsReference' /\ PermitKept'
      BY <1>12, CoordinatorAssumption DEF Release, LastReference, HoldsReference, PermitKept
    <2>3. ReferencedIsActive'
      BY <1>12, <2>1, CoordinatorAssumption DEF Release, LastReference, Forgotten, ReferencedIsActive, References
    <2>7. ActiveIsReferenced'
      BY <1>12, <2>1, CoordinatorAssumption DEF Release, LastReference, Forgotten, ActiveIsReferenced, References
    <2>4. NoRecordWhileAsking'
      <3>1. CASE References(lease[t]) = {t}
        <4>1. /\ active' = active \ {lease[t]}
              /\ pc' = [pc EXCEPT ![t] = IF pc[t] = "declined" THEN "renotify" ELSE "notify"]
          BY <1>12, <3>1 DEF Release, LastReference, Forgotten
        <4>2. pc[t] \in {"declined", "dropped"}
          BY <1>12 DEF Release, LastReference
        <4>3. t \notin active'
          BY <4>1, <2>1, CoordinatorAssumption DEF OwnRecord
        <4>4. \A u \in Ops \ {t} : pc'[u] = pc[u]
          BY <4>1
        <4> QED BY <4>1, <4>3, <4>4 DEF NoRecordWhileAsking
      <3>2. CASE References(lease[t]) # {t}
        <4>1. /\ active' = active
              /\ pc' = [pc EXCEPT ![t] = IF pc[t] = "declined" THEN "request" ELSE "idle"]
          BY <1>12, <3>2 DEF Release, LastReference
        <4> QED BY <4>1, <1>12 DEF Release, LastReference, NoRecordWhileAsking
      <3> QED BY <3>1, <3>2
    <2>5. Disjoint'
      BY <1>12, <2>1 DEF Release, LastReference, Forgotten, Disjoint
    <2>6. OwnRecord'
      BY <1>12, <2>1 DEF Release, LastReference, Forgotten, OwnRecord
    <2> QED BY <2>2, <2>3, <2>4, <2>5, <2>6, <2>7
  <1>13. ASSUME NEW t \in Ops, Notify(t) PROVE Rest'
    BY <1>13 DEF Notify, HoldsReference, PermitKept, ReferencedIsActive, ActiveIsReferenced, References, NoRecordWhileAsking, OwnRecord, Disjoint
  <1>14. ASSUME NEW t \in Ops, ReplaceDirectory(t) PROVE Rest'
    BY <1>14 DEF ReplaceDirectory, HoldsReference, PermitKept, ReferencedIsActive, ActiveIsReferenced, References, NoRecordWhileAsking, OwnRecord, Disjoint
  <1> QED
    BY <1>1, <1>2, <1>3, <1>4, <1>5, <1>6, <1>7, <1>8, <1>9, <1>10, <1>11, <1>12, <1>13, <1>14
    DEF Next, Step
-----------------------------------------------------------------------------
\* What a step leaves to the queue: it touches no record of a waiting restore.
LEMMA QueueKept ==
    ASSUME LeaseInv, WaitingRestores, NEW t \in Ops,
           pc[t] \notin {"asleep", "woken"}, pc'[t] \notin {"asleep", "woken"},
           \A u \in Ops \ {t} : pc'[u] = pc[u],
           UNCHANGED <<waiting, ahead>>,
           \A u \in Ops : pc[u] \in {"asleep", "woken"} => (u \in sole <=> u \in sole')
    PROVE  WaitingRestores'
  BY DEF WaitingRestores, LeaseInv, Typed

\* The lease a step forgets is nobody's request.
LEMMA ForgottenIsNotWaiting ==
    ASSUME LeaseInv, NEW t \in Ops, Release(t)
    PROVE  /\ pc[t] \in {"dropped", "declined"}
           /\ \E n \in {"notify", "renotify", "request", "idle"} :
                /\ pc' = [pc EXCEPT ![t] = n]
                /\ n \notin {"notify", "renotify"} => active' = active /\ sole' = sole
           /\ UNCHANGED <<waiting, ahead>>
           /\ \A u \in Ops : pc[u] \in {"asleep", "woken"} => (u \in sole <=> u \in sole')
  <1> USE DEF LeaseInv, Typed
  <1>1. pc[t] \in {"dropped", "declined"} /\ UNCHANGED <<waiting, ahead>>
    BY DEF Release, LastReference
  <1>2. lease[t] \in active
    BY <1>1 DEF HoldsReference, ReferencedIsActive, Referring
  <1>3. CASE References(lease[t]) = {t}
    <2>1. /\ sole' = sole \ {lease[t]}
          /\ pc' = [pc EXCEPT ![t] = IF pc[t] = "declined" THEN "renotify" ELSE "notify"]
      BY <1>3 DEF Release, LastReference, Forgotten
    <2>2. \A u \in Ops : pc[u] \in {"asleep", "woken"} => u # lease[t]
      BY <1>2 DEF NoRecordWhileAsking, Asking
    <2> QED BY <1>1, <2>1, <2>2
  <1>4. CASE References(lease[t]) # {t}
    <2>1. /\ sole' = sole /\ active' = active
          /\ pc' = [pc EXCEPT ![t] = IF pc[t] = "declined" THEN "request" ELSE "idle"]
      BY <1>4 DEF Release, LastReference
    <2> QED BY <1>1, <2>1
  <1> QED BY <1>3, <1>4

\* The ids stay an order on the waiting restores.
LEMMA QueueStep ==
    ASSUME LeaseInv, WaitingRestores, [Next]_vars
    PROVE  WaitingRestores'
  <1> USE DEF LeaseInv, Typed, requests, queue, guards
  <1>1. CASE UNCHANGED vars
    BY <1>1 DEF vars, WaitingRestores
  <1>2. ASSUME NEW t \in Ops, Begin(t) PROVE WaitingRestores'
    <2>1. \A u \in Ops : pc[u] \in {"asleep", "woken"} => (u \in sole <=> u \in sole')
      BY <1>2 DEF Begin, Fresh
    <2> QED BY <1>2, <2>1, QueueKept DEF Begin, Fresh
  <1>3. ASSUME NEW t \in Ops, NEW g \in Ops, Lend(g, t) PROVE WaitingRestores'
    BY <1>3, QueueKept DEF Lend, Fresh
  <1>4. ASSUME NEW t \in Ops, CheckPermit(t) PROVE WaitingRestores'
    BY <1>4, QueueKept DEF CheckPermit, Withdrawn
  <1>5. ASSUME NEW t \in Ops, UpgradePermit(t) PROVE WaitingRestores'
    BY <1>5, QueueKept DEF UpgradePermit, Withdrawn
  <1>6. ASSUME NEW t \in Ops, ConfirmPermit(t) PROVE WaitingRestores'
    BY <1>6, ConfirmEffect, QueueKept
  <1>7. ASSUME NEW t \in Ops, Resolve(t) PROVE WaitingRestores'
    BY <1>7, QueueKept DEF Resolve
  <1>8. ASSUME NEW t \in Ops, Enter(t) PROVE WaitingRestores'
    <2>1. pc[t] = "resolved" /\ UNCHANGED sole /\ t \notin waiting
      BY <1>8 DEF Enter, Earlier, WaitingRestores
    <2>2. CASE Admitted(t)
      BY <2>1, <2>2 DEF Admitted, WaitingRestores
    <2>3. CASE ~Admitted(t)
      <3>1. /\ waiting' = IF t \in sole THEN waiting \cup {t} ELSE waiting
            /\ ahead' = [ahead EXCEPT ![t] = IF t \in sole THEN waiting ELSE {}]
            /\ pc' = [pc EXCEPT ![t] = "asleep"]
        BY <1>8, <2>3 DEF Enter, Earlier
      <3>2. CASE t \in sole
        BY <3>1, <3>2, <2>1 DEF WaitingRestores
      <3>3. CASE t \notin sole
        BY <3>1, <3>3, <2>1 DEF WaitingRestores
      <3> QED BY <3>2, <3>3
    <2> QED BY <2>2, <2>3
  <1>9. ASSUME NEW t \in Ops, Recheck(t) PROVE WaitingRestores'
    <2>1. pc[t] = "woken" /\ UNCHANGED sole
      BY <1>9, RecheckEffect
    <2>2. CASE Admitted(t)
      BY <2>1, <2>2 DEF Admitted, WaitingRestores
    <2>3. CASE pc' = [pc EXCEPT ![t] = "asleep"] /\ UNCHANGED <<waiting, ahead>>
      BY <2>1, <2>3 DEF WaitingRestores
    <2> QED BY <1>9, <2>2, <2>3, RecheckEffect
  <1>10. ASSUME NEW t \in Ops, CheckAvailable(t) PROVE WaitingRestores'
    BY <1>10, QueueKept DEF CheckAvailable, Revoked
  <1>11. ASSUME NEW t \in Ops, Drop(t) PROVE WaitingRestores'
    BY <1>11, QueueKept DEF Drop, Revoked
  <1>12. ASSUME NEW t \in Ops, Release(t) PROVE WaitingRestores'
    <2>1. PICK n \in {"notify", "renotify", "request", "idle"} : pc' = [pc EXCEPT ![t] = n]
      BY <1>12, ForgottenIsNotWaiting
    <2>2. pc[t] \notin {"asleep", "woken"} /\ pc'[t] \notin {"asleep", "woken"}
      BY <1>12, <2>1, ForgottenIsNotWaiting
    <2>3. \A u \in Ops \ {t} : pc'[u] = pc[u]
      BY <2>1
    <2> QED BY <1>12, <2>2, <2>3, ForgottenIsNotWaiting, QueueKept
  <1>13. ASSUME NEW t \in Ops, Notify(t) PROVE WaitingRestores'
    BY <1>13 DEF Notify, WaitingRestores
  <1>14. ASSUME NEW t \in Ops, ReplaceDirectory(t) PROVE WaitingRestores'
    BY <1>14, QueueKept DEF ReplaceDirectory
  <1> QED
    BY <1>1, <1>2, <1>3, <1>4, <1>5, <1>6, <1>7, <1>8, <1>9, <1>10, <1>11, <1>12, <1>13, <1>14
    DEF Next, Step

-----------------------------------------------------------------------------
\* A step away from the queue keeps every excuse there was.
LEMMA ExcuseKept ==
    ASSUME LeaseInv, OrderedExcuse, NEW t \in Ops,
           pc[t] \notin {"asleep", "woken", "notify", "renotify"}, pc'[t] # "asleep",
           \A u \in Ops \ {t} : pc'[u] = pc[u],
           active # {} => active' # {} \/ pc'[t] \in {"notify", "renotify"},
           UNCHANGED <<waiting, ahead>>,
           \A u \in Ops : pc[u] \in {"asleep", "woken"} => (u \in sole <=> u \in sole')
    PROVE  OrderedExcuse'
  <1> SUFFICES ASSUME NEW u \in Ops, pc'[u] = "asleep" PROVE Excused(u)'
    BY DEF OrderedExcuse
  <1>1. u # t /\ pc[u] = "asleep" /\ Excused(u)
    BY DEF OrderedExcuse
  <1>2. CASE active # {}
    BY <1>2 DEF Excused
  <1>3. ASSUME NEW v \in Ops, pc[v] \in {"notify", "renotify"} PROVE Excused(u)'
    BY <1>3 DEF Excused
  <1>4. CASE \E v \in AheadOf(u) : pc[v] = "woken"
    <2>1. AheadOf(u) \subseteq Ops /\ AheadOf(u) = AheadOf(u)'
      BY <1>1 DEF AheadOf, LeaseInv, Typed
    <2> QED BY <1>4, <2>1 DEF Excused, AheadOf
  <1> QED BY <1>1, <1>2, <1>3, <1>4 DEF Excused, AheadOf

\* Going to sleep, for the first time or again, leaves an excuse: the operation's
\* own obstacle is an active lease or an earlier restore, which has one itself.
LEMMA SleepExcused ==
    ASSUME LeaseInv, WaitingRestores, OrderedExcuse, WaitingRestores', NEW t \in Ops,
           pc[t] \in {"resolved", "woken"}, pc' = [pc EXCEPT ![t] = "asleep"],
           NEW restores, restores = IF pc[t] = "resolved" THEN waiting ELSE AheadOf(t),
           active # {} \/ restores # {},
           \/ pc[t] = "woken" /\ UNCHANGED <<waiting, ahead>>
           \/ /\ pc[t] = "resolved"
              /\ waiting' = IF t \in sole THEN waiting \cup {t} ELSE waiting
              /\ ahead' = [ahead EXCEPT ![t] = IF t \in sole THEN waiting ELSE {}],
           UNCHANGED <<active, sole>>
    PROVE  OrderedExcuse'
  <1> USE DEF LeaseInv, Typed
  <1>1. CASE active # {}
    BY <1>1 DEF OrderedExcuse, Excused
  <1>2. CASE \E v \in Ops : pc[v] \in {"notify", "renotify"}
    BY <1>2 DEF OrderedExcuse, Excused
  <1>3. CASE active = {} /\ ~\E v \in Ops : pc[v] \in {"notify", "renotify"}
    <2>1. AheadOf(t)' = restores /\ restores \subseteq waiting /\ t \notin restores
      BY DEF AheadOf, WaitingRestores
    <2>2. PICK w \in restores : w \in waiting /\ w # t /\ w \in Ops
      BY <1>3, <2>1
    <2>3. \E v \in restores : pc[v] = "woken"
      <3>1. CASE pc[w] = "woken"
        BY <3>1, <2>2
      <3>2. CASE pc[w] = "asleep"
        <4>1. PICK v \in ahead[w] : pc[v] = "woken"
          BY <1>3, <2>2, <3>2 DEF OrderedExcuse, Excused, WaitingRestores
        <4>2. ahead[w] \subseteq restores
          BY <2>2 DEF WaitingRestores, AheadOf
        <4> QED BY <4>1, <4>2
      <3> QED BY <2>2, <3>1, <3>2 DEF WaitingRestores
    <2>4. PICK v \in restores : pc'[v] = "woken" /\ v # t /\ v \in Ops /\ v \in waiting
      BY <2>1, <2>3
    <2>5. ASSUME NEW u \in Ops, pc'[u] = "asleep" PROVE Excused(u)'
      <3>1. CASE u = t
        BY <2>1, <2>4, <3>1 DEF Excused, AheadOf
      <3>2. CASE u # t
        <4>1. pc[u] = "asleep" /\ AheadOf(u) \subseteq AheadOf(u)' /\ AheadOf(u) \subseteq Ops
          BY <2>5, <3>2 DEF AheadOf
        <4>2. PICK x \in AheadOf(u) : pc[x] = "woken"
          BY <1>3, <4>1 DEF OrderedExcuse, Excused, AheadOf
        <4>3. CASE x # t
          BY <4>1, <4>2, <4>3 DEF Excused, AheadOf
        <4>4. CASE x = t
          <5>1. pc[t] = "woken" /\ t \in waiting /\ t \in sole
            BY <4>1, <4>2, <4>4, <3>2 DEF AheadOf, WaitingRestores
          <5>2. restores = ahead[t] /\ v \in ahead[t]
            BY <5>1, <2>4 DEF AheadOf
          <5>3. v \in AheadOf(u)
            BY <4>2, <4>4, <5>2 DEF AheadOf, WaitingRestores
          <5> QED BY <5>3, <4>1, <2>4 DEF Excused, AheadOf
        <4> QED BY <4>3, <4>4
      <3> QED BY <3>1, <3>2
    <2> QED BY <2>5 DEF OrderedExcuse
  <1> QED BY <1>1, <1>2, <1>3

\* No step leaves a sleeper without anybody to wake it.
LEMMA ExcuseStep ==
    ASSUME LeaseInv, WaitingRestores, OrderedExcuse, [Next]_vars
    PROVE  OrderedExcuse'
  <1> USE DEF LeaseInv, Typed, requests, queue, guards
  <1>0. WaitingRestores'
    BY QueueStep
  <1>1. CASE UNCHANGED vars
    BY <1>1 DEF vars, OrderedExcuse, Excused
  <1>2. ASSUME NEW t \in Ops, Begin(t) PROVE OrderedExcuse'
    <2>1. \A u \in Ops : pc[u] \in {"asleep", "woken"} => (u \in sole <=> u \in sole')
      BY <1>2 DEF Begin, Fresh
    <2> QED BY <1>2, <2>1, ExcuseKept DEF Begin, Fresh
  <1>3. ASSUME NEW t \in Ops, NEW g \in Ops, Lend(g, t) PROVE OrderedExcuse'
    BY <1>3, ExcuseKept DEF Lend, Fresh
  <1>4. ASSUME NEW t \in Ops, CheckPermit(t) PROVE OrderedExcuse'
    BY <1>4, ExcuseKept DEF CheckPermit, Withdrawn
  <1>5. ASSUME NEW t \in Ops, UpgradePermit(t) PROVE OrderedExcuse'
    BY <1>5, ExcuseKept DEF UpgradePermit, Withdrawn
  <1>6. ASSUME NEW t \in Ops, ConfirmPermit(t) PROVE OrderedExcuse'
    BY <1>6, ConfirmEffect, ExcuseKept
  <1>7. ASSUME NEW t \in Ops, Resolve(t) PROVE OrderedExcuse'
    BY <1>7, ExcuseKept DEF Resolve
  <1>8. ASSUME NEW t \in Ops, Enter(t) PROVE OrderedExcuse'
    <2>1. CASE Admitted(t)
      BY <2>1 DEF Admitted, OrderedExcuse, Excused
    <2>2. CASE ~Admitted(t)
      <3>1. /\ pc[t] = "resolved" /\ UNCHANGED <<active, sole>>
            /\ waiting' = IF t \in sole THEN waiting \cup {t} ELSE waiting
            /\ ahead' = [ahead EXCEPT ![t] = IF t \in sole THEN waiting ELSE {}]
            /\ pc' = [pc EXCEPT ![t] = "asleep"]
            /\ Conflicts(t, paths[t]) \/ RestorePrecedes(t, paths[t], waiting)
        BY <1>8, <2>2 DEF Enter, Earlier
      <3>2. active # {} \/ waiting # {}
        BY <3>1 DEF Conflicts, RestorePrecedes
      <3> QED BY <1>0, <3>1, <3>2, SleepExcused
    <2> QED BY <2>1, <2>2
  <1>9. ASSUME NEW t \in Ops, Recheck(t) PROVE OrderedExcuse'
    <2> DEFINE S == Resolved(places[t])
    <2>1. CASE Admitted(t)
      BY <2>1 DEF Admitted, OrderedExcuse, Excused
    <2>2. CASE ~Admitted(t)
      <3>1. /\ pc[t] = "woken" /\ UNCHANGED <<active, sole, waiting, ahead>>
            /\ pc' = [pc EXCEPT ![t] = "asleep"]
            /\ Conflicts(t, S) \/ RestorePrecedes(t, S, AheadOf(t))
        BY <1>9, <2>2, RecheckEffect
      <3>2. active # {} \/ AheadOf(t) # {}
        BY <3>1 DEF Conflicts, RestorePrecedes
      <3> QED BY <1>0, <3>1, <3>2, SleepExcused
    <2> QED BY <2>1, <2>2
  <1>10. ASSUME NEW t \in Ops, CheckAvailable(t) PROVE OrderedExcuse'
    BY <1>10, ExcuseKept DEF CheckAvailable, Revoked
  <1>11. ASSUME NEW t \in Ops, Drop(t) PROVE OrderedExcuse'
    BY <1>11, ExcuseKept DEF Drop, Revoked
  <1>12. ASSUME NEW t \in Ops, Release(t) PROVE OrderedExcuse'
    BY <1>12, ForgottenIsNotWaiting, ExcuseKept
  <1>13. ASSUME NEW t \in Ops, Notify(t) PROVE OrderedExcuse'
    BY <1>13 DEF Notify, OrderedExcuse
  <1>14. ASSUME NEW t \in Ops, ReplaceDirectory(t) PROVE OrderedExcuse'
    BY <1>14, ExcuseKept DEF ReplaceDirectory
  <1> QED
    BY <1>1, <1>2, <1>3, <1>4, <1>5, <1>6, <1>7, <1>8, <1>9, <1>10, <1>11, <1>12, <1>13, <1>14
    DEF Next, Step

-----------------------------------------------------------------------------
\* The inductive invariant of the coordinator.
THEOREM Invariance == Spec => []IInv
  <1>1. IInv /\ [Next]_vars => IInv'
    BY LeaseStep, FlagStep, QueueStep, ExcuseStep DEF IInv
  <1> QED BY InitInv, <1>1, PTL DEF Spec

\* Every variable of the coordinator keeps its type.
THEOREM TypeCorrect == Spec => []TypeOK
  <1>1. IInv => TypeOK
    BY DEF IInv, LeaseInv, Typed, Flagged, TypeOK
  <1> QED BY Invariance, <1>1, PTL

\* A restore, and whoever it lent its authority to, shares no place with anybody
\* else at work, however the guards and the permits were dropped.
THEOREM RestoresAreAlone == Spec => []RestoresAlone
  <1>1. IInv => RestoresAlone
    BY DEF IInv, LeaseInv, RestoresAlone, ReferencedIsActive, Disjoint
  <1> QED BY Invariance, <1>1, PTL

\* No wake-up is lost: a sleeper always has somebody who will wake it.
THEOREM WakeupIsOwed == Spec => []WakeupOwed
  <1>1. IInv => WakeupOwed
    BY DEF IInv, LeaseInv, Typed, WaitingRestores, OrderedExcuse, Excused, WakeupOwed
  <1> QED BY Invariance, <1>1, PTL

\* Nobody replaces a directory below an admitted writer's scope.
THEOREM ScopesAreStable == Spec => ScopeStable
  <1>1. IInv /\ [Next]_vars =>
          [\A t \in Ops : lease[t] # NoOp /\ lease[t] \notin sole =>
              \A p \in paths[lease[t]] : link'[p] = link[p]]_vars
    <2> SUFFICES ASSUME IInv, Next, NEW t \in Ops, lease[t] # NoOp, lease[t] \notin sole,
                        NEW p \in paths[lease[t]]
                 PROVE  link'[p] = link[p]
      BY DEF IInv
    <2> USE DEF IInv, LeaseInv, Typed
    <2>1. CASE UNCHANGED link
      BY <2>1
    <2>2. ASSUME NEW u \in Ops, ReplaceDirectory(u) PROVE link'[p] = link[p]
      <3>1. u \in sole /\ u \in active /\ lease[t] \in active
        BY <2>2, CoordinatorAssumption DEF ReplaceDirectory, ReferencedIsActive
      <3>2. p \notin paths[u]
        BY <3>1 DEF Disjoint
      <3> QED BY <2>2, <3>2 DEF ReplaceDirectory
    <2>3. (\E u \in Ops : ReplaceDirectory(u)) \/ UNCHANGED link
      <3>1. ASSUME NEW u \in Ops, ConfirmPermit(u) \/ Recheck(u) PROVE UNCHANGED link
        BY <3>1, ConfirmEffect, RecheckEffect
      <3> QED BY <3>1 DEF Next, Step, Begin, Lend, CheckPermit, UpgradePermit, Resolve, Enter, Earlier,
              CheckAvailable, Drop, Release, Notify
    <2> QED BY <2>1, <2>2, <2>3
  <1> QED BY Invariance, <1>1, PTL DEF Spec, ScopeStable
-----------------------------------------------------------------------------
\* The refinement's view of a state: scopes of the active leases, and users.
lockScope == [l \in Ops |-> IF l \in active THEN paths[l] ELSE {}]
lockUsers == [l \in Ops |-> References(l)]

\* The grants of the lock are the active records.
LEMMA ActiveAreGranted ==
    ASSUME LeaseInv
    PROVE  Lock!Granted = active
  <1> USE DEF LeaseInv, Typed
  <1>1. \A l \in Ops : References(l) # {} <=> l \in active
    BY CoordinatorAssumption DEF ReferencedIsActive, ActiveIsReferenced, References
  <1>2. Lock!Granted = {l \in Ops : References(l) # {}}
    BY DEF Lock!Granted
  <1> QED BY <1>1, <1>2

\* An admission is a grant of the lock, to an operation that had none.
LEMMA AdmissionGrants ==
    ASSUME LeaseInv, NEW t \in Ops, NEW S \in SUBSET Places,
           pc[t] \in {"resolved", "woken"},
           ~Conflicts(t, S), paths' = [paths EXCEPT ![t] = S],
           UNCHANGED sole, Admitted(t)
    PROVE  Lock!Grant(t, S, TRUE) \/ Lock!Grant(t, S, FALSE)
  <1> USE DEF LeaseInv, Typed, Admitted
  <1>1. t \notin active /\ lease[t] = NoOp
    BY DEF NoRecordWhileAsking, Asking, HoldsReference, Referring
  <1>2. lockUsers[t] = {}
    BY <1>1, CoordinatorAssumption DEF lockUsers, References, ReferencedIsActive
  <1>3. lockUsers' = [lockUsers EXCEPT ![t] = {t}]
    <2>1. \A u \in Ops : References(u)' = IF u = t THEN References(t) \cup {t} ELSE References(u)
      BY <1>1, CoordinatorAssumption DEF References
    <2> QED BY <1>2, <2>1 DEF lockUsers
  <1>4. lockScope' = [lockScope EXCEPT ![t] = S]
    BY DEF lockScope
  <1>5. (sole \cap active)' = IF t \in sole THEN (sole \cap active) \cup {t} ELSE sole \cap active
    OBVIOUS
  <1>6. \A h \in Ops : h \in active /\ (t \in sole \/ h \in sole) => S \cap lockScope[h] = {}
    BY DEF Conflicts, lockScope
  <1>7. CASE t \in sole
    BY <1>2, <1>3, <1>4, <1>5, <1>6, <1>7, ActiveAreGranted DEF Lock!Grant, lockScope, lockUsers
  <1>8. CASE t \notin sole
    BY <1>2, <1>3, <1>4, <1>5, <1>6, <1>8, ActiveAreGranted DEF Lock!Grant, lockScope, lockUsers
  <1> QED BY <1>7, <1>8
\* A step that touches neither a record nor a reference is no step of the lock.
LEMMA LockStutters ==
    ASSUME LeaseInv, UNCHANGED <<active, lease, sole>>,
           \A l \in active : paths'[l] = paths[l]
    PROVE  UNCHANGED <<lockScope, sole \cap active, lockUsers>>
  BY DEF LeaseInv, Typed, lockScope, lockUsers, References

\* The upgrade of a permit joins a lease that is still in use (WritePermit::acquire).
LEMMA UpgradeJoins ==
    ASSUME LeaseInv, NEW t \in Ops, NEW l \in Ops, pc[t] = "upgrade", References(l) # {},
           lease' = [lease EXCEPT ![t] = l], UNCHANGED <<active, sole, paths>>
    PROVE  Lock!Join(l, t)
  <1> USE DEF LeaseInv, Typed
  <1>1. lease[t] = NoOp
    BY DEF HoldsReference, Referring
  <1>2. \A u \in Ops : References(u)' = IF u = l THEN References(u) \cup {t} ELSE References(u)
    BY <1>1, CoordinatorAssumption DEF References
  <1>3. lockUsers' = [lockUsers EXCEPT ![l] = lockUsers[l] \cup {t}]
    BY <1>2 DEF lockUsers
  <1>4. UNCHANGED <<lockScope, sole \cap active>>
    BY DEF lockScope
  <1> QED BY <1>3, <1>4 DEF Lock!Join, lockUsers, lockScope

\* The end of a reference leaves the lock, the last one ends the grant.
LEMMA ReleaseLeaves ==
    ASSUME LeaseInv, NEW t \in Ops, Release(t)
    PROVE  Lock!Leave(lease[t], t)
  <1> USE DEF LeaseInv, Typed
  <1> DEFINE l == lease[t]
  <1>1. l \in Ops /\ l \in active /\ t \in References(l)
    BY DEF Release, LastReference, HoldsReference, Referring, ReferencedIsActive, References
  <1>2. lease' = [lease EXCEPT ![t] = NoOp]
    BY DEF Release, LastReference
  <1>3. \A u \in Ops : References(u)' = IF u = l THEN References(u) \ {t} ELSE References(u)
    BY <1>1, <1>2, CoordinatorAssumption DEF References
  <1>4. lockUsers' = [lockUsers EXCEPT ![l] = lockUsers[l] \ {t}]
    BY <1>1, <1>3 DEF lockUsers
  <1>5. t \in lockUsers[l]
    BY <1>1 DEF lockUsers
  <1>6. CASE References(l) = {t}
    <2>1. active' = active \ {l} /\ paths' = [paths EXCEPT ![l] = {}] /\ sole' = sole \ {l}
      BY <1>6 DEF Release, LastReference, Forgotten
    <2>2. lockScope' = [lockScope EXCEPT ![l] = {}]
      BY <1>1, <2>1 DEF lockScope
    <2>3. (sole \cap active)' = (sole \cap active) \ {l}
      BY <2>1
    <2>4. lockUsers[l] = {t}
      BY <1>1, <1>6 DEF lockUsers
    <2> QED BY <1>4, <1>5, <2>2, <2>3, <2>4 DEF Lock!Leave, lockScope, lockUsers
  <1>7. CASE References(l) # {t}
    <2>1. UNCHANGED <<active, paths, sole>>
      BY <1>7 DEF Release, LastReference
    <2>2. UNCHANGED <<lockScope, sole \cap active>>
      BY <2>1 DEF lockScope
    <2>3. lockUsers[l] # {t}
      BY <1>1, <1>7 DEF lockUsers
    <2> QED BY <1>4, <1>5, <2>2, <2>3 DEF Lock!Leave, lockScope, lockUsers
  <1> QED BY <1>6, <1>7

\* Every step of the coordinator is one of the lock or none.
LEMMA LockStep ==
    ASSUME LeaseInv, [Next]_vars
    PROVE  Lock!Next \/ UNCHANGED <<lockScope, sole \cap active, lockUsers>>
  <1> USE DEF LeaseInv, Typed, requests, queue, guards
  <1> DEFINE Goal == Lock!Next \/ UNCHANGED <<lockScope, sole \cap active, lockUsers>>
  <1>a. ASSUME NEW t \in Ops, NEW S \in SUBSET Places, Lock!Grant(t, S, TRUE) \/ Lock!Grant(t, S, FALSE) PROVE Goal
    BY <1>a DEF Lock!Next
  <1>1. CASE UNCHANGED vars
    BY <1>1, LockStutters DEF vars
  <1>2. ASSUME NEW t \in Ops, Begin(t) PROVE Goal
    <2>1. t \notin active /\ UNCHANGED <<active, lease, paths>> /\ (sole' = sole \/ sole' = sole \cup {t})
      BY <1>2 DEF Begin, Fresh
    <2>2. UNCHANGED <<lockScope, sole \cap active, lockUsers>>
      BY <2>1 DEF lockScope, lockUsers, References
    <2> QED BY <2>2
  <1>3. ASSUME NEW t \in Ops, NEW g \in Ops, Lend(g, t) PROVE Goal
    BY <1>3, LockStutters DEF Lend
  <1>4. ASSUME NEW t \in Ops, CheckPermit(t) PROVE Goal
    BY <1>4, LockStutters DEF CheckPermit
  <1>5. ASSUME NEW t \in Ops, UpgradePermit(t) PROVE Goal
    <2>1. permit[t].lease \in Ops
      BY <1>5 DEF UpgradePermit, PermitKept
    <2>2. CASE References(permit[t].lease) # {}
      BY <1>5, <2>1, <2>2, UpgradeJoins DEF UpgradePermit, Lock!Next
    <2>3. CASE References(permit[t].lease) = {}
      BY <1>5, <2>3, LockStutters DEF UpgradePermit
    <2> QED BY <2>2, <2>3
  <1>6. ASSUME NEW t \in Ops, ConfirmPermit(t) PROVE Goal
    BY <1>6, ConfirmEffect, LockStutters
  <1>7. ASSUME NEW t \in Ops, Resolve(t) PROVE Goal
    <2>1. t \notin active
      BY <1>7 DEF Resolve, NoRecordWhileAsking, Asking
    <2> QED BY <1>7, <2>1, LockStutters DEF Resolve
  <1>8. ASSUME NEW t \in Ops, Enter(t) PROVE Goal
    <2>1. CASE Admitted(t) /\ ~Conflicts(t, paths[t])
      <3>1. pc[t] = "resolved" /\ UNCHANGED <<sole, paths>>
        BY <1>8 DEF Enter, Earlier
      <3>2. paths[t] \in SUBSET Places /\ paths' = [paths EXCEPT ![t] = paths[t]]
        BY <3>1
      <3> QED BY <2>1, <3>1, <3>2, <1>a, AdmissionGrants
    <2>2. CASE ~(Admitted(t) /\ ~Conflicts(t, paths[t]))
      BY <1>8, <2>2, LockStutters DEF Enter, Earlier
    <2> QED BY <2>1, <2>2
  <1>9. ASSUME NEW t \in Ops, Recheck(t) PROVE Goal
    <2> DEFINE S == Resolved(places[t])
    <2>1. S \in SUBSET Places
      BY DEF Resolved
    <2>2. /\ pc[t] = "woken"
          /\ paths' = [paths EXCEPT ![t] = S]
          /\ UNCHANGED sole
          /\ \/ UNCHANGED <<active, lease>>
             \/ ~Conflicts(t, S) /\ Admitted(t)
      BY <1>9, RecheckEffect
    <2> HIDE DEF S
    <2>3. CASE ~Conflicts(t, S) /\ Admitted(t)
      BY <2>1, <2>2, <2>3, <1>a, AdmissionGrants
    <2>4. CASE UNCHANGED <<active, lease>>
      <3>1. t \notin active
        BY <2>2 DEF NoRecordWhileAsking, Asking
      <3> QED BY <2>1, <2>2, <2>4, <3>1, LockStutters
    <2> QED BY <2>2, <2>3, <2>4
  <1>10. ASSUME NEW t \in Ops, CheckAvailable(t) PROVE Goal
    BY <1>10, LockStutters DEF CheckAvailable, Revoked
  <1>11. ASSUME NEW t \in Ops, Drop(t) PROVE Goal
    BY <1>11, LockStutters DEF Drop, Revoked
  <1>12. ASSUME NEW t \in Ops, Release(t) PROVE Goal
    <2>1. lease[t] \in Ops
      BY <1>12 DEF Release, LastReference, HoldsReference, Referring
    <2> QED BY <1>12, <2>1, ReleaseLeaves DEF Lock!Next
  <1>13. ASSUME NEW t \in Ops, Notify(t) PROVE Goal
    BY <1>13, LockStutters DEF Notify
  <1>14. ASSUME NEW t \in Ops, ReplaceDirectory(t) PROVE Goal
    BY <1>14, LockStutters DEF ReplaceDirectory
  <1> QED
    BY <1>1, <1>2, <1>3, <1>4, <1>5, <1>6, <1>7, <1>8, <1>9, <1>10, <1>11, <1>12, <1>13, <1>14
    DEF Next, Step

\* The coordinator is a readers-writers lock over places (DataLock).
THEOREM Implements == Spec => ImplementsLock
  <1>1. Init => Lock!Init
    BY CoordinatorAssumption DEF Init, Lock!Init, References
  <1>2. IInv /\ [Next]_vars => [Lock!Next]_(Lock!lock)
    BY LockStep DEF IInv, Lock!lock, lockScope, lockUsers
  <1> QED BY Invariance, <1>1, <1>2, PTL DEF Spec, ImplementsLock, Lock!Spec
=============================================================================
