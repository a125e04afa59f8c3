------------------------ MODULE ScheduledScans_proofs ------------------------
(***************************************************************************)
(* Proofs about ScheduledScans for every set of schedules, scans and tick  *)
(* processes.                                                              *)
(***************************************************************************)
EXTENDS ScheduledScans, FiniteSetTheorems, TLAPS

\* Where a tick is says what it has in hand: it triggers a schedule once.
InHand == \A k \in Ticks :
    /\ pc[k] \in {"idle", "select"} => todo[k] = {} /\ inserted[k] = {}
    /\ pc[k] \in {"idle", "select", "loop"} => current[k] = NoSchedule
    /\ pc[k] = "write" => current[k] \in Schedules \ ScheduledBy(k)
    /\ current[k] \notin todo[k]
    /\ todo[k] \cap ScheduledBy(k) = {}
    /\ \A p, q \in inserted[k] : p[1] = q[1] \/ p[2] = q[2] => p = q

\* What is inserted and not committed is nobody else's and in no table yet; what is
\* swept is in the table.
Unseen == \A k \in Ticks :
    /\ \A p \in inserted[k] : status[p[2]] = "absent"
    /\ \A s \in swept[k] : status[s] # "absent"
    /\ \A j \in Ticks \ {k} : \A p \in inserted[k], q \in inserted[j] : p[2] # q[2]

\* The active scans of a schedule, and the ticks that may add one to them.
ActiveOf(h) == {s \in ActiveScans : origin[s] = h}
Pending(h) == {k \in Ticks : h \in todo[k] \/ current[k] = h \/ h \in ScheduledBy(k)}

\* While a schedule is due, whoever may commit a scan of it has swept the ones before.
SweptBefore == \A h \in Schedules : due[h] =>
    /\ ActiveOf(h) \subseteq old
    /\ \A k \in Ticks : pc[k] # "idle" => ActiveOf(h) \subseteq swept[k]

\* Once it is not, every tick adds at most one.
Counted == \A h \in Schedules :
    /\ Cardinality(ActiveOf(h)) <= Cardinality(Ticks)
    /\ ~due[h] => Cardinality(ActiveOf(h)) + Cardinality(Pending(h)) <= Cardinality(Ticks)

IInv == TypeOK /\ InHand /\ Unseen /\ SweptBefore /\ Counted
-----------------------------------------------------------------------------
(* Counting.                                                                *)

\* What is counted is finite.
LEMMA Finite ==
    ASSUME NEW h
    PROVE  /\ IsFiniteSet(ActiveOf(h)) /\ Cardinality(ActiveOf(h)) \in Nat
           /\ IsFiniteSet(Pending(h)) /\ Cardinality(Pending(h)) \in Nat
           /\ IsFiniteSet(Ticks) /\ Cardinality(Ticks) \in Nat
<1>1. ActiveOf(h) \subseteq Scans /\ Pending(h) \subseteq Ticks
  BY DEF ActiveOf, ActiveScans, Pending
<1>2. QED
  BY <1>1, ScheduledAssumption, FS_Subset, FS_CardinalityType

\* A step that commits nothing and lets no schedule come due: fewer active scans, and
\* no tick takes up a schedule that is not due.
LEMMA NothingAdded ==
    ASSUME IInv, due' = due, old \subseteq old',
           \A h \in Schedules : ActiveOf(h)' \subseteq ActiveOf(h),
           \A h \in Schedules : due[h] => \A k \in Ticks : pc'[k] # "idle" =>
               ActiveOf(h)' \subseteq swept'[k],
           \A h \in Schedules : ~due[h] => Pending(h)' \subseteq Pending(h)
    PROVE  SweptBefore' /\ Counted'
<1>1. SweptBefore'
  BY DEF IInv, SweptBefore
<1>2. ASSUME NEW h \in Schedules
      PROVE  /\ Cardinality(ActiveOf(h)') \in Nat
             /\ Cardinality(ActiveOf(h)') <= Cardinality(ActiveOf(h))
  BY Finite, FS_Subset, FS_CardinalityType
<1>3. ASSUME NEW h \in Schedules, ~due[h]
      PROVE  /\ Cardinality(Pending(h)') \in Nat
             /\ Cardinality(Pending(h)') <= Cardinality(Pending(h))
  BY <1>3, Finite, FS_Subset, FS_CardinalityType
<1>4. Counted'
  <2> SUFFICES ASSUME NEW h \in Schedules
               PROVE  /\ Cardinality(ActiveOf(h)') <= Cardinality(Ticks)
                      /\ ~due[h] => Cardinality(ActiveOf(h)') + Cardinality(Pending(h)')
                                      <= Cardinality(Ticks)
    BY DEF Counted
  <2>1. /\ Cardinality(ActiveOf(h)') <= Cardinality(ActiveOf(h))
        /\ Cardinality(ActiveOf(h)') \in Nat
    BY <1>2
  <2>2. ~due[h] => /\ Cardinality(Pending(h)') \in Nat
                   /\ Cardinality(Pending(h)') <= Cardinality(Pending(h))
    BY <1>3
  <2>3. QED
    BY <2>1, <2>2, Finite DEF IInv, Counted
<1>5. QED
  BY <1>1, <1>4

-----------------------------------------------------------------------------
(* The commit of a tick's session.                                          *)

\* What it makes of the row of each scan and each schedule.
LEMMA Committed ==
    ASSUME IInv, NEW k \in Ticks, CommitSession(k)
    PROVE  /\ \A p \in inserted[k] :
                /\ p[1] \in Schedules /\ p[2] \in Scans /\ p = << p[1], p[2] >>
                /\ status[p[2]] = "absent" /\ status'[p[2]] = "queued"
                /\ origin'[p[2]] = p[1] /\ last'[p[1]] = p[2]
           /\ \A s \in Scans \ CreatedBy(k) :
                /\ origin'[s] = origin[s]
                /\ status'[s] = IF s \in swept[k] THEN "failed" ELSE status[s]
           /\ \A h \in Schedules : due'[h] = (due[h] /\ h \notin ScheduledBy(k))
           /\ swept' = [swept EXCEPT ![k] = {}] /\ inserted' = [inserted EXCEPT ![k] = {}]
<1>1. \A p \in inserted[k] :
        /\ p[1] \in Schedules /\ p[2] \in Scans /\ p = << p[1], p[2] >>
        /\ status[p[2]] = "absent"
        /\ p[1] \in ScheduledBy(k) /\ p[2] \in CreatedBy(k)
  BY DEF IInv, TypeOK, Unseen, ScheduledBy, CreatedBy
<1>2. \A p, q \in inserted[k] : p[1] = q[1] \/ p[2] = q[2] => p = q
  BY DEF IInv, InHand
<1>3. ASSUME NEW p \in inserted[k]
      PROVE  status'[p[2]] = "queued" /\ origin'[p[2]] = p[1] /\ last'[p[1]] = p[2]
  <2>1. status'[p[2]] = "queued"
    BY <1>1 DEF CommitSession
  <2>2. origin'[p[2]] = CHOOSE h \in Schedules : << h, p[2] >> \in inserted[k]
    BY <1>1 DEF CommitSession
  <2>3. \A h \in Schedules : << h, p[2] >> \in inserted[k] => h = p[1]
    BY <1>1, <1>2
  <2>4. last'[p[1]] = CHOOSE s \in Scans : << p[1], s >> \in inserted[k]
    BY <1>1 DEF CommitSession
  <2>5. \A s \in Scans : << p[1], s >> \in inserted[k] => s = p[2]
    BY <1>1, <1>2
  <2>6. QED
    BY <1>1, <2>1, <2>2, <2>3, <2>4, <2>5
<1>4. \A s \in Scans \ CreatedBy(k) :
        /\ origin'[s] = origin[s]
        /\ status'[s] = IF s \in swept[k] THEN "failed" ELSE status[s]
  BY DEF CommitSession
<1>5. \A h \in Schedules : due'[h] = (due[h] /\ h \notin ScheduledBy(k))
  BY DEF CommitSession
<1>6. QED
  BY <1>1, <1>3, <1>4, <1>5 DEF CommitSession

\* The active scans of a schedule afterwards: the swept ones are gone, and there is one
\* more of a schedule the tick has triggered.
LEMMA ActiveAfter ==
    ASSUME IInv, NEW k \in Ticks, CommitSession(k), NEW h \in Schedules
    PROVE  /\ h \notin ScheduledBy(k) => ActiveOf(h)' \subseteq ActiveOf(h) \ swept[k]
           /\ h \in ScheduledBy(k) =>
                \E s \in Scans : ActiveOf(h)' \subseteq (ActiveOf(h) \ swept[k]) \cup {s}
<1>1. ASSUME NEW s \in ActiveOf(h)', s \notin CreatedBy(k)
      PROVE  s \in ActiveOf(h) \ swept[k]
  BY <1>1, Committed DEF ActiveOf, ActiveScans, Active
<1>2. ASSUME NEW s \in ActiveOf(h)', s \in CreatedBy(k)
      PROVE  \E p \in inserted[k] : p[1] = h /\ p[2] = s
  BY <1>2, Committed DEF ActiveOf, ActiveScans, CreatedBy
<1>3. CASE h \notin ScheduledBy(k)
  BY <1>1, <1>2, <1>3 DEF ScheduledBy
<1>4. CASE h \in ScheduledBy(k)
  <2>1. PICK p \in inserted[k] : p[1] = h
    BY <1>4 DEF ScheduledBy
  <2>2. \A q \in inserted[k] : q[1] = h => q[2] = p[2]
    BY <2>1 DEF IInv, InHand
  <2>3. p[2] \in Scans
    BY Committed
  <2>4. QED
    BY <1>1, <1>2, <1>4, <2>2, <2>3
<1>5. QED
  BY <1>3, <1>4

\* A commit keeps the rows and the ticks of their types.
LEMMA CommitTypes ==
    ASSUME IInv, NEW k \in Ticks, CommitSession(k)
    PROVE  /\ due' \in [Schedules -> BOOLEAN]
           /\ last' \in [Schedules -> Scans \cup {NoScan}]
           /\ status' \in [Scans -> Status]
           /\ origin' \in [Scans -> Schedules \cup {NoSchedule}]
           /\ swept' \in [Ticks -> SUBSET Scans]
           /\ inserted' \in [Ticks -> SUBSET (Schedules \X Scans)]
<1>1. \A s \in CreatedBy(k) : \E p \in inserted[k] : p[2] = s
  BY DEF CreatedBy
<1>2. \A h \in ScheduledBy(k) : \E p \in inserted[k] : p[1] = h
  BY DEF ScheduledBy
<1>3. \A s \in Scans : status'[s] \in Status /\ origin'[s] \in Schedules \cup {NoSchedule}
  <2> SUFFICES ASSUME NEW s \in Scans
               PROVE  status'[s] \in Status /\ origin'[s] \in Schedules \cup {NoSchedule}
    OBVIOUS
  <2>1. CASE s \in CreatedBy(k)
    BY <1>1, <2>1, Committed DEF Status, Active
  <2>2. CASE s \notin CreatedBy(k)
    BY <2>2, Committed DEF Status, IInv, TypeOK
  <2>3. QED
    BY <2>1, <2>2
<1>4. \A h \in Schedules : last'[h] \in Scans \cup {NoScan}
  <2> SUFFICES ASSUME NEW h \in Schedules PROVE last'[h] \in Scans \cup {NoScan}
    OBVIOUS
  <2>1. CASE h \in ScheduledBy(k)
    BY <1>2, <2>1, Committed
  <2>2. CASE h \notin ScheduledBy(k)
    BY <2>2 DEF CommitSession, IInv, TypeOK
  <2>3. QED
    BY <2>1, <2>2
<1>5. QED
  BY <1>3, <1>4 DEF CommitSession, IInv, TypeOK

\* The two steps that commit: a rejection in the loop, and the end of the tick.
Commits(k) ==
    /\ pc[k] = "loop"
    /\ CommitSession(k)
    /\ pc' \in [Ticks -> TickPc] /\ \A j \in Ticks \ {k} : pc'[j] = pc[j]
    /\ pc'[k] = "loop" \/ (pc'[k] = "idle" /\ todo'[k] = {})
    /\ todo' \in [Ticks -> SUBSET Schedules] /\ \A j \in Ticks \ {k} : todo'[j] = todo[j]
    /\ todo'[k] \subseteq todo[k]
    /\ UNCHANGED << enabled, old, admitting, current >>

LEMMA CommitStep == ASSUME IInv, NEW k \in Ticks, Commits(k) PROVE IInv'
<1> USE DEF Commits
<1>1. TypeOK'
  BY CommitTypes DEF IInv, TypeOK, CommitSession
<1>2. /\ \A j \in Ticks \ {k} : swept'[j] = swept[j] /\ inserted'[j] = inserted[j]
      /\ swept'[k] = {} /\ inserted'[k] = {} /\ current[k] = NoSchedule
  BY DEF CommitSession, IInv, TypeOK, InHand
<1>3. InHand'
  BY <1>2 DEF IInv, TypeOK, InHand, ScheduledBy
<1>4. Unseen'
  <2>1. ASSUME NEW j \in Ticks \ {k}
        PROVE  /\ \A p \in inserted[j] : status'[p[2]] = "absent"
               /\ \A s \in swept[j] : status'[s] # "absent"
    <3>1. \A p \in inserted[j] : p[2] \in Scans \ CreatedBy(k) /\ p[2] \notin swept[k]
      BY DEF IInv, TypeOK, Unseen, CreatedBy
    <3>2. \A s \in swept[j] : s \in Scans \ CreatedBy(k)
      BY DEF IInv, TypeOK, Unseen, CreatedBy
    <3>3. QED
      BY <3>1, <3>2, Committed DEF IInv, Unseen
  <2>2. QED
    BY <1>2, <2>1 DEF IInv, Unseen
<1>5. \A h \in Schedules : Pending(h)' \subseteq Pending(h)
  BY <1>2 DEF Pending, ScheduledBy
<1>6. \A h \in Schedules \ ScheduledBy(k) :
        due'[h] = due[h] /\ ActiveOf(h)' \subseteq ActiveOf(h) \ swept[k]
  BY Committed, ActiveAfter DEF IInv, TypeOK
<1>7. SweptBefore'
  <2> SUFFICES ASSUME NEW h \in Schedules, due'[h]
               PROVE  /\ ActiveOf(h)' \subseteq old
                      /\ \A j \in Ticks : pc'[j] # "idle" => ActiveOf(h)' \subseteq swept'[j]
    BY DEF SweptBefore
  <2>1. h \notin ScheduledBy(k) /\ due[h]
    BY Committed
  <2>2. ActiveOf(h)' \subseteq ActiveOf(h) \ swept[k] /\ ActiveOf(h) \subseteq old
    BY <1>6, <2>1 DEF IInv, SweptBefore
  <2>3. ActiveOf(h) \subseteq swept[k]
    BY <2>1 DEF IInv, SweptBefore
  <2>4. ActiveOf(h)' = {}
    BY <2>2, <2>3
  <2>5. QED
    BY <2>4
<1>8. ASSUME NEW h \in ScheduledBy(k), h \in Schedules
      PROVE  Cardinality(ActiveOf(h)') + Cardinality(Pending(h)') <= Cardinality(Ticks)
  <2>1. PICK s \in Scans : ActiveOf(h)' \subseteq (ActiveOf(h) \ swept[k]) \cup {s}
    BY <1>8, ActiveAfter
  <2>2. k \in Pending(h) /\ k \notin Pending(h)'
    BY <1>2, <1>8, ScheduledAssumption DEF Pending, IInv, InHand, ScheduledBy, TypeOK
  <2>3. Pending(h)' \subseteq Pending(h) \ {k} /\ Pending(h) \subseteq Ticks
    BY <1>5, <1>8, <2>2 DEF Pending
  <2>4. /\ Cardinality(Pending(h)') \in Nat
        /\ Cardinality(Pending(h)') <= Cardinality(Pending(h)) - 1
        /\ Cardinality(Pending(h)) <= Cardinality(Ticks)
    <3>1. IsFiniteSet(Pending(h) \ {k})
          /\ Cardinality(Pending(h) \ {k}) = Cardinality(Pending(h)) - 1
      BY <2>2, Finite, FS_RemoveElement
    <3>2. QED
      BY <2>3, <3>1, Finite, FS_Subset, FS_CardinalityType
  <2>5. CASE due[h]
    <3>1. ActiveOf(h) \subseteq swept[k]
      BY <1>8, <2>5 DEF IInv, SweptBefore
    <3>2. ActiveOf(h)' \subseteq {s}
      BY <2>1, <3>1
    <3>3. Cardinality(ActiveOf(h)') \in Nat /\ Cardinality(ActiveOf(h)') <= 1
      <4>1. IsFiniteSet({s}) /\ Cardinality({s}) = 1
        BY FS_Singleton
      <4>2. QED
        BY <3>2, <4>1, FS_Subset, FS_CardinalityType
    <3>4. QED
      BY <2>4, <3>3, Finite
  <2>6. CASE ~due[h]
    <3>1. ActiveOf(h)' \subseteq ActiveOf(h) \cup {s}
      BY <2>1
    <3>2. /\ IsFiniteSet(ActiveOf(h) \cup {s})
          /\ Cardinality(ActiveOf(h) \cup {s}) <= Cardinality(ActiveOf(h)) + 1
          /\ Cardinality(ActiveOf(h) \cup {s}) \in Nat
      <4>1. /\ IsFiniteSet(ActiveOf(h) \cup {s})
            /\ Cardinality(ActiveOf(h) \cup {s}) = IF s \in ActiveOf(h) THEN Cardinality(ActiveOf(h))
                                                  ELSE Cardinality(ActiveOf(h)) + 1
        BY Finite, FS_AddElement
      <4>2. QED
        BY <4>1, Finite
    <3>3. /\ Cardinality(ActiveOf(h)') \in Nat
          /\ Cardinality(ActiveOf(h)') <= Cardinality(ActiveOf(h)) + 1
      BY <3>1, <3>2, FS_Subset, FS_CardinalityType, Finite
    <3>4. Cardinality(ActiveOf(h)) + Cardinality(Pending(h)) <= Cardinality(Ticks)
      BY <1>8, <2>6 DEF IInv, Counted
    <3>5. QED
      BY <2>4, <3>3, <3>4, Finite
  <2>7. QED
    BY <2>5, <2>6 DEF IInv, TypeOK
<1>9. Counted'
  <2> SUFFICES ASSUME NEW h \in Schedules
               PROVE  /\ Cardinality(ActiveOf(h)') <= Cardinality(Ticks)
                      /\ ~due'[h] => Cardinality(ActiveOf(h)') + Cardinality(Pending(h)')
                                       <= Cardinality(Ticks)
    BY DEF Counted
  <2>0. /\ Cardinality(ActiveOf(h)') \in Nat /\ Cardinality(Pending(h)') \in Nat
        /\ Cardinality(Pending(h)') <= Cardinality(Pending(h))
    <3>1. IsFiniteSet(ActiveOf(h)')
      BY ScheduledAssumption, FS_Subset DEF ActiveOf, ActiveScans
    <3>2. QED
      BY <1>5, <3>1, Finite, FS_Subset, FS_CardinalityType
  <2>1. CASE h \in ScheduledBy(k)
    BY <1>8, <2>0, <2>1, Finite
  <2>2. CASE h \notin ScheduledBy(k)
    <3>1. ActiveOf(h)' \subseteq ActiveOf(h) /\ due'[h] = due[h]
      BY <1>6, <2>2
    <3>2. Cardinality(ActiveOf(h)') <= Cardinality(ActiveOf(h))
      BY <3>1, Finite, FS_Subset
    <3>3. QED
      BY <2>0, <3>1, <3>2, Finite DEF IInv, Counted
  <2>3. QED
    BY <2>1, <2>2
<1>10. QED
  BY <1>1, <1>3, <1>4, <1>7, <1>9 DEF IInv

-----------------------------------------------------------------------------
(* The other steps of a tick.                                               *)

\* The sweep takes every active scan of a schedule that is due.
LEMMA BeginStep == ASSUME IInv, NEW k \in Ticks, Begin(k) PROVE IInv'
<1> USE DEF Begin, schedule, scan
<1>1. TypeOK'
  BY DEF IInv, TypeOK, TickPc
<1>2. InHand' /\ Unseen'
  BY DEF IInv, TypeOK, InHand, Unseen, ScheduledBy, Stale, Active
<1>3. SweptBefore' /\ Counted'
  <2>1. \A h \in Schedules : ActiveOf(h)' = ActiveOf(h) /\ Pending(h)' = Pending(h)
    BY DEF ActiveOf, ActiveScans, Pending, ScheduledBy
  <2>2. \A h \in Schedules : due[h] => ActiveOf(h) \subseteq swept'[k]
    BY DEF IInv, TypeOK, SweptBefore, ActiveOf, ActiveScans, Stale
  <2>3. \A h \in Schedules : due[h] =>
          \A j \in Ticks : pc'[j] # "idle" => ActiveOf(h)' \subseteq swept'[j]
    BY <2>1, <2>2 DEF IInv, TypeOK, SweptBefore
  <2>4. QED
    BY <2>1, <2>3, NothingAdded
<1>4. QED
  BY <1>1, <1>2, <1>3 DEF IInv

\* Only schedules that are due are taken up.
LEMMA SelectStep == ASSUME IInv, NEW k \in Ticks, SelectDue(k) PROVE IInv'
<1> USE DEF SelectDue, schedule, scan
<1>1. TypeOK'
  BY DEF IInv, TypeOK, TickPc
<1>2. InHand' /\ Unseen'
  BY ScheduledAssumption DEF IInv, TypeOK, InHand, Unseen, ScheduledBy
<1>3. SweptBefore' /\ Counted'
  <2>1. \A h \in Schedules : ActiveOf(h)' = ActiveOf(h)
    BY DEF ActiveOf, ActiveScans
  <2>2. \A h \in Schedules : ~due[h] => Pending(h)' \subseteq Pending(h)
    BY DEF IInv, TypeOK, Pending, ScheduledBy
  <2>3. \A h \in Schedules : due[h] =>
          \A j \in Ticks : pc'[j] # "idle" => ActiveOf(h)' \subseteq swept'[j]
    BY <2>1 DEF IInv, TypeOK, SweptBefore
  <2>4. QED
    BY <2>1, <2>2, <2>3, NothingAdded
<1>4. QED
  BY <1>1, <1>2, <1>3 DEF IInv

\* A refused schedule is dropped, an admitted one comes into the tick's hands.
LEMMA LoopStep ==
    ASSUME IInv, NEW k \in Ticks, NEW h \in Schedules, Refuse(k, h) \/ Admit(k, h)
    PROVE  IInv'
<1> USE DEF Refuse, Admit, schedule, scan
<1>1. TypeOK'
  BY DEF IInv, TypeOK, TickPc
<1>2. InHand' /\ Unseen'
  BY DEF IInv, TypeOK, InHand, Unseen, ScheduledBy
<1>3. SweptBefore' /\ Counted'
  <2>1. \A g \in Schedules : ActiveOf(g)' = ActiveOf(g)
    BY DEF ActiveOf, ActiveScans
  <2>2. \A g \in Schedules : Pending(g)' \subseteq Pending(g)
    BY DEF IInv, TypeOK, Pending, ScheduledBy
  <2>3. \A g \in Schedules : due[g] =>
          \A j \in Ticks : pc'[j] # "idle" => ActiveOf(g)' \subseteq swept'[j]
    BY <2>1 DEF IInv, TypeOK, SweptBefore
  <2>4. QED
    BY <2>1, <2>2, <2>3, NothingAdded
<1>4. QED
  BY <1>1, <1>2, <1>3 DEF IInv

\* The new row is nobody else's, the schedule not triggered before.
LEMMA TriggerStep == ASSUME IInv, NEW k \in Ticks, NEW s \in Scans, Trigger(k, s) PROVE IInv'
<1> USE DEF Trigger, schedule, scan
<1>1. current[k] \in Schedules \ ScheduledBy(k)
  BY DEF IInv, InHand
<1>2. TypeOK'
  BY <1>1 DEF IInv, TypeOK, TickPc
<1>3. /\ inserted'[k] = inserted[k] \cup {<< current[k], s >>}
      /\ \A j \in Ticks \ {k} : inserted'[j] = inserted[j]
      /\ ScheduledBy(k)' = ScheduledBy(k) \cup {current[k]}
      /\ \A j \in Ticks \ {k} : ScheduledBy(j)' = ScheduledBy(j)
  <2>1. /\ inserted'[k] = inserted[k] \cup {<< current[k], s >>}
        /\ \A j \in Ticks \ {k} : inserted'[j] = inserted[j]
    BY DEF IInv, TypeOK
  <2>2. << current[k], s >>[1] = current[k]
    OBVIOUS
  <2>3. {p[1] : p \in inserted[k] \cup {<< current[k], s >>}}
          = {p[1] : p \in inserted[k]} \cup {current[k]}
    BY <2>2
  <2>4. QED
    BY <2>1, <2>3 DEF ScheduledBy
<1>4. \A j \in Ticks : \A p \in inserted[j] : p[2] # s
  BY DEF Uncommitted, CreatedBy
<1>5. \A p \in inserted[k] : p[1] # current[k]
  BY <1>1 DEF ScheduledBy
<1>6. InHand'
  BY <1>3, <1>4, <1>5 DEF IInv, TypeOK, InHand
<1>7. Unseen'
  BY <1>3, <1>4 DEF IInv, TypeOK, Unseen
<1>8. SweptBefore' /\ Counted'
  <2>1. \A g \in Schedules : ActiveOf(g)' = ActiveOf(g)
    BY DEF ActiveOf, ActiveScans
  <2>2. \A g \in Schedules : Pending(g)' \subseteq Pending(g)
    BY <1>3 DEF Pending
  <2>3. \A g \in Schedules : due[g] =>
          \A j \in Ticks : pc'[j] # "idle" => ActiveOf(g)' \subseteq swept'[j]
    BY <2>1 DEF IInv, TypeOK, SweptBefore
  <2>4. QED
    BY <2>1, <2>2, <2>3, NothingAdded
<1>9. QED
  BY <1>2, <1>6, <1>7, <1>8 DEF IInv

\* The inline run never finds a committed row: the scans it could work are still absent.
LEMMA RunStep == ASSUME IInv, NEW k \in Ticks, RunInline(k) PROVE IInv'
<1> USE DEF RunInline, schedule
<1>1. status' = status
  <2>1. \A s \in Scans : status'[s] = status[s]
    BY DEF IInv, TypeOK, Unseen
  <2>2. QED
    BY <2>1 DEF IInv, TypeOK
<1>2. TypeOK'
  BY <1>1 DEF IInv, TypeOK, TickPc
<1>3. InHand' /\ Unseen'
  BY <1>1, ScheduledAssumption DEF IInv, TypeOK, InHand, Unseen, ScheduledBy
<1>4. SweptBefore' /\ Counted'
  <2>1. \A g \in Schedules : ActiveOf(g)' = ActiveOf(g)
    BY <1>1 DEF ActiveOf, ActiveScans
  <2>2. \A g \in Schedules : Pending(g)' \subseteq Pending(g)
    BY ScheduledAssumption DEF IInv, TypeOK, Pending, ScheduledBy
  <2>3. \A g \in Schedules : due[g] =>
          \A j \in Ticks : pc'[j] # "idle" => ActiveOf(g)' \subseteq swept'[j]
    BY <2>1 DEF IInv, TypeOK, SweptBefore
  <2>4. QED
    BY <2>1, <2>2, <2>3, NothingAdded
<1>5. QED
  BY <1>2, <1>3, <1>4 DEF IInv

\* What an aborted tick had in hand is gone.
LEMMA AbortStep == ASSUME IInv, NEW k \in Ticks, Abort(k) PROVE IInv'
<1> USE DEF Abort, schedule, scan
<1>1. TypeOK'
  BY DEF IInv, TypeOK, TickPc
<1>2. InHand' /\ Unseen'
  BY ScheduledAssumption DEF IInv, TypeOK, InHand, Unseen, ScheduledBy
<1>3. SweptBefore' /\ Counted'
  <2>1. \A g \in Schedules : ActiveOf(g)' = ActiveOf(g)
    BY DEF ActiveOf, ActiveScans
  <2>2. \A g \in Schedules : Pending(g)' \subseteq Pending(g)
    BY ScheduledAssumption DEF IInv, TypeOK, Pending, ScheduledBy
  <2>3. \A g \in Schedules : due[g] =>
          \A j \in Ticks : pc'[j] # "idle" => ActiveOf(g)' \subseteq swept'[j]
    BY <2>1 DEF IInv, TypeOK, SweptBefore
  <2>4. QED
    BY <2>1, <2>2, <2>3, NothingAdded
<1>4. QED
  BY <1>1, <1>2, <1>3 DEF IInv

-----------------------------------------------------------------------------
(* Around the ticks.                                                        *)

\* Scans end or grow old, schedules are switched, admission changes.
LEMMA AroundStep ==
    ASSUME IInv,
           \/ Recover \/ Decide
           \/ \E s \in Scans : Cancel(s) \/ GrowOld(s)
           \/ \E h \in Schedules : Toggle(h)
    PROVE  IInv'
<1> USE DEF Recover, Decide, Cancel, GrowOld, Toggle, schedule, scan, tick
<1>1. UNCHANGED << due, last, origin, tick >> /\ old \subseteq old'
  OBVIOUS
<1>2. \A s \in Scans : \/ status'[s] = status[s]
                       \/ status[s] \in Active /\ status'[s] \in {"failed", "cancelled"}
  BY DEF IInv, TypeOK, Stale
<1>3. TypeOK'
  BY DEF IInv, TypeOK, Status
<1>4. InHand'
  BY <1>1 DEF IInv, InHand, ScheduledBy
<1>5. Unseen'
  BY <1>1, <1>2 DEF IInv, TypeOK, Unseen, Active
<1>6. SweptBefore' /\ Counted'
  <2>1. \A h \in Schedules : ActiveOf(h)' \subseteq ActiveOf(h)
    BY <1>1, <1>2 DEF ActiveOf, ActiveScans, Active
  <2>2. \A h \in Schedules : Pending(h)' = Pending(h)
    BY <1>1 DEF Pending, ScheduledBy
  <2>3. \A h \in Schedules : due[h] =>
          \A k \in Ticks : pc'[k] # "idle" => ActiveOf(h)' \subseteq swept'[k]
    BY <1>1, <2>1 DEF IInv, SweptBefore
  <2>4. QED
    BY <1>1, <2>1, <2>2, <2>3, NothingAdded
<1>7. QED
  BY <1>3, <1>4, <1>5, <1>6 DEF IInv

\* A schedule comes due when all its active scans are old, and swept by those under way.
LEMMA DueStep == ASSUME IInv, NEW h \in Schedules, ComeDue(h) PROVE IInv'
<1> USE DEF ComeDue, scan, tick
<1>1. TypeOK' /\ InHand' /\ Unseen'
  BY DEF IInv, TypeOK, InHand, Unseen, ScheduledBy
<1>2. \A g : ActiveOf(g)' = ActiveOf(g) /\ Pending(g)' = Pending(g)
  BY DEF ActiveOf, ActiveScans, Pending, ScheduledBy
<1>3. \A g \in Schedules \ {h} : due'[g] = due[g]
  BY DEF IInv, TypeOK
<1>4. SweptBefore'
  <2>1. ActiveOf(h) \subseteq old /\ \A k \in Ticks : pc[k] # "idle" => ActiveOf(h) \subseteq swept[k]
    BY DEF ActiveOf
  <2>2. QED
    BY <1>2, <1>3, <2>1 DEF IInv, SweptBefore
<1>5. Counted'
  BY <1>2, <1>3 DEF IInv, TypeOK, Counted
<1>6. QED
  BY <1>1, <1>4, <1>5 DEF IInv

-----------------------------------------------------------------------------
\* At the start there is nothing to count.
LEMMA InitIInv == Init => IInv
<1> SUFFICES ASSUME Init PROVE IInv
  OBVIOUS
<1>1. TypeOK
  BY DEF Init, TypeOK, Status, TickPc
<1>2. InHand /\ Unseen
  BY DEF Init, InHand, Unseen, ScheduledBy
<1>3. \A h \in Schedules : ActiveOf(h) = {} /\ Pending(h) = {}
  BY ScheduledAssumption DEF Init, ActiveOf, ActiveScans, Active, Pending, ScheduledBy
<1>4. SweptBefore
  BY <1>3 DEF SweptBefore
<1>5. Counted
  <2>1. \A h \in Schedules : Cardinality(ActiveOf(h)) = 0 /\ Cardinality(Pending(h)) = 0
    BY <1>3, FS_EmptySet
  <2>2. QED
    BY <2>1, Finite DEF Counted
<1>6. QED
  BY <1>1, <1>2, <1>4, <1>5 DEF IInv

LEMMA NextIInv == ASSUME IInv, [Next]_vars PROVE IInv'
<1>1. ASSUME NEW k \in Ticks, Step(k) \/ Abort(k) PROVE IInv'
  <2>1. ASSUME Finish(k) \/ \E h \in Schedules : Reject(k, h) PROVE Commits(k)
    BY <2>1 DEF Finish, Reject, Commits, IInv, TypeOK, TickPc
  <2>2. QED
    BY <1>1, <2>1, BeginStep, SelectStep, RunStep, CommitStep, LoopStep, TriggerStep, AbortStep
       DEF Step
<1>2. ASSUME \/ Recover \/ Decide
             \/ \E s \in Scans : Cancel(s) \/ GrowOld(s)
             \/ \E h \in Schedules : Toggle(h)
      PROVE  IInv'
  BY <1>2, AroundStep
<1>3. ASSUME NEW h \in Schedules, ComeDue(h) PROVE IInv'
  BY <1>3, DueStep
<1>4. CASE UNCHANGED vars
  <2> USE <1>4 DEF vars, schedule, scan, tick
  <2>1. TypeOK' /\ InHand' /\ Unseen'
    BY DEF IInv, TypeOK, InHand, Unseen, ScheduledBy
  <2>2. \A h : ActiveOf(h)' = ActiveOf(h) /\ Pending(h)' = Pending(h)
    BY DEF ActiveOf, ActiveScans, Pending, ScheduledBy
  <2>3. QED
    BY <2>1, <2>2 DEF IInv, SweptBefore, Counted
<1>5. QED
  BY <1>1, <1>2, <1>3, <1>4 DEF Next

\* The invariant of the ticks, their uncommitted rows and the counts.
THEOREM Invariance == Spec => []IInv
<1>1. IInv /\ [Next]_vars => IInv'
  BY NextIInv
<1>2. QED
  BY <1>1, InitIInv, PTL DEF Spec

\* However many ticks overlap, a schedule has at most one active scan for each of them.
THEOREM OverlapsBounded == Spec => []TicksBounded
<1>1. IInv => TicksBounded
  BY DEF IInv, Counted, ActiveOf, TicksBounded, OverlapBounded
<1>2. QED
  BY <1>1, Invariance, PTL

\* A schedule stops being due only in the commit of a scan created for it, which it then
\* names as its last.
THEOREM AdvancesWithItsScan == Spec => AdvancedWithItsScan
<1> DEFINE Advanced == \A h \in Schedules : due[h] /\ ~due'[h] =>
                           \E s \in Scans : /\ status[s] = "absent" /\ status'[s] = "queued"
                                            /\ origin'[s] = h /\ last'[h] = s
<1>1. ASSUME IInv, NEW k \in Ticks, CommitSession(k) PROVE Advanced
  <2> SUFFICES ASSUME NEW h \in Schedules, due[h], ~due'[h]
               PROVE  \E s \in Scans : /\ status[s] = "absent" /\ status'[s] = "queued"
                                       /\ origin'[s] = h /\ last'[h] = s
    OBVIOUS
  <2>1. h \in ScheduledBy(k)
    BY <1>1, Committed
  <2>2. PICK p \in inserted[k] : p[1] = h
    BY <2>1 DEF ScheduledBy
  <2>3. QED
    BY <1>1, <2>2, Committed
<1>2. ASSUME due' = due PROVE Advanced
  BY <1>2
<1>3. ASSUME IInv, NEW h \in Schedules, ComeDue(h) PROVE Advanced
  BY <1>3 DEF ComeDue, IInv, TypeOK
<1> HIDE DEF Advanced
<1>4. ASSUME IInv, Next PROVE Advanced \/ UNCHANGED vars
  <2>1. ASSUME NEW k \in Ticks, Step(k) \/ Abort(k) PROVE Advanced
    BY <1>1, <1>2, <1>4, <2>1
       DEF Step, Abort, Begin, SelectDue, RunInline, Finish, Reject, Refuse, Admit, Trigger, schedule
  <2>2. ASSUME \/ Recover \/ Decide
               \/ \E s \in Scans : Cancel(s) \/ GrowOld(s)
               \/ \E h \in Schedules : Toggle(h)
        PROVE  Advanced
    BY <1>2, <2>2 DEF Recover, Decide, Cancel, GrowOld, Toggle, schedule
  <2>3. ASSUME NEW h \in Schedules, ComeDue(h) PROVE Advanced
    BY <1>3, <1>4, <2>3
  <2>4. QED
    BY <1>4, <2>1, <2>2, <2>3 DEF Next
<1>5. IInv /\ [Next]_vars =>
        [\A h \in Schedules : due[h] /\ ~due'[h] =>
            \E s \in Scans : /\ status[s] = "absent" /\ status'[s] = "queued"
                            /\ origin'[s] = h /\ last'[h] = s]_vars
  BY <1>4 DEF Advanced
<1>6. QED
  BY <1>5, Invariance, PTL DEF Spec, AdvancedWithItsScan
=============================================================================
