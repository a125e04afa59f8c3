------------------------- MODULE AsmDiscovery_proofs -------------------------
(***************************************************************************)
(* Proofs about AsmDiscovery for every set of jobs, executions, hosts and  *)
(* addresses.                                                              *)
(***************************************************************************)
EXTENDS AsmDiscovery, TLAPS

\* The sessions are functions of the executions, and what is discovered has a status.
Shapes ==
    /\ items = [e \in Executions |-> items[e]] /\ left = [e \in Executions |-> left[e]]
    /\ under = [e \in Executions |-> under[e]] /\ known = [e \in Executions |-> known[e]]
    /\ inserted = [e \in Executions |-> inserted[e]]
    /\ \A e \in Executions : \A n \in DOMAIN items[e] : items[e][n] \in AssetStatus

\* Only a job that was inserted is dispatched and worked.
Exists ==
    /\ \A j \in Jobs : j \in requests \/ tasks[j] > 0 => status[j] # "absent"
    /\ \A e \in Executions : pc[e] # "idle" => job[e] \in Jobs /\ status[job[e]] # "absent"

\* An execution works only what it has loaded as active, and publishes at its end.
Working == \A e \in Executions :
    /\ pc[e] = "idle" => loaded[e] = "absent"
    /\ pc[e] \in {"loaded", "check", "discover", "save", "finish", "raised"} => loaded[e] \in Active
    /\ e \in scan => pc[e] = "done"

\* The upserts in the order of the list: the root first, the others under it.
Upserted(e) == DOMAIN known[e] \cup inserted[e]
Upserts == \A e \in Executions :
    /\ pc[e] \notin {"save", "finish", "raised"} =>
         left[e] = {} /\ Upserted(e) = {} /\ under[e] = {}
    /\ pc[e] = "finish" => left[e] = {}
    /\ pc[e] \in {"save", "finish"} =>
         /\ Root \in DOMAIN items[e] /\ DOMAIN items[e] = left[e] \cup Upserted(e)
         /\ Root \in left[e] => Upserted(e) = {}
         /\ Upserted(e) \ {Root} \subseteq under[e]
    /\ left[e] \cap Upserted(e) = {}

\* A row that was found stays.
RowsFound == \A e \in Executions : \A n \in DOMAIN known[e] : asset[n].status # "absent"

\* A published job that no longer says so was overtaken by a sweep or worked by
\* another execution.
WorkedAgain == \A e \in scan : status[job[e]] # "completed" =>
    \/ job[e] \in overtaken
    \/ \E o \in Executions \ {e} : job[o] = job[e] /\ loaded[o] \in Active

IInv == /\ InventorySound /\ CompletedBacked
        /\ Shapes /\ Exists /\ Working /\ Upserts /\ RowsFound /\ WorkedAgain
-----------------------------------------------------------------------------
(* One lemma per kind of step.                                              *)

\* What is said of the inventory and of the sessions is kept by what touches neither.
LEMMA InventoryKept ==
    ASSUME IInv, UNCHANGED << asset, scan, finding, items >>
    PROVE  InventoryOfFinished' /\ ParentsKnown'
BY DEF IInv, InventorySound, InventoryOfFinished, ParentsKnown, Probed

LEMMA SessionKept ==
    ASSUME IInv, UNCHANGED << asset, left, items, under, known, inserted >>
    PROVE  Shapes' /\ InsertedOnce' /\ RowsFound'
BY DEF IInv, InventorySound, Shapes, InsertedOnce, HeldByOther, RowsFound

\* Requests, deliveries and sweeps: only the rows of jobs and the queue change.
LEMMA JobStep ==
    ASSUME IInv, \/ \E j \in Jobs : Create(j) \/ Dispatch(j) \/ LoseRequest(j) \/ LoseTask(j) \/ GetOld(j)
                 \/ \E w \in Sweepers : SweepRead(w) \/ SweepWrite(w) \/ SweepFails(w)
    PROVE  IInv'
<1> USE DEF Create, Dispatch, LoseRequest, LoseTask, GetOld, SweepRead, SweepWrite, SweepFails,
            Stuck, database, queue, session, sweep
<1>1. UNCHANGED << asset, scan, finding, pc, session >>
  OBVIOUS
<1>2. TypeOK'
  BY DEF IInv, InventorySound, TypeOK, Active, Settled
<1>3. InventoryOfFinished' /\ ParentsKnown' /\ Shapes' /\ InsertedOnce' /\ RowsFound'
  BY <1>1, InventoryKept, SessionKept
<1>4. \A j \in Jobs : \/ status'[j] = status[j]
                      \/ status[j] = "absent" /\ status'[j] = "queued"
                      \/ /\ status'[j] = "failed"
                         /\ status[j] = "completed" => j \in overtaken'
  BY DEF IInv, InventorySound, TypeOK
<1>5. CompletedBacked'
  BY <1>1, <1>4 DEF IInv, CompletedBacked, Published
<1>6. Exists'
  <2>1. \A e \in Executions : pc'[e] # "idle" => job'[e] \in Jobs /\ status'[job'[e]] # "absent"
    BY <1>1, <1>4 DEF IInv, Exists
  <2>2. \A j \in Jobs : j \in requests' \/ tasks'[j] > 0 => status'[j] # "absent"
    BY <1>4 DEF IInv, InventorySound, TypeOK, Exists, Active
  <2>3. QED
    BY <2>1, <2>2 DEF Exists
<1>7. Working' /\ Upserts'
  BY <1>1 DEF IInv, Working, Upserts, Upserted
<1>8. WorkedAgain'
  <2>1. \A e \in scan : \/ status[job[e]] # "completed" \/ status'[job[e]] = "completed"
                         \/ job[e] \in overtaken'
    BY <1>4 DEF IInv, InventorySound, TypeOK, Working, Exists
  <2>2. overtaken \subseteq overtaken' /\ loaded' = loaded /\ job' = job
    OBVIOUS
  <2>3. QED
    BY <1>1, <2>1, <2>2 DEF IInv, WorkedAgain
<1>9. QED
  BY <1>2, <1>3, <1>5, <1>6, <1>7, <1>8 DEF IInv, InventorySound

\* A delivery is taken: the execution remembers the status it has seen.
LEMMA LoadStep ==
    ASSUME IInv, NEW e \in Executions, NEW j \in Jobs, Load(e, j) PROVE IInv'
<1> USE DEF Load, GoTo, database, queue, session, sweep
<1>1. TypeOK'
  BY DEF IInv, InventorySound, TypeOK
<1>2. InventoryOfFinished' /\ ParentsKnown' /\ Shapes' /\ InsertedOnce' /\ RowsFound'
  BY InventoryKept, SessionKept
<1>3. e \notin scan /\ loaded[e] \notin Active
  BY DEF IInv, Working, Active
<1>4. \A o \in Executions \ {e} : pc'[o] = pc[o] /\ job'[o] = job[o] /\ loaded'[o] = loaded[o]
  BY DEF IInv, InventorySound, TypeOK
<1>5. job'[e] = j /\ loaded'[e] = status[j] /\ pc'[e] = IF Workable(j) THEN "loaded" ELSE "done"
  BY DEF IInv, InventorySound, TypeOK
<1>6. scan \subseteq Executions
  BY DEF IInv, InventorySound, TypeOK
<1>7. CompletedBacked'
  BY <1>3, <1>4, <1>6 DEF IInv, CompletedBacked, Published
<1>8. Exists'
  <2>1. status[j] # "absent"
    BY DEF IInv, Exists
  <2>2. \A i \in Jobs : tasks'[i] > 0 => tasks[i] > 0
    BY DEF IInv, InventorySound, TypeOK
  <2>3. QED
    BY <1>4, <1>5, <2>1, <2>2 DEF IInv, Exists
<1>9. Working'
  BY <1>3, <1>4, <1>5 DEF IInv, Working, Workable
<1>10. Upserts'
  BY <1>4, <1>5 DEF IInv, Upserts, Upserted
<1>11. WorkedAgain'
  BY <1>3, <1>4, <1>6 DEF IInv, WorkedAgain
<1>12. QED
  BY <1>1, <1>2, <1>7, <1>8, <1>9, <1>10, <1>11 DEF IInv, InventorySound

\* What changes of a row worked by an execution that has published nothing.
LEMMA Overwritten ==
    ASSUME IInv, NEW e \in Executions, loaded[e] \in Active, e \notin scan,
           UNCHANGED << job, loaded, scan, overtaken >>,
           \A j \in Jobs \ {job[e]} : status'[j] = status[j],
           status'[job[e]] = status[job[e]] \/ status'[job[e]] \in {"running", "failed"}
    PROVE  CompletedBacked' /\ WorkedAgain'
<1>1. CompletedBacked'
  BY DEF IInv, CompletedBacked, Published
<1>2. WorkedAgain'
  <2> SUFFICES ASSUME NEW f \in scan, status'[job[f]] # "completed"
               PROVE  \/ job[f] \in overtaken
                      \/ \E o \in Executions \ {f} : job[o] = job[f] /\ loaded[o] \in Active
    BY DEF WorkedAgain
  <2>1. f \in Executions /\ f # e /\ job[f] \in Jobs
    BY DEF IInv, InventorySound, TypeOK, Working, Exists
  <2>2. CASE job[f] = job[e]
    BY <2>1, <2>2
  <2>3. CASE job[f] # job[e]
    BY <2>1, <2>3 DEF IInv, WorkedAgain
  <2>4. QED
    BY <2>2, <2>3
<1>3. QED
  BY <1>1, <1>2

\* The steps that move an execution on before it upserts, or that it ends with.
LEMMA PassStep ==
    ASSUME IInv, NEW e \in Executions,
           Start(e) \/ Authorize(e) \/ ScanHosts(e) \/ Raise(e) \/ Fail(e) \/ Die(e)
    PROVE  IInv'
<1> USE DEF Start, Authorize, ScanHosts, Raise, Fail, Die, Forget, GoTo, database, queue, session, sweep
<1>1. TypeOK'
  <2>1. job[e] \in Jobs
    BY DEF IInv, Exists
  <2>2. /\ status' \in [Jobs -> {"absent"} \cup Active \cup Settled] /\ old' \subseteq Jobs
        /\ pc' \in [Executions -> {"idle", "loaded", "check", "discover", "save", "finish",
                                   "raised", "done", "dead"}]
    BY <2>1 DEF IInv, InventorySound, TypeOK, Active, Settled
  <2>3. \A o \in Executions :
          /\ DOMAIN items'[o] \subseteq Names
          /\ left'[o] \cup DOMAIN known'[o] \cup inserted'[o] \subseteq DOMAIN items'[o]
          /\ DOMAIN known'[o] \cap inserted'[o] = {} /\ Root \notin under'[o]
          /\ under'[o] \subseteq DOMAIN known'[o] \cup inserted'[o]
    <3>1. ASSUME NEW o \in Executions
          PROVE  /\ DOMAIN items[o] \subseteq Names
                 /\ left[o] \cup DOMAIN known[o] \cup inserted[o] \subseteq DOMAIN items[o]
                 /\ DOMAIN known[o] \cap inserted[o] = {} /\ Root \notin under[o]
                 /\ under[o] \subseteq DOMAIN known[o] \cup inserted[o]
      BY DEF IInv, InventorySound, TypeOK
    <3>2. CASE Start(e) \/ Authorize(e) \/ ScanHosts(e) \/ Raise(e)
      BY <3>1, <3>2
    <3>3. CASE Fail(e) \/ Die(e)
      <4>1. /\ left'[e] = {} /\ inserted'[e] = {} /\ under'[e] = {} /\ DOMAIN known'[e] = {}
            /\ items' = items
            /\ \A o \in Executions \ {e} : /\ left'[o] = left[o] /\ inserted'[o] = inserted[o]
                                           /\ under'[o] = under[o] /\ known'[o] = known[o]
        BY <3>3 DEF IInv, Shapes
      <4>2. QED
        BY <3>1, <4>1
    <3>4. QED
      BY <3>2, <3>3
  <2>4. QED
    BY <2>2, <2>3 DEF IInv, InventorySound, TypeOK
<1>2. InventoryOfFinished' /\ ParentsKnown'
  BY InventoryKept
<1>3. \A o \in Executions :
        /\ items'[o] = items[o]
        /\ \/ /\ left'[o] = left[o] /\ under'[o] = under[o]
              /\ known'[o] = known[o] /\ inserted'[o] = inserted[o]
           \/ /\ left'[o] = {} /\ under'[o] = {} /\ inserted'[o] = {}
              /\ known'[o] = << >> /\ DOMAIN known'[o] = {}
              /\ o = e /\ pc'[e] \in {"done", "dead"}
  BY DEF IInv, InventorySound, TypeOK, Shapes
<1>4. /\ e \notin scan /\ loaded[e] \in Active /\ pc'[e] # "idle"
      /\ \A o \in Executions \ {e} : pc'[o] = pc[o]
      /\ UNCHANGED << job, loaded, scan, asset, overtaken >>
  BY DEF IInv, InventorySound, TypeOK, Working
<1>5. Shapes'
  BY <1>3 DEF IInv, Shapes
<1>6. InsertedOnce' /\ RowsFound'
  BY <1>3, <1>4 DEF IInv, InventorySound, InsertedOnce, HeldByOther, RowsFound
<1>7. /\ \A j \in Jobs \ {job[e]} : status'[j] = status[j]
      /\ job[e] \in Jobs
      /\ status'[job[e]] = status[job[e]] \/ status'[job[e]] \in {"running", "failed"}
  BY DEF IInv, InventorySound, TypeOK, Exists
<1>8. CompletedBacked' /\ WorkedAgain'
  BY <1>4, <1>7, Overwritten
<1>9. Exists'
  <2>1. requests' = requests /\ tasks' = tasks
    OBVIOUS
  <2>2. \A j \in Jobs : status[j] # "absent" => status'[j] # "absent"
    BY <1>7
  <2>3. pc[e] # "idle"
    OBVIOUS
  <2>4. QED
    BY <1>4, <2>1, <2>2, <2>3 DEF IInv, Exists
<1>10. Working'
  BY <1>4 DEF IInv, Working
<1>11. Upserts'
  <2>1. ASSUME NEW o \in Executions \ {e}
        PROVE  /\ pc'[o] = pc[o] /\ items'[o] = items[o] /\ left'[o] = left[o]
               /\ under'[o] = under[o] /\ Upserted(o)' = Upserted(o)
    BY <1>3, <1>4 DEF Upserted
  <2>2. /\ pc'[e] \notin {"save", "finish", "raised"} =>
             left'[e] = {} /\ Upserted(e)' = {} /\ under'[e] = {}
        /\ pc'[e] = "finish" => left'[e] = {}
        /\ pc'[e] \in {"save", "finish"} =>
             /\ Root \in DOMAIN items'[e] /\ DOMAIN items'[e] = left'[e] \cup Upserted(e)'
             /\ Root \in left'[e] => Upserted(e)' = {}
             /\ Upserted(e)' \ {Root} \subseteq under'[e]
        /\ left'[e] \cap Upserted(e)' = {}
    <3>1. /\ pc[e] \notin {"save", "finish", "raised"} =>
               left[e] = {} /\ Upserted(e) = {} /\ under[e] = {}
          /\ pc[e] \in {"save", "finish"} =>
               /\ Root \in DOMAIN items[e] /\ DOMAIN items[e] = left[e] \cup Upserted(e)
               /\ Root \in left[e] => Upserted(e) = {}
               /\ Upserted(e) \ {Root} \subseteq under[e]
          /\ left[e] \cap Upserted(e) = {}
      BY DEF IInv, Upserts
    <3>3. CASE Fail(e) \/ Die(e)
      <4>1. left'[e] = {} /\ under'[e] = {} /\ Upserted(e)' = {} /\ pc'[e] \in {"done", "dead"}
        BY <3>3 DEF Upserted, IInv, InventorySound, TypeOK, Shapes
      <4>2. QED
        BY <4>1
    <3>4. CASE Start(e) \/ Authorize(e) \/ ScanHosts(e) \/ Raise(e)
      <4>1. /\ left' = left /\ under' = under /\ items' = items /\ Upserted(e)' = Upserted(e)
        BY <3>4 DEF Upserted
      <4>2. /\ pc'[e] \in {"check", "discover"} => pc[e] \in {"loaded", "check"}
            /\ pc'[e] = "finish" => pc[e] = "save" /\ left[e] = {}
            /\ pc'[e] \in {"check", "discover", "raised", "finish"}
        BY <3>4 DEF IInv, InventorySound, TypeOK
      <4>3. QED
        BY <3>1, <4>1, <4>2
    <3>5. QED
      BY <3>3, <3>4
  <2>3. QED
    BY <2>1, <2>2 DEF IInv, Upserts
<1>12. QED
  BY <1>1, <1>2, <1>5, <1>6, <1>8, <1>9, <1>10, <1>11 DEF IInv, InventorySound

\* A union of one set more has the elements of that set more.
LEMMA UnionWithOneMore == ASSUME NEW A, NEW s PROVE UNION (A \cup {s}) = (UNION A) \cup s
<1>1. \A x \in UNION (A \cup {s}) : x \in (UNION A) \cup s
  BY Zenon
<1>2. \A x \in (UNION A) \cup s : x \in UNION (A \cup {s})
  BY Zenon
<1>3. QED
  BY <1>1, <1>2, Zenon

\* What an execution discovers is nobody's inventory yet.
LEMMA DiscoverStep == ASSUME IInv, NEW e \in Executions, Discover(e) PROVE IInv'
<1> USE DEF Discover, GoTo, database, queue, session, sweep
<1>1. PICK ips \in SUBSET Ips, hosts \in SUBSET Hosts : \E probed \in SUBSET hosts :
        \E reached \in SUBSET probed :
          /\ items' = [items EXCEPT ![e] = Surface(ips, hosts, probed, reached)]
          /\ left' = [left EXCEPT ![e] = DOMAIN items'[e]]
  OBVIOUS
<1>2. /\ DOMAIN items'[e] = {Root} \cup ips \cup hosts
      /\ \A n \in DOMAIN items'[e] : items'[e][n] \in AssetStatus
      /\ left'[e] = DOMAIN items'[e]
      /\ \A o \in Executions \ {e} : items'[o] = items[o] /\ left'[o] = left[o]
      /\ items' = [o \in Executions |-> items'[o]] /\ left' = [o \in Executions |-> left'[o]]
  <2>0. PICK probed \in SUBSET hosts : \E reached \in SUBSET probed :
          /\ items' = [items EXCEPT ![e] = Surface(ips, hosts, probed, reached)]
          /\ left' = [left EXCEPT ![e] = DOMAIN items'[e]]
    BY <1>1, Zenon
  <2>1. PICK reached \in SUBSET probed :
          /\ items' = [items EXCEPT ![e] = Surface(ips, hosts, probed, reached)]
          /\ left' = [left EXCEPT ![e] = DOMAIN items'[e]]
    BY <2>0, Zenon
  <2>2. /\ items = [o \in Executions |-> items[o]]
        /\ left = [o \in Executions |-> left[o]]
    BY DEF IInv, Shapes
  <2> DEFINE found == Surface(ips, hosts, probed, reached)
  <2>3. /\ DOMAIN found = {Root} \cup ips \cup hosts
        /\ \A n \in DOMAIN found : found[n] \in AssetStatus
    BY DEF Surface, AssetStatus
  <2> HIDE DEF found
  <2>4. /\ items' = [o \in Executions |-> IF o = e THEN found ELSE items[o]]
        /\ items'[e] = found
    BY <2>1, <2>2 DEF found
  <2>5. left' = [o \in Executions |-> IF o = e THEN DOMAIN items'[e] ELSE left[o]]
    BY <2>1, <2>2
  <2>6. QED
    BY <2>3, <2>4, <2>5
<1>3. /\ e \notin scan /\ pc'[e] = "save" /\ pc[e] = "discover"
      /\ \A o \in Executions \ {e} : pc'[o] = pc[o]
      /\ inserted[e] = {} /\ DOMAIN known[e] = {} /\ under[e] = {}
  BY DEF IInv, InventorySound, TypeOK, Working, Upserts, Upserted
<1>4. TypeOK'
  BY <1>2, <1>3 DEF IInv, InventorySound, TypeOK, Names
<1>5. scan \subseteq Executions \ {e} /\ \A f \in finding : f[2] \in scan
  BY <1>3 DEF IInv, InventorySound, TypeOK, InventoryOfFinished
<1>6. \A o \in scan : items'[o] = items[o]
  BY <1>2, <1>5
<1>7. InventoryOfFinished'
  <2>1. UNION {DOMAIN items'[o] : o \in scan} = UNION {DOMAIN items[o] : o \in scan}
    BY <1>6
  <2>2. \A f \in finding : f[1] \in Probed(f[2])'
    BY <1>5, <1>6 DEF IInv, InventorySound, InventoryOfFinished, Probed
  <2>3. \A n \in Names : asset[n].status # "absent" =>
          \E o \in scan : n \in DOMAIN items'[o] /\ items'[o][n] = asset[n].status
    BY <1>6 DEF IInv, InventorySound, InventoryOfFinished
  <2>4. QED
    BY <1>5, <2>1, <2>2, <2>3 DEF IInv, InventorySound, InventoryOfFinished
<1>8. ParentsKnown' /\ InsertedOnce' /\ RowsFound'
  BY DEF IInv, InventorySound, ParentsKnown, InsertedOnce, HeldByOther, RowsFound
<1>9. Shapes'
  BY <1>2 DEF IInv, Shapes
<1>10. CompletedBacked' /\ WorkedAgain'
  BY DEF IInv, CompletedBacked, Published, WorkedAgain
<1>11. Exists' /\ Working'
  BY <1>3 DEF IInv, Exists, Working
<1>12. Upserts'
  BY <1>2, <1>3 DEF IInv, Upserts, Upserted
<1>13. QED
  BY <1>4, <1>7, <1>8, <1>9, <1>10, <1>11, <1>12 DEF IInv, InventorySound

\* An upsert: the row is found or inserted, the name comes off the list.
Upserting(e, n) ==
    /\ pc[e] = "save" /\ NextInList(e, n)
    /\ left' = [left EXCEPT ![e] = @ \ {n}]
    /\ PlaceUnder(e, n)
    /\ UNCHANGED << database, queue, pc, job, loaded, items, sweep >>

LEMMA UpsertKept ==
    ASSUME IInv, NEW e \in Executions, NEW n \in Names, Upserting(e, n),
           \A o \in Executions \ {e} : known'[o] = known[o] /\ inserted'[o] = inserted[o],
           known' = [o \in Executions |-> known'[o]],
           inserted' = [o \in Executions |-> inserted'[o]],
           DOMAIN known'[e] \cup inserted'[e] = Upserted(e) \cup {n},
           DOMAIN known'[e] \cap inserted'[e] = {}
    PROVE  /\ TypeOK' /\ InventoryOfFinished' /\ ParentsKnown' /\ CompletedBacked'
           /\ Shapes' /\ Exists' /\ Working' /\ Upserts' /\ WorkedAgain'
<1> USE DEF Upserting, NextInList, database, queue, sweep
<1>1. /\ n \in left[e] /\ (Root \in left[e] => n = Root)
      /\ left'[e] = left[e] \ {n} /\ \A o \in Executions \ {e} : left'[o] = left[o]
      /\ left' = [o \in Executions |-> left'[o]]
  BY DEF IInv, Shapes
<1>2. /\ under'[e] = IF n # Root /\ Root \in Upserted(e) THEN under[e] \cup {n} ELSE under[e]
      /\ \A o \in Executions \ {e} : under'[o] = under[o]
      /\ under' = [o \in Executions |-> under'[o]]
  BY DEF IInv, Shapes, PlaceUnder, Upserted
<1>3. Upserted(e)' = Upserted(e) \cup {n} /\ \A o \in Executions \ {e} : Upserted(o)' = Upserted(o)
  BY DEF Upserted
<1>4. /\ Root \in DOMAIN items[e] /\ DOMAIN items[e] = left[e] \cup Upserted(e)
      /\ Root \in left[e] => Upserted(e) = {}
      /\ Upserted(e) \ {Root} \subseteq under[e]
      /\ left[e] \cap Upserted(e) = {} /\ under[e] \subseteq Upserted(e) /\ Root \notin under[e]
  BY DEF IInv, InventorySound, TypeOK, Upserts, Upserted
<1>5. TypeOK'
  <2>1. \A o \in Executions :
          /\ DOMAIN items'[o] \subseteq Names
          /\ left'[o] \cup DOMAIN known'[o] \cup inserted'[o] \subseteq DOMAIN items'[o]
          /\ DOMAIN known'[o] \cap inserted'[o] = {} /\ Root \notin under'[o]
          /\ under'[o] \subseteq DOMAIN known'[o] \cup inserted'[o]
    BY <1>1, <1>2, <1>4 DEF IInv, InventorySound, TypeOK, Upserted
  <2>2. QED
    BY <2>1 DEF IInv, InventorySound, TypeOK
<1>6. Shapes'
  BY <1>1, <1>2 DEF IInv, Shapes
<1>7. Upserts'
  <2>1. \A o \in Executions \ {e} :
          /\ pc'[o] = pc[o] /\ items'[o] = items[o] /\ left'[o] = left[o]
          /\ under'[o] = under[o] /\ Upserted(o)' = Upserted(o)
    BY <1>1, <1>2, <1>3
  <2>2. /\ Root \in DOMAIN items'[e] /\ DOMAIN items'[e] = left'[e] \cup Upserted(e)'
        /\ Root \notin left'[e]
        /\ Upserted(e)' \ {Root} \subseteq under'[e]
        /\ left'[e] \cap Upserted(e)' = {} /\ pc'[e] = "save"
    BY <1>1, <1>2, <1>3, <1>4
  <2>3. QED
    BY <2>1, <2>2 DEF IInv, Upserts
<1>8. InventoryOfFinished' /\ ParentsKnown'
  BY InventoryKept
<1>9. CompletedBacked' /\ Exists' /\ Working' /\ WorkedAgain'
  BY DEF IInv, CompletedBacked, Published, Exists, Working, WorkedAgain
<1>10. QED
  BY <1>5, <1>6, <1>7, <1>8, <1>9

\* Either way of an upsert.
LEMMA UpsertStep ==
    ASSUME IInv, NEW e \in Executions, NEW n \in Names, UpdateAsset(e, n) \/ InsertAsset(e, n)
    PROVE  IInv'
<1>1. n \in left[e] /\ n \notin DOMAIN known[e] /\ n \notin inserted[e] /\ DOMAIN known[e] \cap inserted[e] = {}
  BY DEF UpdateAsset, InsertAsset, NextInList, IInv, InventorySound, TypeOK, Upserts, Upserted
<1>2. CASE UpdateAsset(e, n)
  <2>1. /\ inserted' = inserted /\ asset' = asset /\ asset[n].status # "absent"
        /\ DOMAIN known'[e] = DOMAIN known[e] \cup {n}
        /\ \A o \in Executions \ {e} : known'[o] = known[o]
        /\ known' = [o \in Executions |-> known'[o]]
        /\ inserted' = [o \in Executions |-> inserted'[o]]
        /\ Upserting(e, n)
    BY <1>2 DEF UpdateAsset, Upserting, IInv, Shapes, database
  <2>2. InsertedOnce' /\ RowsFound'
    BY <2>1 DEF IInv, InventorySound, InsertedOnce, HeldByOther, RowsFound
  <2>3. QED
    BY <1>1, <2>1, <2>2, UpsertKept DEF IInv, InventorySound, Upserted
<1>3. CASE InsertAsset(e, n)
  <2>1. /\ known' = known /\ asset' = asset
        /\ asset[n].status = "absent" /\ \A o \in Executions \ {e} : n \notin inserted[o]
        /\ inserted'[e] = inserted[e] \cup {n}
        /\ \A o \in Executions \ {e} : inserted'[o] = inserted[o]
        /\ known' = [o \in Executions |-> known'[o]]
        /\ inserted' = [o \in Executions |-> inserted'[o]]
        /\ Upserting(e, n)
    BY <1>3 DEF InsertAsset, KeyFree, HeldByOther, Upserting, IInv, Shapes, database
  <2>2. InsertedOnce' /\ RowsFound'
    BY <2>1 DEF IInv, InventorySound, InsertedOnce, HeldByOther, RowsFound
  <2>3. QED
    BY <1>1, <2>1, <2>2, UpsertKept DEF IInv, InventorySound, Upserted
<1>4. QED
  BY <1>2, <1>3

\* The one commit of the inventory.
LEMMA FinishStep == ASSUME IInv, NEW e \in Executions, Finish(e) PROVE IInv'
<1> USE DEF Finish, GoTo, queue, sweep
<1> DEFINE found == DOMAIN items[e]
<1>1. /\ e \notin scan /\ pc[e] = "finish" /\ loaded[e] \in Active
      /\ job[e] \in Jobs /\ scan \subseteq Executions /\ found \subseteq Names
  BY DEF IInv, InventorySound, TypeOK, Working, Exists
<1>2. /\ Root \in found /\ found = Upserted(e) /\ found \ {Root} \subseteq under[e]
      /\ left[e] = {} /\ under[e] \subseteq found /\ Root \notin under[e]
  BY <1>1 DEF IInv, InventorySound, TypeOK, Upserts, Upserted
<1>3. \A n \in found : items[e][n] \in AssetStatus
  BY DEF IInv, Shapes
<1>4. ASSUME NEW n \in found
      PROVE  /\ asset'[n] = Saved(e, n)
             /\ asset'[n] \in [status : AssetStatus, job : Jobs, parent : {Root, NoOne}]
             /\ asset'[n].status = items[e][n] \/ (/\ asset'[n].status = asset[n].status
                                                   /\ asset[n].status # "absent")
             /\ n # Root => asset'[n].parent = Root
  <2>1. n \in Names /\ asset'[n] = Saved(e, n)
    BY <1>1
  <2>2. asset[n].status \in AssetStatus \cup {"absent"} /\ asset[n].parent \in {Root, NoOne}
    BY <2>1 DEF IInv, InventorySound, TypeOK
  <2>3. n \in DOMAIN known[e] => asset[n].status # "absent"
    BY DEF IInv, RowsFound
  <2>4. n # Root => n \in under[e]
    BY <1>2
  <2>5. QED
    BY <1>1, <1>3, <2>1, <2>2, <2>3, <2>4 DEF Saved
<1>5. \A n \in Names \ found : asset'[n] = asset[n]
  BY DEF IInv, InventorySound, TypeOK
<1>6. \A n \in found : asset'[n].status # "absent"
  BY <1>4 DEF AssetStatus
<1>7. /\ \A o \in Executions \ {e} : /\ pc'[o] = pc[o] /\ inserted'[o] = inserted[o]
                                     /\ known'[o] = known[o] /\ under'[o] = under[o]
      /\ pc'[e] = "done" /\ inserted'[e] = {} /\ DOMAIN known'[e] = {} /\ under'[e] = {}
      /\ UNCHANGED << job, loaded, items, left >> /\ scan' = scan \cup {e}
  BY DEF IInv, InventorySound, TypeOK, Shapes
<1>8. PICK ns \in SUBSET Probed(e) : finding' = finding \cup (ns \X {e})
  OBVIOUS
<1>9. /\ \A j \in Jobs \ {job[e]} : status'[j] = status[j] /\ status'[job[e]] = "completed"
      /\ status'[job[e]] = "completed"
  BY <1>1 DEF IInv, InventorySound, TypeOK
<1>10. TypeOK'
  <2>1. asset' \in [Names -> [status : AssetStatus \cup {"absent"}, job : Jobs \cup {NoJob},
                              parent : {Root, NoOne}]]
    <3>1. \A n \in Names : asset'[n] \in [status : AssetStatus \cup {"absent"},
                                          job : Jobs \cup {NoJob}, parent : {Root, NoOne}]
      BY <1>4, <1>5 DEF IInv, InventorySound, TypeOK
    <3>2. QED
      BY <3>1
  <2>2. status' \in [Jobs -> {"absent"} \cup Active \cup Settled]
    BY <1>1 DEF IInv, InventorySound, TypeOK, Settled
  <2>3. scan' \subseteq Executions /\ finding' \subseteq Names \X Executions
    BY <1>1, <1>8 DEF IInv, InventorySound, TypeOK, Probed
  <2>4. pc' \in [Executions -> {"idle", "loaded", "check", "discover", "save", "finish",
                                "raised", "done", "dead"}]
    BY DEF IInv, InventorySound, TypeOK
  <2>5. \A o \in Executions :
          /\ DOMAIN items'[o] \subseteq Names
          /\ left'[o] \cup DOMAIN known'[o] \cup inserted'[o] \subseteq DOMAIN items'[o]
          /\ DOMAIN known'[o] \cap inserted'[o] = {} /\ Root \notin under'[o]
          /\ under'[o] \subseteq DOMAIN known'[o] \cup inserted'[o]
    BY <1>2, <1>7 DEF IInv, InventorySound, TypeOK
  <2>6. QED
    BY <1>7, <2>1, <2>2, <2>3, <2>4, <2>5 DEF IInv, InventorySound, TypeOK
<1>11. InventoryOfFinished'
  <2>1. {n \in Names : asset'[n].status # "absent"}
          = {n \in Names : asset[n].status # "absent"} \cup found
    BY <1>1, <1>5, <1>6
  <2>2. UNION {DOMAIN items'[o] : o \in scan'} = (UNION {DOMAIN items[o] : o \in scan}) \cup found
    <3> DEFINE before == {DOMAIN items[o] : o \in scan}
    <3>1. {DOMAIN items'[o] : o \in scan'} = before \cup {found}
      BY <1>7
    <3> HIDE DEF before
    <3>2. UNION (before \cup {found}) = (UNION before) \cup found
      BY UnionWithOneMore
    <3>3. QED
      BY <3>1, <3>2, Zenon DEF before
  <2>3. \A n \in Names : asset'[n].status # "absent" =>
          \E o \in scan' : n \in DOMAIN items'[o] /\ items'[o][n] = asset'[n].status
    <3>1. ASSUME NEW n \in Names, asset[n].status # "absent"
          PROVE  \E o \in scan : n \in DOMAIN items[o] /\ items[o][n] = asset[n].status
      BY <3>1 DEF IInv, InventorySound, InventoryOfFinished
    <3>2. items' = items /\ scan' = scan \cup {e}
      BY <1>7
    <3>3. SUFFICES ASSUME NEW n \in Names, asset'[n].status # "absent"
                   PROVE  \E o \in scan \cup {e} : n \in DOMAIN items[o]
                                                  /\ items[o][n] = asset'[n].status
      BY <3>2, Zenon
    <3>4. CASE n \in found /\ asset'[n].status = items[e][n]
      BY <3>4
    <3>5. CASE asset'[n].status = asset[n].status /\ asset[n].status # "absent"
      BY <3>1, <3>5
    <3>6. QED
      BY <1>4, <1>5, <3>3, <3>4, <3>5
  <2>4. \A f \in finding' : f[2] \in scan' /\ f[1] \in Probed(f[2])'
    <3>1. \A f \in finding : f[2] \in scan /\ f[1] \in Probed(f[2])
      BY DEF IInv, InventorySound, InventoryOfFinished
    <3>2. \A o : Probed(o)' = Probed(o)
      BY <1>7 DEF Probed
    <3>3. QED
      BY <1>7, <1>8, <3>1, <3>2
  <2>5. {n \in Names : asset[n].status # "absent"} = UNION {DOMAIN items[o] : o \in scan}
    BY DEF IInv, InventorySound, InventoryOfFinished
  <2>6. {n \in Names : asset'[n].status # "absent"} = UNION {DOMAIN items'[o] : o \in scan'}
    BY <2>1, <2>2, <2>5, Zenon
  <2>7. QED
    BY <2>3, <2>4, <2>6, Zenon DEF InventoryOfFinished
<1>12. ParentsKnown'
  BY <1>2, <1>4, <1>5, <1>6 DEF IInv, InventorySound, ParentsKnown
<1>13. InsertedOnce'
  <2> SUFFICES ASSUME NEW o \in Executions \ {e}, NEW n \in Names, n \in inserted[o]
               PROVE  asset'[n].status = "absent" /\ \A x \in Executions \ {o} : n \notin inserted'[x]
    BY <1>7 DEF InsertedOnce, HeldByOther
  <2>1. asset[n].status = "absent" /\ \A x \in Executions \ {o} : n \notin inserted[x]
    BY DEF IInv, InventorySound, InsertedOnce, HeldByOther
  <2>2. n \notin found
    BY <1>2, <2>1 DEF Upserted, IInv, RowsFound
  <2>3. QED
    BY <1>5, <1>7, <2>1, <2>2
<1>14. RowsFound'
  <2> SUFFICES ASSUME NEW o \in Executions \ {e}, NEW n \in DOMAIN known[o]
               PROVE  asset'[n].status # "absent"
    BY <1>7 DEF RowsFound
  <2>1. asset[n].status # "absent" /\ n \in Names
    BY DEF IInv, InventorySound, TypeOK, RowsFound
  <2>2. QED
    BY <1>5, <1>6, <2>1
<1>15. Shapes'
  <2>1. /\ inserted' = [inserted EXCEPT ![e] = {}] /\ known' = [known EXCEPT ![e] = << >>]
        /\ under' = [under EXCEPT ![e] = {}] /\ UNCHANGED << items, left >>
    OBVIOUS
  <2>2. Shapes
    BY DEF IInv
  <2>3. /\ inserted' = [o \in Executions |-> inserted'[o]]
        /\ known' = [o \in Executions |-> known'[o]]
        /\ under' = [o \in Executions |-> under'[o]]
    BY <2>1, <2>2 DEF Shapes
  <2>4. QED
    BY <2>1, <2>2, <2>3 DEF Shapes
<1>16. CompletedBacked'
  BY <1>1, <1>7, <1>9 DEF IInv, CompletedBacked, Published
<1>17. Exists'
  BY <1>7, <1>9 DEF IInv, Exists
<1>18. Working'
  BY <1>7 DEF IInv, Working
<1>19. Upserts'
  BY <1>2, <1>7 DEF IInv, Upserts, Upserted
<1>20. WorkedAgain'
  <2> SUFFICES ASSUME NEW f \in scan', status'[job[f]] # "completed"
               PROVE  \/ job[f] \in overtaken
                      \/ \E o \in Executions \ {f} : job[o] = job[f] /\ loaded[o] \in Active
    BY <1>7 DEF WorkedAgain
  <2>1. job[f] # job[e] /\ f \in scan /\ job[f] \in Jobs
    BY <1>1, <1>7, <1>9 DEF IInv, InventorySound, TypeOK, Working, Exists
  <2>2. QED
    BY <1>9, <2>1 DEF IInv, WorkedAgain
<1>21. QED
  BY <1>10, <1>11, <1>12, <1>13, <1>14, <1>15, <1>16, <1>17, <1>18, <1>19, <1>20
     DEF IInv, InventorySound

-----------------------------------------------------------------------------
LEMMA InitIInv == Init => IInv
<1> SUFFICES ASSUME Init PROVE IInv
  OBVIOUS
<1>1. /\ \A e \in Executions : /\ pc[e] = "idle" /\ loaded[e] = "absent" /\ DOMAIN items[e] = {}
                               /\ left[e] = {} /\ under[e] = {} /\ inserted[e] = {}
                               /\ DOMAIN known[e] = {}
      /\ \A n \in Names : asset[n].status = "absent"
      /\ scan = {} /\ finding = {} /\ requests = {} /\ \A j \in Jobs : tasks[j] = 0
  BY DEF Init, Missing
<1>2. TypeOK
  BY <1>1 DEF Init, TypeOK, Missing
<1>3. Shapes
  BY <1>1 DEF Init, Shapes
<1>4. InventoryOfFinished /\ InsertedOnce /\ ParentsKnown
  BY <1>1 DEF InventoryOfFinished, InsertedOnce, ParentsKnown
<1>5. CompletedBacked
  BY DEF Init, CompletedBacked
<1>6. Exists /\ Working /\ Upserts /\ RowsFound /\ WorkedAgain
  BY <1>1 DEF Exists, Working, Upserts, Upserted, RowsFound, WorkedAgain
<1>7. QED
  BY <1>2, <1>3, <1>4, <1>5, <1>6 DEF IInv, InventorySound

LEMMA NextIInv == ASSUME IInv, [Next]_vars PROVE IInv'
<1>1. CASE UNCHANGED vars
  <2> USE <1>1 DEF vars, database, queue, session, sweep
  <2>1. TypeOK'
    BY DEF IInv, InventorySound, TypeOK
  <2>2. InventoryOfFinished' /\ ParentsKnown' /\ Shapes' /\ InsertedOnce' /\ RowsFound'
    BY InventoryKept, SessionKept
  <2>3. CompletedBacked' /\ Exists' /\ Working' /\ Upserts' /\ WorkedAgain'
    BY DEF IInv, CompletedBacked, Published, Exists, Working, Upserts, Upserted, WorkedAgain
  <2>4. QED
    BY <2>1, <2>2, <2>3 DEF IInv, InventorySound
<1>2. ASSUME NEW e \in Executions, Work(e) PROVE IInv'
  BY <1>2, PassStep, DiscoverStep, UpsertStep, FinishStep DEF Work
<1>3. QED
  BY <1>1, <1>2, JobStep, LoadStep, PassStep DEF Next

\* The invariant of the jobs, the sessions and the inventory.
THEOREM Invariance == Spec => []IInv
<1>1. IInv /\ [Next]_vars => IInv'
  BY NextIInv
<1>2. QED
  BY <1>1, InitIInv, PTL DEF Spec

\* However executions of a job overlap, fail or die, the inventory is that of the
\* discoveries that finished, each asset inserted once and under a root that is there.
THEOREM InventoryKeptSound == Spec => []InventorySound
<1>1. IInv => InventorySound
  BY DEF IInv
<1>2. QED
  BY <1>1, Invariance, PTL

\* A completed job has something to show, and one that failed over its inventory was
\* worked twice or overtaken by a sweep that had selected it before.
THEOREM RowsHonest == Spec => []RowHonest
<1>1. IInv => RowHonest
  <2> SUFFICES ASSUME IInv PROVE FailureHonest
    BY DEF IInv, RowHonest
  <2>1. QED
    BY DEF IInv, WorkedAgain, FailureHonest, Published
<1>2. QED
  BY <1>1, Invariance, PTL

\* A settled job is touched only in a step of an execution that loaded it while it was
\* active, or of a sweep that has selected it.
THEOREM LateStartsHarmless == Spec => LateStartHarmless
<1> DEFINE Harmless == \A j \in Jobs : status[j] \in Settled /\ status'[j] # status[j] =>
               \/ \E e \in Executions : job[e] = j /\ loaded[e] \in Active /\ pc'[e] # pc[e]
               \/ \E w \in Sweepers : j \in picked[w] /\ picked'[w] # picked[w]
<1>1. ASSUME IInv, NEW e \in Executions, Start(e) \/ Fail(e) \/ Finish(e) PROVE Harmless
  <2>1. /\ loaded[e] \in Active /\ \A j \in Jobs \ {job[e]} : status'[j] = status[j]
        /\ pc'[e] # pc[e]
    BY <1>1 DEF Start, Fail, Finish, GoTo, IInv, InventorySound, TypeOK, Working
  <2>2. QED
    BY <2>1
<1>2. ASSUME IInv, NEW j \in Jobs, Create(j) PROVE Harmless
  BY <1>2 DEF Create, Settled, IInv, InventorySound, TypeOK
<1>3. ASSUME IInv, NEW w \in Sweepers, SweepWrite(w) PROVE Harmless
  <2>1. \A j \in Jobs \ picked[w] : status'[j] = status[j]
    BY <1>3 DEF SweepWrite, IInv, InventorySound, TypeOK
  <2>2. picked'[w] # picked[w]
    BY <1>3 DEF SweepWrite, IInv, InventorySound, TypeOK
  <2>3. QED
    BY <2>1, <2>2
<1>4. ASSUME status' = status PROVE Harmless
  BY <1>4
<1> HIDE DEF Harmless
<1>5. ASSUME IInv, [Next]_vars PROVE Harmless
  <2>1. ASSUME NEW e \in Executions, Work(e) \/ Raise(e) \/ Die(e) PROVE Harmless
    BY <1>1, <1>4, <1>5, <2>1
       DEF Work, Authorize, Discover, ScanHosts, UpdateAsset, InsertAsset, Raise, Die, database
  <2>2. ASSUME NEW j \in Jobs, \/ Dispatch(j) \/ LoseRequest(j) \/ LoseTask(j) \/ GetOld(j)
                               \/ \E e \in Executions : Load(e, j)
        PROVE  Harmless
    BY <1>4, <2>2 DEF Dispatch, LoseRequest, LoseTask, GetOld, Load, database
  <2>3. ASSUME NEW w \in Sweepers, SweepRead(w) \/ SweepFails(w) PROVE Harmless
    BY <1>4, <2>3 DEF SweepRead, SweepFails, database
  <2>4. CASE UNCHANGED vars
    BY <1>4, <2>4 DEF vars, database
  <2>5. QED
    BY <1>2, <1>3, <1>5, <2>1, <2>2, <2>3, <2>4 DEF Next
<1>6. IInv /\ [Next]_vars =>
        [\A j \in Jobs : status[j] \in Settled /\ status'[j] # status[j] =>
            \/ \E e \in Executions : job[e] = j /\ loaded[e] \in Active /\ pc'[e] # pc[e]
            \/ \E w \in Sweepers : j \in picked[w] /\ picked'[w] # picked[w]]_vars
  BY <1>5 DEF Harmless
<1>7. QED
  BY <1>6, Invariance, PTL DEF Spec, LateStartHarmless
=============================================================================
