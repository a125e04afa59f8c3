-------------------------- MODULE FindingStore_proofs --------------------------
(***************************************************************************)
(* Proofs about FindingStore for every set of fingerprints, scans, mobile  *)
(* runs and reviewers, every number of edits and every correlation key.    *)
(***************************************************************************)
EXTENDS FindingStore, SequenceTheorems, TLAPS

\* A finding has a history exactly when it has a row; a reviewer has a row in hand.
Rows ==
    /\ \A f \in Fingerprints : row[f].status = "absent" <=> history[f] = << >>
    /\ \A f \in Fingerprints : row[f].status = "absent" => row[f] = Absent
    /\ \A u \in Reviewers : review[u].finding # "none" => row[review[u].finding].status # "absent"

\* A transaction looks at everything it has found, flushes it, and holds it to its commit.
Persisting == {"persist", "flush", "commit"}
Working == \A w \in Writers :
    /\ pc[w] \notin Persisting => left[w] = {} /\ dirty[w] = {} /\ locked[w] = {}
    /\ pc[w] \in Persisting => left[w] \cup dirty[w] \cup locked[w] = DOMAIN found[w]
    /\ left[w] \cap (dirty[w] \cup locked[w]) = {}
    /\ pc[w] = "commit" => left[w] = {} /\ dirty[w] = {}

\* A row has one owner at a time, and what its owner has seen of it still holds: a row
\* that was there is there, a row it inserts is nobody else's.
Locks ==
    /\ \A v, w \in Writers : v # w => locked[v] \cap locked[w] = {}
    /\ \A w \in Writers : \A f \in dirty[w] \cup locked[w] :
          seen[w][f].status # "absent" => row[f].status # "absent"
    /\ \A w \in Writers : \A f \in locked[w] :
          seen[w][f].status = "absent" => row[f].status = "absent"

\* Nothing is logged for a scan before it starts, and a scheduled one is no retest.
Scheduled == \A s \in Scans :
    /\ pc[s] = "idle" => previous[s] = NoScan
                         /\ \A f \in Fingerprints : \A i \in DOMAIN history[f] : history[f][i].scan # s
    /\ previous[s] # NoScan =>
         \A f \in Fingerprints : \A i \in DOMAIN history[f] :
            history[f][i].scan = s => history[f][i].type # "retest_started"

\* What a session has seen of a row is nothing or a row, and one that no LLM had written about
\* named its severity.
SeenRows == \A w \in Writers, f \in Fingerprints :
    /\ seen[w][f].status = "absent" => seen[w][f] = Absent
    /\ f \notin enriched => seen[w][f].text = seen[w][f].severity

\* What has begun, has begun before now.
Stamps ==
    /\ \A f \in Fingerprints : \A i \in DOMAIN history[f] : history[f][i].created < clock
    /\ \A w \in Writers : began[w] < clock
    /\ \A u \in Reviewers : review[u].began < clock

\* What an enrichment has loaded its scan has found.
Loaded == \A s \in Scans : \A f \in loaded[s] :
    pc[s] = "asking" /\ f \in DOMAIN found[s] /\ row[f].status # "absent"

\* Only published scans have been compared.
Compared == \A e \in events : Published(e.scan)

IInv == /\ TypeOK /\ DetectedOnce /\ FoundAllOrNothing
        /\ StatusExplained /\ TextBelongs /\ DeltaMatchesScan
        /\ Rows /\ Working /\ Locks /\ Scheduled /\ SeenRows /\ Stamps
        /\ Loaded /\ Compared

-----------------------------------------------------------------------------
\* An entry is appended to a history: the others stay where they are.
LEMMA Appended ==
    ASSUME NEW h \in Seq(History), NEW e \in History
    PROVE  /\ Append(h, e) \in Seq(History) /\ Append(h, e) # << >>
           /\ Len(h) \in Nat /\ Len(Append(h, e)) = Len(h) + 1
           /\ DOMAIN h = 1..Len(h) /\ DOMAIN Append(h, e) = 1..(Len(h) + 1)
           /\ \A i \in DOMAIN h : i \in DOMAIN Append(h, e) /\ Append(h, e)[i] = h[i]
           /\ Len(h) + 1 \in DOMAIN Append(h, e) /\ Append(h, e)[Len(h) + 1] = e
           /\ h = << >> <=> Len(h) = 0
  BY AppendProperties, LenProperties, EmptySeq

\* What is said of a history, after one entry more: each entry is an old one or the new one,
LEMMA EntriesAfter ==
    ASSUME NEW h \in Seq(History), NEW e \in History, NEW i \in DOMAIN Append(h, e)
    PROVE  \/ i \in DOMAIN h /\ Append(h, e)[i] = h[i]
           \/ i = Len(h) + 1 /\ Append(h, e)[i] = e
<1>1. Len(h) \in Nat /\ DOMAIN h = 1..Len(h) /\ DOMAIN Append(h, e) = 1..(Len(h) + 1)
  BY Appended
<1>2. i \in DOMAIN h \/ i = Len(h) + 1
  BY <1>1
<1>3. QED
  BY <1>2, Appended

\* the detection comes first,
LEMMA DetectionAfter ==
    ASSUME NEW h \in Seq(History), NEW e \in History, (e.type = "detected") <=> (h = << >>),
           \A i \in DOMAIN h : (h[i].type = "detected") <=> (i = 1)
    PROVE  \A i \in DOMAIN Append(h, e) : (Append(h, e)[i].type = "detected") <=> (i = 1)
<1> TAKE i \in DOMAIN Append(h, e)
<1>1. Len(h) \in Nat /\ DOMAIN h = 1..Len(h) /\ (h = << >> <=> Len(h) = 0)
  BY Appended
<1>2. QED
  BY <1>1, EntriesAfter

\* and the last entry that sets a status explains it.
Explains(h, to) ==
    \E i \in DOMAIN h : /\ h[i].to = to
                        /\ \A j \in DOMAIN h : h[j].to # "kept" => j <= i /\ h[j].created < h[i].committed
LEMMA ExplainedAfter ==
    ASSUME NEW h \in Seq(History), NEW e \in History, NEW to,
           \/ /\ e.to = to /\ e.created < e.committed
              /\ \A i \in DOMAIN h : h[i].created < e.committed
           \/ e.to = "kept" /\ Explains(h, to)
    PROVE  Explains(Append(h, e), to)
<1> DEFINE g == Append(h, e)
<1>1. /\ Len(h) \in Nat /\ Len(g) = Len(h) + 1 /\ DOMAIN h = 1..Len(h) /\ DOMAIN g = 1..(Len(h) + 1)
      /\ g[Len(h) + 1] = e /\ \A i \in DOMAIN h : g[i] = h[i]
  BY Appended
<1> HIDE DEF g
<1>2. CASE /\ e.to = to /\ e.created < e.committed
           /\ \A i \in DOMAIN h : h[i].created < e.committed
  <2>1. Len(h) + 1 \in DOMAIN g /\ \A j \in DOMAIN g : j <= Len(h) + 1 /\ (j \in DOMAIN h \/ j = Len(h) + 1)
    BY <1>1
  <2>2. Explains(g, to)
    BY <1>1, <1>2, <2>1 DEF Explains
  <2>3. QED
    BY <2>2 DEF g
<1>3. CASE e.to = "kept" /\ Explains(h, to)
  <2>1. PICK i \in DOMAIN h :
          /\ h[i].to = to
          /\ \A j \in DOMAIN h : h[j].to # "kept" => j <= i /\ h[j].created < h[i].committed
    BY <1>3 DEF Explains
  <2>2. ASSUME NEW j \in DOMAIN g, g[j].to # "kept" PROVE j <= i /\ g[j].created < g[i].committed
    <3>1. j \in DOMAIN h
      BY <1>1, <1>3, <2>2
    <3>2. QED
      BY <1>1, <2>1, <2>2, <3>1
  <2>3. i \in DOMAIN g /\ g[i].to = to
    BY <1>1, <2>1
  <2>4. Explains(g, to)
    BY <2>2, <2>3 DEF Explains
  <2>5. QED
    BY <2>4 DEF g
<1>4. QED
  BY <1>2, <1>3

LEMMA InitIInv == Init => IInv
<1> SUFFICES ASSUME Init PROVE IInv
  OBVIOUS
<1> USE DEF Init
<1>1. TypeOK
  <2>1. << >> \in [{} -> Severities] /\ << >> \in Seq(History)
    BY EmptySeq
  <2>2. found \in [Writers -> UNION {[fs -> Severities] : fs \in SUBSET Fingerprints}]
    BY <2>1
  <2>3. row \in [Fingerprints -> Row]
    BY DEF Absent, Row
  <2>4. /\ history \in [Fingerprints -> Seq(History)]
        /\ seen \in [Writers -> [Fingerprints -> Row]]
    BY <2>1 DEF Unseen, Absent, Row
  <2>5. review \in [Reviewers -> [finding : Fingerprints \cup {"none"}, status : Open \cup {"none"}, began : Nat]]
    BY DEF Nothing
  <2>6. edits \in 0..MaxEdits
    BY FindingAssumption
  <2>8. clock \in Nat \ {0} /\ began \in [Writers -> Nat] /\ enriched \subseteq Fingerprints
    OBVIOUS
  <2>9. /\ events \subseteq [type : EventTypes, scan : Scans, key : {Key[f] : f \in Fingerprints}]
        /\ last \in Scans \cup {NoScan} /\ pc \in [Writers -> WriterPc]
        /\ previous \in [Scans -> Scans \cup {NoScan}] /\ loaded \in [Scans -> SUBSET Fingerprints]
        /\ left \in [Writers -> SUBSET Fingerprints] /\ dirty \in [Writers -> SUBSET Fingerprints]
        /\ locked \in [Writers -> SUBSET Fingerprints]
    BY DEF WriterPc
  <2>7. QED
    BY <2>2, <2>3, <2>4, <2>5, <2>6, <2>8, <2>9 DEF TypeOK
<1>2. /\ \A f \in Fingerprints : history[f] = << >> /\ DOMAIN history[f] = {}
      /\ \A f \in Fingerprints : row[f].status = "absent" /\ row[f] = Absent
      /\ \A u \in Reviewers : review[u] = Nothing /\ review[u].finding = "none" /\ review[u].began = 0
      /\ \A w \in Writers : pc[w] = "idle" /\ left[w] = {} /\ dirty[w] = {} /\ locked[w] = {}
                           /\ began[w] = 0
  BY DEF Absent, Nothing
<1>3. DetectedOnce /\ FoundAllOrNothing
  BY <1>2 DEF DetectedOnce, FoundAllOrNothing, Published, Writers
<1>4. StatusExplained /\ TextBelongs /\ DeltaMatchesScan
  BY <1>2 DEF StatusExplained, TextBelongs, DeltaMatchesScan
<1>5. Rows /\ Working /\ Locks
  BY <1>2 DEF Rows, Working, Locks, Persisting
<1>6. Scheduled /\ Loaded /\ Compared
  BY <1>2 DEF Scheduled, Loaded, Compared, Writers
<1>8. SeenRows /\ Stamps
  BY <1>2 DEF SeenRows, Stamps, Unseen, Absent
<1>7. QED
  BY <1>1, <1>3, <1>4, <1>5, <1>6, <1>8 DEF IInv

\* Stamps are numbers.
LEMMA StampTypes ==
    ASSUME TypeOK
    PROVE  /\ clock \in Nat \ {0}
           /\ \A f \in Fingerprints : \A i \in DOMAIN history[f] :
                history[f][i] \in History /\ history[f][i].created \in Nat
           /\ \A w \in Writers : began[w] \in Nat
           /\ \A u \in Reviewers : review[u].began \in Nat
<1>1. ASSUME NEW f \in Fingerprints, NEW i \in DOMAIN history[f]
      PROVE  history[f][i] \in History
  <2>1. history[f] \in Seq(History)
    BY DEF TypeOK
  <2>2. QED
    BY <2>1
<1>2. QED
  BY <1>1 DEF TypeOK, History

\* A step that changes no row and no history keeps what is said of them alone.
LEMMA StoreKept ==
    ASSUME IInv, UNCHANGED store
    PROVE  /\ DetectedOnce' /\ StatusExplained'
  BY DEF IInv, store, DetectedOnce, StatusExplained

\* Columns stay what they are while the runs they come from stay published.
LEMMA TextKept ==
    ASSUME IInv, UNCHANGED << row, enriched >>,
           \A w \in Writers : Published(w) => Published(w)' /\ found'[w] = found[w]
    PROVE  TextBelongs'
<1> SUFFICES ASSUME NEW f \in Fingerprints, row[f].status # "absent"
             PROVE  LET finders == {w \in Writers : Published(w)' /\ f \in DOMAIN found'[w]} IN
                    /\ row[f].about \in finders
                    /\ row[f].text \in {"llm", found'[row[f].about][f]}
                    /\ row[f].scan \in finders \cup {NoScan}
                    /\ \E w \in finders : row[f].severity = found'[w][f]
                    /\ f \notin enriched => row[f].text = row[f].severity
  BY DEF TextBelongs
<1> DEFINE finders == {w \in Writers : Published(w) /\ f \in DOMAIN found[w]}
           after == {w \in Writers : Published(w)' /\ f \in DOMAIN found'[w]}
<1>1. /\ row[f].about \in finders /\ row[f].text \in {"llm", found[row[f].about][f]}
      /\ row[f].scan \in finders \cup {NoScan} /\ \E w \in finders : row[f].severity = found[w][f]
      /\ f \notin enriched => row[f].text = row[f].severity
  BY DEF IInv, TextBelongs
<1>2. \A w \in finders : w \in after /\ found'[w] = found[w]
  OBVIOUS
<1>3. QED
  BY <1>1, <1>2

-----------------------------------------------------------------------------
\* A scan or an analysis begins that nobody logged yet.
LEMMA StartStep ==
    ASSUME IInv, NEW w \in Writers, StartOther(w) \/ (w \in Scans /\ StartScheduled(w))
    PROVE  IInv'
<1> USE DEF StartOther, StartScheduled, GoTo, store
<1>1. /\ pc[w] = "idle" /\ pc'[w] = "scanning" /\ \A v \in Writers \ {w} : pc'[v] = pc[v]
      /\ UNCHANGED << row, history, events, found, left, seen, dirty, locked, loaded, review, edits, clock, began, enriched >>
      /\ \A s \in Scans \ {w} : previous'[s] = previous[s]
  BY DEF IInv, TypeOK
<1>2. TypeOK'
  <2>1. CASE StartOther(w)
    BY <2>1 DEF IInv, TypeOK, WriterPc
  <2>2. CASE w \in Scans /\ StartScheduled(w)
    BY <2>2 DEF IInv, TypeOK, WriterPc
  <2>3. QED
    BY <2>1, <2>2
<1>3. \A v \in Writers : Published(v)' <=> Published(v)
  BY <1>1 DEF Published
<1>4. FoundAllOrNothing' /\ Compared'
  BY <1>1, <1>3 DEF IInv, TypeOK, FoundAllOrNothing, Compared, Writers
<1>5. DeltaMatchesScan' /\ Rows' /\ Locks' /\ SeenRows' /\ Stamps'
  BY <1>1 DEF IInv, DeltaMatchesScan, Rows, Locks, SeenRows, Stamps
<1>9. TextBelongs'
  BY <1>1, <1>3, TextKept
<1>6. Working' /\ Loaded'
  BY <1>1 DEF IInv, TypeOK, Working, Loaded, Writers, Persisting
<1>7. Scheduled'
  BY <1>1 DEF IInv, Scheduled, Writers
<1>8. QED
  BY <1>2, <1>4, <1>5, <1>6, <1>7, <1>9, StoreKept DEF IInv

\* The pipeline is done: what the writer has found is set, once.
LEMMA AnalyzeStep == ASSUME IInv, NEW w \in Writers, Analyze(w) PROVE IInv'
<1> USE DEF Analyze, GoTo, store
<1>1. PICK fs \in SUBSET Reach(w) : \E found_w \in [fs -> Severities] :
        /\ found' = [found EXCEPT ![w] = found_w]
        /\ left' = [left EXCEPT ![w] = fs]
  OBVIOUS
<1>2. /\ pc[w] = "scanning" /\ pc'[w] = "persist" /\ \A v \in Writers \ {w} : pc'[v] = pc[v]
      /\ fs \subseteq Fingerprints /\ DOMAIN found'[w] = fs /\ left'[w] = fs
      /\ \A v \in Writers \ {w} : found'[v] = found[v] /\ left'[v] = left[v]
      /\ UNCHANGED << row, history, events, seen, dirty, locked, previous, loaded, review, edits, clock, began, enriched >>
  BY <1>1, FindingAssumption DEF IInv, TypeOK, Reach
<1>3. TypeOK'
  <2>1. found' \in [Writers -> UNION {[gs -> Severities] : gs \in SUBSET Fingerprints}]
    BY <1>1, <1>2 DEF IInv, TypeOK
  <2>2. QED
    BY <1>1, <1>2, <2>1 DEF IInv, TypeOK, WriterPc
<1>4. /\ \A v \in Writers : Published(v)' <=> Published(v)
      /\ \A v \in Writers : Published(v) => found'[v] = found[v]
      /\ ~Published(w)
  BY <1>2 DEF Published
<1>5. FoundAllOrNothing' /\ Compared'
  BY <1>2, <1>4 DEF IInv, TypeOK, FoundAllOrNothing, Compared, Writers
<1>6. DeltaMatchesScan'
  BY <1>2, <1>4 DEF IInv, TypeOK, DeltaMatchesScan, Compared, Writers
<1>11. TextBelongs'
  BY <1>2, <1>4, TextKept
<1>7. Rows' /\ Locks' /\ SeenRows' /\ Stamps'
  BY <1>2 DEF IInv, Rows, Locks, SeenRows, Stamps
<1>8. Working' /\ Loaded'
  BY <1>2 DEF IInv, TypeOK, Working, Loaded, Writers, Persisting
<1>9. Scheduled'
  BY <1>2 DEF IInv, Scheduled, Writers
<1>10. QED
  BY <1>3, <1>5, <1>6, <1>7, <1>8, <1>9, <1>11, StoreKept DEF IInv

\* The writer sees whether the row is there, and will write it with its next flush.
LEMMA LookStep == ASSUME IInv, NEW w \in Writers, NEW f \in Fingerprints, Look(w, f) PROVE IInv'
<1> USE DEF Look, GoTo, store
<1>1. /\ pc[w] = "persist" /\ pc'[w] \in {"persist", "flush"}
      /\ \A v \in Writers \ {w} : pc'[v] = pc[v]
      /\ f \in left[w] /\ left'[w] = left[w] \ {f} /\ dirty'[w] = dirty[w] \cup {f}
      /\ \A v \in Writers \ {w} : left'[v] = left[v] /\ dirty'[v] = dirty[v] /\ seen'[v] = seen[v]
      /\ seen'[w][f] = row[f]
      /\ \A g \in Fingerprints \ {f} : seen'[w][g] = seen[w][g]
      /\ clock \in Nat \ {0} /\ began[w] \in Nat /\ \A v \in Writers \ {w} : began'[v] = began[v]
      /\ \/ clock' = clock + 1 /\ began'[w] = clock
         \/ clock' = clock /\ began'[w] = began[w]
      /\ UNCHANGED << row, history, events, found, locked, previous, loaded, review, edits, enriched >>
  BY DEF IInv, TypeOK
<1>2. TypeOK'
  <2>1. clock' \in Nat \ {0} /\ began' \in [Writers -> Nat]
    <3>1. began \in [Writers -> Nat] /\ clock \in Nat \ {0}
      BY DEF IInv, TypeOK
    <3>2. CASE began[w] = 0
      BY <3>1, <3>2
    <3>3. CASE began[w] # 0
      BY <3>1, <3>3
    <3>4. QED
      BY <3>2, <3>3
  <2>2. seen' \in [Writers -> [Fingerprints -> Row]]
    BY DEF IInv, TypeOK
  <2>3. /\ left' \in [Writers -> SUBSET Fingerprints] /\ dirty' \in [Writers -> SUBSET Fingerprints]
        /\ pc' \in [Writers -> WriterPc]
    BY DEF IInv, TypeOK, WriterPc
  <2> HIDE DEF Look
  <2>4. QED
    BY <1>1, <2>1, <2>2, <2>3 DEF IInv, TypeOK, Look
<1>3. \A v \in Writers : Published(v)' <=> Published(v)
  BY <1>1 DEF Published
<1>4. FoundAllOrNothing' /\ Compared'
  BY <1>1, <1>3 DEF IInv, TypeOK, FoundAllOrNothing, Compared, Writers
<1>5. DeltaMatchesScan' /\ Rows'
  BY <1>1 DEF IInv, DeltaMatchesScan, Rows
<1>10. TextBelongs'
  BY <1>1, <1>3, TextKept
<1>11. SeenRows'
  BY <1>1 DEF IInv, SeenRows, Rows, TextBelongs, Absent
<1>12. Stamps'
  <2>1. /\ \A g \in Fingerprints : \A i \in DOMAIN history[g] :
             history[g][i].created \in Nat /\ history[g][i].created < clock
        /\ \A v \in Writers : began[v] \in Nat /\ began[v] < clock
        /\ \A u \in Reviewers : review[u].began \in Nat /\ review[u].began < clock
    BY StampTypes DEF IInv, TypeOK, Stamps
  <2>2. QED
    BY <1>1, <2>1 DEF Stamps
<1>6. Working' /\ Loaded'
  BY <1>1 DEF IInv, TypeOK, Working, Loaded, Writers, Persisting
<1>7. Locks'
  BY <1>1 DEF IInv, TypeOK, Working, Locks
<1>8. Scheduled'
  BY <1>1 DEF IInv, Scheduled, Writers
<1>9. QED
  BY <1>2, <1>4, <1>5, <1>6, <1>7, <1>8, <1>10, <1>11, <1>12, StoreKept DEF IInv

\* A flush takes the locks of its rows: nobody has them, and nobody inserted one meanwhile.
LEMMA FlushStep == ASSUME IInv, NEW w \in Writers, Flush(w) PROVE IInv'
<1> USE DEF Flush, GoTo, store
<1>1. /\ Flushing(w) /\ pc[w] \in {"flush", "persist"}
      /\ pc'[w] = IF pc[w] = "flush" THEN "persist" ELSE "commit"
      /\ \A v \in Writers \ {w} : pc'[v] = pc[v]
      /\ locked'[w] = locked[w] \cup dirty[w] /\ dirty'[w] = {}
      /\ \A v \in Writers \ {w} : locked'[v] = locked[v] /\ dirty'[v] = dirty[v]
      /\ UNCHANGED << row, history, events, found, left, seen, previous, loaded, review, edits, clock, began, enriched >>
  BY DEF IInv, TypeOK, Flushing
<1>2. TypeOK'
  BY <1>1 DEF IInv, TypeOK, WriterPc
<1>3. \A v \in Writers : Published(v)' <=> Published(v)
  BY <1>1 DEF Published
<1>4. FoundAllOrNothing' /\ Compared'
  BY <1>1, <1>3 DEF IInv, TypeOK, FoundAllOrNothing, Compared, Writers
<1>5. DeltaMatchesScan' /\ Rows' /\ SeenRows' /\ Stamps'
  BY <1>1 DEF IInv, DeltaMatchesScan, Rows, SeenRows, Stamps
<1>10. TextBelongs'
  BY <1>1, <1>3, TextKept
<1>6. Working' /\ Loaded'
  BY <1>1 DEF IInv, TypeOK, Working, Loaded, Writers, Persisting, Flushing
<1>7. Locks'
  BY <1>1 DEF IInv, TypeOK, Locks, LockedByOther, Conflict
<1>8. Scheduled'
  BY <1>1 DEF IInv, Scheduled, Writers
<1>9. QED
  BY <1>2, <1>4, <1>5, <1>6, <1>7, <1>8, <1>10, StoreKept DEF IInv

\* A transaction that is given up leaves nothing.
LEMMA GiveUpStep == ASSUME IInv, NEW w \in Writers, ConflictFails(w) \/ Victim(w) \/ Raise(w)
                    PROVE  IInv'
<1> USE DEF GoTo, store
<1>0. GiveUp(w) /\ pc[w] \in {"scanning", "persist", "flush", "commit"}
  BY DEF ConflictFails, Victim, Raise, Waits, Flushing
<1>1. /\ pc[w] \in {"scanning", "persist", "flush", "commit"} /\ pc'[w] = "failed"
      /\ \A v \in Writers \ {w} : pc'[v] = pc[v]
      /\ left'[w] = {} /\ locked'[w] = {} /\ dirty'[w] = {} /\ seen'[w] = Unseen
      /\ \A v \in Writers \ {w} : /\ left'[v] = left[v] /\ locked'[v] = locked[v]
                                  /\ dirty'[v] = dirty[v] /\ seen'[v] = seen[v]
      /\ \A v \in Writers \ {w} : began'[v] = began[v]
      /\ began'[w] = 0
      /\ UNCHANGED << row, history, events, found, last, previous, loaded, review, edits, clock, enriched >>
  BY <1>0 DEF IInv, TypeOK, GiveUp, Rollback, Undone
<1>2. TypeOK'
  BY <1>0 DEF IInv, TypeOK, WriterPc, Unseen, Absent, Row, GiveUp, Rollback, Undone
<1>3. \A v \in Writers : Published(v)' <=> Published(v)
  BY <1>1 DEF Published
<1>4. FoundAllOrNothing' /\ Compared'
  BY <1>1, <1>3 DEF IInv, TypeOK, FoundAllOrNothing, Compared, Writers
<1>5. DeltaMatchesScan' /\ Rows'
  BY <1>1 DEF IInv, DeltaMatchesScan, Rows
<1>11. TextBelongs'
  BY <1>1, <1>3, TextKept
<1>12. SeenRows' /\ Stamps'
  <2>1. SeenRows'
    BY <1>1 DEF IInv, SeenRows, Unseen, Absent
  <2>2. clock > 0
    BY DEF IInv, TypeOK
  <2>3. QED
    BY <1>1, <2>1, <2>2 DEF IInv, Stamps
<1>6. Working'
  BY <1>1 DEF IInv, Working, Persisting
<1>7. Locks'
  BY <1>1 DEF IInv, Locks
<1>9. Loaded'
  BY <1>1 DEF IInv, Loaded, Writers
<1>8. Scheduled'
  BY <1>1 DEF IInv, Scheduled, Writers
<1>10. QED
  BY <1>1, <1>2, <1>4, <1>5, <1>6, <1>7, <1>8, <1>9, <1>11, <1>12, StoreKept DEF IInv

\* Findings, history and the end of the scan in one step.
LEMMA CommitStep == ASSUME IInv, NEW w \in Writers, Commit(w) PROVE IInv'
<1> USE DEF Commit, GoTo
<1>1. /\ pc[w] = "commit" /\ pc'[w] \in {"done", "delta"}
      /\ \A v \in Writers \ {w} : pc'[v] = pc[v]
      /\ left[w] = {} /\ dirty[w] = {} /\ locked[w] = DOMAIN found[w] /\ locked[w] \subseteq Fingerprints
      /\ locked'[w] = {} /\ \A v \in Writers \ {w} : locked'[v] = locked[v] /\ seen'[v] = seen[v]
      /\ seen'[w] = Unseen /\ began'[w] = 0 /\ \A v \in Writers \ {w} : began'[v] = began[v]
      /\ UNCHANGED << events, last, found, left, dirty, previous, loaded, review, edits, clock, enriched >>
  BY DEF IInv, TypeOK, Working, Persisting
<1>2. /\ ~Published(w) /\ Published(w)'
      /\ \A v \in Writers : Published(v) => Published(v)'
      /\ \A v \in Writers \ {w} : Published(v)' => Published(v)
  BY <1>1 DEF Published
<1>3. ASSUME NEW f \in locked[w]
      PROVE  /\ Logged(w, f) \in History /\ Logged(w, f).type # "retest_started"
             /\ Logged(w, f).scan = LoggedFor(w)
             /\ Logged(w, f).created = began[w] /\ Logged(w, f).committed = clock
             /\ Logged(w, f).type = "detected" <=> history[f] = << >>
             /\ history'[f] = Append(history[f], Logged(w, f))
  <2>1. f \in Fingerprints
    BY <1>1
  <2>2. seen[w][f].status = "absent" <=> history[f] = << >>
    BY <2>1, <1>3 DEF IInv, Rows, Locks
  <2>3. QED
    BY <2>1, <2>2 DEF IInv, TypeOK, Logged, Entry, LoggedFor, History, Writers, Open
<1>4. ASSUME NEW f \in locked[w]
      PROVE  /\ row'[f].status \in Open
             /\ row'[f].status = IF Logged(w, f).to = "kept" THEN row[f].status ELSE Logged(w, f).to
             /\ Logged(w, f).to = "kept" => row[f].status # "absent"
             /\ row'[f].scan = IF w \in MobileRuns THEN row[f].scan ELSE w
             /\ row'[f].severity = SeverityWritten(w, f)
             /\ IF found[w][f] # seen[w][f].text
                  THEN row'[f].text = found[w][f] /\ row'[f].about = w
                  ELSE row'[f].text = row[f].text /\ row'[f].about = row[f].about
             /\ found[w][f] \in Severities /\ found[w][f] # "none"
             /\ seen[w][f].status # "absent" => row[f].status # "absent"
             /\ row[f].status = "absent" => row[f] = Absent /\ seen[w][f] = Absent
             /\ row[f].status = "absent" => row[f].scan = NoScan
             /\ row[f].status = "absent" => seen[w][f].text = "none" /\ seen[w][f].severity = "none"
  <2>1. /\ f \in Fingerprints /\ row'[f] = Written(w, f)
        /\ found[w][f] \in Severities /\ found[w][f] # "none"
    BY <1>1, FindingAssumption DEF IInv, TypeOK
  <2>2. row[f] \in Row
    BY <2>1 DEF IInv, TypeOK
  <2>3. seen[w][f].status # "absent" => row[f].status # "absent"
    BY <1>4 DEF IInv, Locks
  <2>4. row[f].status = "absent" => row[f] = Absent /\ seen[w][f] = Absent
    BY <2>1, <2>3 DEF IInv, Rows, SeenRows
  <2>5. /\ row'[f].status = StatusWritten(w, f)
        /\ row'[f].scan = IF w \in MobileRuns THEN row[f].scan ELSE w
        /\ row'[f].severity = SeverityWritten(w, f)
        /\ IF found[w][f] # seen[w][f].text
             THEN row'[f].text = found[w][f] /\ row'[f].about = w
             ELSE row'[f].text = row[f].text /\ row'[f].about = row[f].about
    BY <2>1, <2>2 DEF Row, Written, WebRow, MobileRow, EnrichByRules
  <2>6. /\ StatusWritten(w, f) \in Open
        /\ StatusWritten(w, f) = IF Logged(w, f).to = "kept" THEN row[f].status ELSE Logged(w, f).to
        /\ Logged(w, f).to = "kept" => row[f].status # "absent"
    BY <2>2, <2>3 DEF Row, StatusWritten, Logged, Entry, Open
  <2>7. Absent.scan = NoScan /\ Absent.text = "none" /\ Absent.severity = "none"
    BY DEF Absent
  <2>8. QED
    BY <2>1, <2>3, <2>4, <2>5, <2>6, <2>7
<1>5. \A f \in Fingerprints \ locked[w] : row'[f] = row[f] /\ history'[f] = history[f]
  BY DEF IInv, TypeOK
<1>6. TypeOK'
  <2>2. row' \in [Fingerprints -> Row]
    <3>1. ASSUME NEW f \in Fingerprints
          PROVE  row'[f] \in Row
      <4>1. row[f] \in Row
        BY DEF IInv, TypeOK
      <4>2. CASE f \in locked[w]
        <5>1. /\ row'[f] = Written(w, f) /\ found[w][f] \in Severities
              /\ StatusWritten(w, f) \in Open \cup {"absent"}
              /\ SeverityWritten(w, f) \in Severities \cup {"none"}
          BY <1>1, <4>1, <4>2 DEF IInv, TypeOK, StatusWritten, SeverityWritten, Open, Row
        <5>2. MobileRow(w, f) \in Row /\ (w \notin MobileRuns => WebRow(w, f) \in Row)
          BY <4>1, <5>1 DEF WebRow, MobileRow, Writers, Row
        <5>3. ASSUME NEW r \in Row PROVE EnrichByRules(r, w, f) \in Row
          BY <5>1 DEF EnrichByRules, Row
        <5>4. QED
          BY <5>1, <5>2, <5>3 DEF Written
      <4>3. QED
        BY <1>5, <4>1, <4>2
    <3>2. QED
      BY <3>1
  <2>3. history' \in [Fingerprints -> Seq(History)]
    <3>1. ASSUME NEW f \in Fingerprints PROVE history'[f] \in Seq(History)
      <4>1. history[f] \in Seq(History)
        BY DEF IInv, TypeOK
      <4>2. CASE f \in locked[w]
        BY <1>3, <4>1, <4>2, Appended
      <4>3. QED
        BY <1>5, <4>1, <4>2
    <3>2. QED
      BY <3>1
  <2>4. /\ locked' \in [Writers -> SUBSET Fingerprints]
        /\ seen' \in [Writers -> [Fingerprints -> Row]]
        /\ pc' \in [Writers -> WriterPc]
        /\ began' \in [Writers -> Nat]
    BY DEF IInv, TypeOK, Unseen, Absent, Row, WriterPc
  <2>5. QED
    BY <1>1, <2>2, <2>3, <2>4 DEF IInv, TypeOK
<1>7. \A f \in Fingerprints : history[f] \in Seq(History)
  BY DEF IInv, TypeOK
<1>8. DetectedOnce'
  <2> SUFFICES ASSUME NEW f \in Fingerprints
               PROVE  \A i \in DOMAIN history'[f] : (history'[f][i].type = "detected") <=> (i = 1)
    BY DEF DetectedOnce
  <2>1. \A i \in DOMAIN history[f] : (history[f][i].type = "detected") <=> (i = 1)
    BY DEF IInv, DetectedOnce
  <2>2. CASE f \in locked[w]
    BY <1>3, <1>7, <2>1, <2>2, DetectionAfter
  <2>3. QED
    BY <1>5, <2>1, <2>2
<1>9. FoundAllOrNothing'
  <2> SUFFICES ASSUME NEW s \in Scans, NEW f \in Fingerprints
               PROVE  (\E i \in DOMAIN history'[f] : history'[f][i].scan = s
                                                     /\ history'[f][i].type # "retest_started")
                        <=> (Published(s)' /\ f \in DOMAIN found[s])
    BY <1>1 DEF FoundAllOrNothing
  <2>1. (\E i \in DOMAIN history[f] : history[f][i].scan = s /\ history[f][i].type # "retest_started")
          <=> (Published(s) /\ f \in DOMAIN found[s])
    BY DEF IInv, FoundAllOrNothing
  <2>2. CASE f \notin locked[w]
    BY <1>1, <1>2, <1>5, <2>1, <2>2 DEF Writers
  <2>3. CASE f \in locked[w]
    <3>1. (\E i \in DOMAIN history'[f] : history'[f][i].scan = s
                                         /\ history'[f][i].type # "retest_started")
            <=> \/ \E i \in DOMAIN history[f] : history[f][i].scan = s
                                                /\ history[f][i].type # "retest_started"
                \/ LoggedFor(w) = s
      <4>1. \A i \in DOMAIN history'[f] : \/ i \in DOMAIN history[f] /\ history'[f][i] = history[f][i]
                                          \/ history'[f][i] = Logged(w, f)
        BY <1>3, <1>7, <2>3, EntriesAfter
      <4>2. /\ \A i \in DOMAIN history[f] : i \in DOMAIN history'[f] /\ history'[f][i] = history[f][i]
            /\ Len(history[f]) + 1 \in DOMAIN history'[f]
            /\ history'[f][Len(history[f]) + 1] = Logged(w, f)
        BY <1>3, <1>7, <2>3, Appended
      <4>3. Logged(w, f).scan = LoggedFor(w) /\ Logged(w, f).type # "retest_started"
        BY <1>3, <2>3
      <4>4. QED
        BY <4>1, <4>2, <4>3
    <3>2. LoggedFor(w) = s <=> w = s
      BY FindingAssumption DEF LoggedFor, Writers
    <3>3. QED
      BY <1>1, <1>2, <2>1, <2>3, <3>1, <3>2 DEF Writers
  <2>4. QED
    BY <2>2, <2>3
<1>10. StatusExplained'
  <2> SUFFICES ASSUME NEW f \in Fingerprints, row'[f].status # "absent"
               PROVE  Explains(history'[f], row'[f].status)
    BY DEF StatusExplained, Explains
  <2>1. row[f].status # "absent" => Explains(history[f], row[f].status)
    BY DEF IInv, StatusExplained, Explains
  <2>2. CASE f \in locked[w]
    <3>1. \/ Logged(w, f).to = row'[f].status
          \/ Logged(w, f).to = "kept" /\ Explains(history[f], row'[f].status)
      BY <1>4, <2>1, <2>2
    <3>2. /\ Logged(w, f).created < Logged(w, f).committed
          /\ \A i \in DOMAIN history[f] : history[f][i].created < Logged(w, f).committed
      BY <1>3, <2>2 DEF IInv, Stamps
    <3>3. QED
      BY <1>3, <1>7, <2>2, <3>1, <3>2, ExplainedAfter
  <2>3. QED
    BY <1>5, <2>1, <2>2
<1>11. Rows'
  <2>1. \A f \in Fingerprints : row[f].status # "absent" => row'[f].status # "absent"
    BY <1>4, <1>5, FindingAssumption DEF Open
  <2>2. \A f \in locked[w] : history'[f] # << >>
    BY <1>1, <1>3, <1>7, Appended
  <2>3. \A f \in Fingerprints : row'[f].status = "absent" <=> history'[f] = << >>
    BY <1>4, <1>5, <2>2, FindingAssumption DEF IInv, Rows, Open
  <2>4. \A u \in Reviewers : review[u].finding # "none" => review[u].finding \in Fingerprints
    BY DEF IInv, TypeOK
  <2>5. \A f \in Fingerprints : row'[f].status = "absent" => row'[f] = row[f]
    BY <1>4, <1>5, FindingAssumption DEF Open
  <2>6. QED
    BY <1>1, <2>1, <2>3, <2>4, <2>5 DEF IInv, Rows
<1>12. Working' /\ Loaded'
  <2>1. Working'
    BY <1>1 DEF IInv, Working, Persisting
  <2>2. \A f \in Fingerprints : row[f].status # "absent" => row'[f].status # "absent"
    BY <1>4, <1>5, FindingAssumption DEF Open
  <2>3. Loaded'
    BY <1>1, <2>2 DEF IInv, TypeOK, Loaded, Writers
  <2>4. QED
    BY <2>1, <2>3
<1>13. Locks'
  <2>1. \A v \in Writers \ {w} : \A f \in locked[v] : row'[f] = row[f]
    BY <1>5 DEF IInv, TypeOK, Locks
  <2>2. \A f \in Fingerprints : row[f].status # "absent" => row'[f].status # "absent"
    BY <1>4, <1>5, FindingAssumption DEF Open
  <2>3. \A v \in Writers : locked'[v] \subseteq locked[v] /\ locked[v] \cup dirty[v] \subseteq Fingerprints
    BY <1>1 DEF IInv, TypeOK
  <2>4. QED
    BY <1>1, <2>1, <2>2, <2>3 DEF IInv, Locks
<1>14. Scheduled'
  <2>1. \A f \in Fingerprints : \A i \in DOMAIN history'[f] :
          \/ i \in DOMAIN history[f] /\ history'[f][i] = history[f][i]
          \/ history'[f][i].scan = LoggedFor(w) /\ history'[f][i].type # "retest_started"
    <3> TAKE f \in Fingerprints
    <3> TAKE i \in DOMAIN history'[f]
    <3>1. CASE f \notin locked[w]
      BY <1>5, <3>1
    <3>2. CASE f \in locked[w]
      <4>1. \/ i \in DOMAIN history[f] /\ history'[f][i] = history[f][i]
            \/ history'[f][i] = Logged(w, f)
        BY <1>3, <1>7, <3>2, EntriesAfter
      <4>2. QED
        BY <1>3, <3>2, <4>1
    <3>3. QED
      BY <3>1, <3>2
  <2>2. \A s \in Scans : LoggedFor(w) = s => pc'[s] # "idle"
    BY <1>1, FindingAssumption DEF LoggedFor, Writers
  <2>3. \A s \in Scans : pc'[s] = "idle" => pc[s] = "idle"
    BY <1>1 DEF Writers
  <2>4. QED
    BY <1>1, <2>1, <2>2, <2>3 DEF IInv, Scheduled
<1>15. SeenRows' /\ Stamps'
  <2>1. SeenRows'
    BY <1>1 DEF IInv, SeenRows, Unseen, Absent
  <2>2. \A f \in Fingerprints : \A i \in DOMAIN history'[f] : history'[f][i].created < clock
    <3> TAKE f \in Fingerprints
    <3> TAKE i \in DOMAIN history'[f]
    <3>1. CASE f \notin locked[w]
      BY <1>5, <3>1 DEF IInv, Stamps
    <3>2. CASE f \in locked[w]
      <4>1. \/ i \in DOMAIN history[f] /\ history'[f][i] = history[f][i]
            \/ history'[f][i] = Logged(w, f)
        BY <1>3, <1>7, <3>2, EntriesAfter
      <4>2. QED
        BY <1>3, <3>2, <4>1 DEF IInv, Stamps
    <3>3. QED
      BY <3>1, <3>2
  <2>3. clock > 0
    BY DEF IInv, TypeOK
  <2>4. QED
    BY <1>1, <2>1, <2>2, <2>3 DEF IInv, Stamps
<1>16. TextBelongs'
  <2> SUFFICES ASSUME NEW f \in Fingerprints, row'[f].status # "absent"
               PROVE  LET finders == {v \in Writers : Published(v)' /\ f \in DOMAIN found[v]} IN
                      /\ row'[f].about \in finders
                      /\ row'[f].text \in {"llm", found[row'[f].about][f]}
                      /\ row'[f].scan \in finders \cup {NoScan}
                      /\ \E v \in finders : row'[f].severity = found[v][f]
                      /\ f \notin enriched => row'[f].text = row'[f].severity
    BY <1>1 DEF TextBelongs
  <2> DEFINE before == {v \in Writers : Published(v) /\ f \in DOMAIN found[v]}
             finders == {v \in Writers : Published(v)' /\ f \in DOMAIN found[v]}
  <2>1. row[f].status # "absent" =>
          /\ row[f].about \in before /\ row[f].text \in {"llm", found[row[f].about][f]}
          /\ row[f].scan \in before \cup {NoScan} /\ \E v \in before : row[f].severity = found[v][f]
          /\ f \notin enriched => row[f].text = row[f].severity
    BY DEF IInv, TextBelongs
  <2>2. before \subseteq finders
    BY <1>2
  <2>3. CASE f \notin locked[w]
    BY <1>5, <2>1, <2>2, <2>3
  <2>4. CASE f \in locked[w]
    <3>1. w \in finders
      BY <1>1, <1>2, <2>4
    <3>2. found[w][f] = seen[w][f].text \/ found[w][f] = seen[w][f].severity
            => row[f].status # "absent"
      BY <1>4, <2>4
    <3>3. row'[f].about \in finders /\ row'[f].text \in {"llm", found[row'[f].about][f]}
      <4>1. CASE found[w][f] # seen[w][f].text
        BY <1>4, <2>4, <3>1, <4>1
      <4>2. CASE found[w][f] = seen[w][f].text
        BY <1>4, <2>1, <2>2, <2>4, <3>2, <4>2
      <4>3. QED
        BY <4>1, <4>2
    <3>4. row'[f].scan \in finders \cup {NoScan}
      BY <1>4, <2>1, <2>2, <2>4, <3>1, FindingAssumption DEF Writers
    <3>5. \E v \in finders : row'[f].severity = found[v][f]
      BY <1>4, <2>1, <2>2, <2>4, <3>1, <3>2 DEF SeverityWritten
    <3>6. ASSUME f \notin enriched PROVE row'[f].text = row'[f].severity
      <4>1. seen[w][f].text = seen[w][f].severity
        BY <3>6 DEF IInv, SeenRows
      <4>2. QED
        BY <1>4, <2>1, <2>4, <3>2, <3>6, <4>1 DEF SeverityWritten
    <3>7. QED
      BY <3>3, <3>4, <3>5, <3>6
  <2>5. QED
    BY <2>3, <2>4
<1>17. DeltaMatchesScan' /\ Compared'
  BY <1>1, <1>2 DEF IInv, TypeOK, DeltaMatchesScan, Compared, Writers
<1>18. QED
  BY <1>6, <1>8, <1>9, <1>10, <1>11, <1>12, <1>13, <1>14, <1>15, <1>16, <1>17 DEF IInv

\* A retest is logged with its scan when the scan starts.
LEMMA RetestStep ==
    ASSUME IInv, NEW s \in Scans, NEW f \in Fingerprints, Retest(f, s)
    PROVE  IInv'
<1> DEFINE e == [type |-> "retest_started", scan |-> s, to |-> "kept",
                created |-> clock, committed |-> clock + 1]
<1> USE DEF Retest, GoTo
<1>1. /\ pc[s] = "idle" /\ pc'[s] = "scanning" /\ \A v \in Writers \ {s} : pc'[v] = pc[v]
      /\ row[f].status # "absent" /\ s \in Writers
      /\ e \in History /\ e.type = "retest_started" /\ e.scan = s /\ e.to = "kept" /\ e.created = clock
      /\ clock \in Nat /\ clock' = clock + 1
      /\ history[f] \in Seq(History) /\ history'[f] = Append(history[f], e)
      /\ \A g \in Fingerprints \ {f} : history'[g] = history[g]
      /\ UNCHANGED << row, events, last, found, left, seen, dirty, locked, previous, loaded, review, edits, began, enriched >>
  <2>1. /\ e \in History /\ e.type = "retest_started" /\ e.scan = s /\ e.to = "kept"
        /\ e.created = clock /\ clock \in Nat
    BY DEF IInv, TypeOK, History
  <2>2. history \in [Fingerprints -> Seq(History)] /\ pc \in [Writers -> WriterPc] /\ s \in Writers
    BY DEF IInv, TypeOK, Writers
  <2>3. QED
    BY <2>1, <2>2
<1> HIDE DEF e, Retest
<1>2. TypeOK'
  <2>1. history' \in [Fingerprints -> Seq(History)]
    BY <1>1, Appended DEF IInv, TypeOK, Retest, e
  <2>2. pc' \in [Writers -> WriterPc]
    BY <1>1 DEF IInv, TypeOK, WriterPc, Retest
  <2>3. QED
    BY <1>1, <2>1, <2>2 DEF IInv, TypeOK
<1>3. \A v \in Writers : Published(v)' <=> Published(v)
  BY <1>1 DEF Published
<1>4. \A i \in DOMAIN history'[f] : \/ i \in DOMAIN history[f] /\ history'[f][i] = history[f][i]
                                    \/ history'[f][i] = e
  BY <1>1, EntriesAfter
<1>5. \A i \in DOMAIN history[f] : i \in DOMAIN history'[f] /\ history'[f][i] = history[f][i]
  BY <1>1, Appended
<1>6. DetectedOnce'
  <2>1. history[f] # << >>
    BY <1>1 DEF IInv, Rows
  <2>2. \A i \in DOMAIN history'[f] : (history'[f][i].type = "detected") <=> (i = 1)
    BY <1>1, <2>1, DetectionAfter DEF IInv, DetectedOnce
  <2>3. QED
    BY <1>1, <2>2 DEF IInv, DetectedOnce
<1>7. FoundAllOrNothing'
  <2> SUFFICES ASSUME NEW t \in Scans, NEW g \in Fingerprints
               PROVE  (\E i \in DOMAIN history'[g] : history'[g][i].scan = t
                                                     /\ history'[g][i].type # "retest_started")
                        <=> (Published(t) /\ g \in DOMAIN found[t])
    BY <1>1, <1>3 DEF FoundAllOrNothing, Writers
  <2>1. (\E i \in DOMAIN history[g] : history[g][i].scan = t /\ history[g][i].type # "retest_started")
          <=> (Published(t) /\ g \in DOMAIN found[t])
    BY DEF IInv, FoundAllOrNothing
  <2>2. CASE g # f
    BY <1>1, <2>1, <2>2
  <2>3. CASE g = f
    <3>1. (\E i \in DOMAIN history'[f] : history'[f][i].scan = t
                                         /\ history'[f][i].type # "retest_started")
            <=> \E i \in DOMAIN history[f] : history[f][i].scan = t
                                             /\ history[f][i].type # "retest_started"
      BY <1>1, <1>4, <1>5
    <3>2. QED
      BY <2>1, <2>3, <3>1
  <2>4. QED
    BY <2>2, <2>3
<1>8. StatusExplained'
  <2> SUFFICES ASSUME NEW g \in Fingerprints, row[g].status # "absent"
               PROVE  Explains(history'[g], row[g].status)
    BY <1>1 DEF StatusExplained, Explains
  <2>1. Explains(history[g], row[g].status)
    BY DEF IInv, StatusExplained, Explains
  <2>2. QED
    BY <1>1, <2>1, ExplainedAfter
<1>9. DeltaMatchesScan' /\ Locks' /\ SeenRows'
  BY <1>1 DEF IInv, DeltaMatchesScan, Locks, SeenRows
<1>16. TextBelongs'
  BY <1>1, <1>3, TextKept
<1>17. Stamps'
  <2>1. \A g \in Fingerprints : \A i \in DOMAIN history'[g] :
          \/ i \in DOMAIN history[g] /\ history'[g][i] = history[g][i]
          \/ history'[g][i] = e
    <3> TAKE g \in Fingerprints
    <3>1. CASE g = f
      BY <1>4, <3>1
    <3>2. CASE g # f
      BY <1>1, <3>2
    <3>3. QED
      BY <3>1, <3>2
  <2>2. /\ \A g \in Fingerprints : \A i \in DOMAIN history[g] :
             history[g][i].created \in Nat /\ history[g][i].created < clock
        /\ \A v \in Writers : began[v] \in Nat /\ began[v] < clock
        /\ \A u \in Reviewers : review[u].began \in Nat /\ review[u].began < clock
    BY StampTypes DEF IInv, Stamps
  <2>3. QED
    BY <1>1, <2>1, <2>2 DEF Stamps
<1>10. Rows'
  <2>1. history'[f] # << >>
    BY <1>1, Appended
  <2>2. QED
    BY <1>1, <2>1 DEF IInv, Rows
<1>11. Working'
  BY <1>1 DEF IInv, Working, Persisting
<1>15. Loaded'
  BY <1>1 DEF IInv, Loaded, Writers
<1>12. Scheduled'
  <2>1. previous[s] = NoScan
    BY <1>1 DEF IInv, Scheduled
  <2>2. \A t \in Scans : pc'[t] = "idle" => pc[t] = "idle" /\ t # s
    BY <1>1 DEF Writers
  <2>3. \A g \in Fingerprints : \A i \in DOMAIN history'[g] :
          \/ i \in DOMAIN history[g] /\ history'[g][i] = history[g][i]
          \/ history'[g][i].scan = s
    <3> TAKE g \in Fingerprints
    <3>1. CASE g = f
      BY <1>1, <1>4, <3>1
    <3>2. CASE g # f
      BY <1>1, <3>2
    <3>3. QED
      BY <3>1, <3>2
  <2>4. QED
    BY <1>1, <2>1, <2>2, <2>3 DEF IInv, Scheduled
<1>13. Compared'
  BY <1>1, <1>3 DEF IInv, TypeOK, Compared, Writers
<1>14. QED
  BY <1>2, <1>6, <1>7, <1>8, <1>9, <1>10, <1>11, <1>12, <1>13, <1>15, <1>16, <1>17 DEF IInv

-----------------------------------------------------------------------------
\* What a delta takes for found by a scheduled scan is what the scan has found.
LEMMA FoundByScan ==
    ASSUME IInv, NEW s \in Scans, Published(s), previous[s] # NoScan
    PROVE  FoundBy(s) = DOMAIN found[s]
<1>1. DOMAIN found[s] \subseteq Fingerprints
  BY DEF IInv, TypeOK, Writers
<1>2. \A f \in Fingerprints :
        (\E i \in DOMAIN history[f] : history[f][i].scan = s) <=> f \in DOMAIN found[s]
  BY DEF IInv, FoundAllOrNothing, Scheduled
<1>3. QED
  BY <1>1, <1>2 DEF FoundBy

\* An index has the keys of what it indexes.
LEMMA IndexKeys ==
    ASSUME NEW fs, NEW ix \in Indexes(fs)
    PROVE  DOMAIN ix = {Key[f] : f \in fs}
  BY DEF Indexes

\* The delta of a scheduled scan reports as new what it found, and as gone what it did not.
LEMMA DeltaStep == ASSUME IInv, NEW s \in Scans, AnalyzeDelta(s) \/ SkipDelta(s) PROVE IInv'
<1> USE DEF GoTo, store
<1>1. /\ pc[s] = "delta" /\ pc'[s] \in {"enrich", "done"} /\ s \in Writers
      /\ \A v \in Writers \ {s} : pc'[v] = pc[v]
      /\ UNCHANGED << store, last, found, left, seen, dirty, locked, previous, loaded, review, edits, clock, began, enriched >>
  BY DEF IInv, TypeOK, AnalyzeDelta, SkipDelta, Writers
<1>2. /\ \A v \in Writers : Published(v)' <=> Published(v)
      /\ Published(s)
  BY <1>1 DEF Published
<1>3. ASSUME NEW e \in events', e \notin events
      PROVE  /\ e \in [type : EventTypes, scan : Scans, key : {Key[f] : f \in Fingerprints}]
             /\ e.scan = s
             /\ IF e.type = "resolved_finding" THEN e.key \notin {Key[f] : f \in DOMAIN found[s]}
                                               ELSE e.key \in {Key[f] : f \in DOMAIN found[s]}
  <2>1. previous[s] # NoScan
    BY <1>3 DEF AnalyzeDelta, SkipDelta
  <2>2. PICK current \in Indexes(FoundBy(s)), before \in Indexes(FoundBy(previous[s])) :
          events' = events \cup Events(s, current, before)
    BY <1>3, <2>1 DEF AnalyzeDelta, SkipDelta
  <2>3. DOMAIN current = {Key[f] : f \in DOMAIN found[s]}
    BY <1>2, <2>1, IndexKeys, FoundByScan
  <2>4. DOMAIN before \subseteq {Key[f] : f \in Fingerprints}
    <3>1. FoundBy(previous[s]) \subseteq Fingerprints
      BY DEF FoundBy
    <3>2. DOMAIN before = {Key[f] : f \in FoundBy(previous[s])}
      BY IndexKeys
    <3>3. QED
      BY <3>1, <3>2
  <2>5. DOMAIN current \subseteq {Key[f] : f \in Fingerprints}
    <3>1. DOMAIN found[s] \subseteq Fingerprints
      BY <1>1 DEF IInv, TypeOK
    <3>2. QED
      BY <2>3, <3>1
  <2>6. e \in Events(s, current, before)
    BY <1>3, <2>2
  <2>7. CASE e \in {[type |-> "new_finding", scan |-> s, key |-> k] : k \in DOMAIN current \ DOMAIN before}
    BY <2>3, <2>5, <2>7 DEF EventTypes
  <2>8. CASE e \in {[type |-> "resolved_finding", scan |-> s, key |-> k] : k \in DOMAIN before \ DOMAIN current}
    BY <2>3, <2>4, <2>8 DEF EventTypes
  <2>9. CASE e \in {[type |-> "severity_changed", scan |-> s, key |-> k] :
                      k \in {k \in DOMAIN current \cap DOMAIN before :
                               KnownSeverity(s, current[k]) # KnownSeverity(s, before[k])}}
    BY <2>3, <2>5, <2>9 DEF EventTypes
  <2>10. QED
    BY <2>6, <2>7, <2>8, <2>9 DEF Events
<1>4. TypeOK'
  <2>1. events' \subseteq [type : EventTypes, scan : Scans, key : {Key[f] : f \in Fingerprints}]
    BY <1>3 DEF IInv, TypeOK
  <2>2. pc' \in [Writers -> WriterPc]
    BY <1>1, ZenonT(30) DEF IInv, TypeOK, WriterPc, AnalyzeDelta, SkipDelta
  <2>3. QED
    BY <1>1, <2>1, <2>2 DEF IInv, TypeOK
<1>5. DeltaMatchesScan'
  BY <1>1, <1>3 DEF IInv, DeltaMatchesScan
<1>6. Compared'
  <2> SUFFICES ASSUME NEW e \in events' PROVE pc'[e.scan] \in {"delta", "enrich", "asking", "done"}
    BY DEF Compared, Published
  <2>1. e.scan \in Writers /\ Published(e.scan)
    BY <1>1, <1>2, <1>3 DEF IInv, TypeOK, Compared, Writers
  <2>2. QED
    BY <1>1, <2>1 DEF Published
<1>7. FoundAllOrNothing'
  BY <1>1, <1>2 DEF IInv, TypeOK, FoundAllOrNothing, Writers
<1>8. Rows' /\ Locks' /\ SeenRows' /\ Stamps'
  BY <1>1 DEF IInv, Rows, Locks, SeenRows, Stamps
<1>12. TextBelongs'
  BY <1>1, <1>2, TextKept
<1>9. Working' /\ Loaded'
  BY <1>1 DEF IInv, TypeOK, Working, Loaded, Writers, Persisting
<1>10. Scheduled'
  BY <1>1 DEF IInv, Scheduled, Writers
<1>11. QED
  BY <1>1, <1>4, <1>5, <1>6, <1>7, <1>8, <1>9, <1>10, <1>12, StoreKept DEF IInv

-----------------------------------------------------------------------------
\* The enrichment writes texts onto rows its scan has found, and nothing else.
LEMMA EnrichStep ==
    ASSUME IInv, NEW s \in Scans, LoadForEnrichment(s) \/ WriteEnrichment(s) \/ NoEnrichment(s)
    PROVE  IInv'
<1> USE DEF GoTo
<1>1. /\ pc[s] \in {"enrich", "asking"} /\ pc'[s] \in {"asking", "done"} /\ s \in Writers
      /\ \A v \in Writers \ {s} : pc'[v] = pc[v]
      /\ \A t \in Scans \ {s} : loaded'[t] = loaded[t]
      /\ UNCHANGED << history, events, last, found, left, seen, dirty, locked, previous, review, edits, clock, began >>
      /\ enriched \subseteq enriched' /\ enriched' \subseteq Fingerprints
  BY DEF IInv, TypeOK, LoadForEnrichment, WriteEnrichment, NoEnrichment, Writers, store
<1>2. ASSUME NEW f \in Fingerprints
      PROVE  \/ row'[f] = row[f]
             \/ /\ f \in loaded[s] /\ pc[s] = "asking" /\ row'[f] = EnrichByLlm(row[f], s)
                /\ row'[f].status = row[f].status /\ row'[f].scan = row[f].scan
                /\ row'[f].severity = row[f].severity
                /\ row'[f].text = "llm" /\ row'[f].about = s /\ f \in enriched'
  <2>1. row[f] \in Row
    BY DEF IInv, TypeOK
  <2>2. CASE UNCHANGED row
    BY <2>2
  <2>3. CASE WriteEnrichment(s)
    <3>1. PICK answered \in SUBSET loaded[s] :
            /\ row' = [g \in Fingerprints |-> IF g \in answered THEN EnrichByLlm(row[g], s) ELSE row[g]]
            /\ enriched' = enriched \cup answered
      BY <2>3 DEF WriteEnrichment
    <3>2. CASE f \in answered
      <4>1. f \in loaded[s] /\ pc[s] = "asking" /\ row'[f] = EnrichByLlm(row[f], s)
        BY <2>3, <3>1, <3>2 DEF WriteEnrichment
      <4>2. QED
        BY <2>1, <3>1, <3>2, <4>1 DEF EnrichByLlm, Row
    <3>3. CASE f \notin answered
      BY <3>1, <3>3
    <3>4. QED
      BY <3>2, <3>3
  <2>4. QED
    BY <2>2, <2>3 DEF LoadForEnrichment, NoEnrichment, store
<1>3. /\ \A f \in Fingerprints : row'[f].status = row[f].status /\ row'[f].scan = row[f].scan
      /\ \A f \in Fingerprints : row[f].status = "absent" => row'[f] = row[f]
  BY <1>2 DEF IInv, Loaded
<1>4. TypeOK'
  <2>1. row' \in [Fingerprints -> Row]
    <3>1. CASE UNCHANGED row
      BY <3>1 DEF IInv, TypeOK
    <3>2. CASE WriteEnrichment(s)
      <4>1. ASSUME NEW f \in Fingerprints
            PROVE  row'[f] \in Row
        <5>1. row[f] \in Row
          BY DEF IInv, TypeOK
        <5>2. QED
          BY <1>1, <1>2, <5>1 DEF EnrichByLlm, Row
      <4>2. row' = [f \in Fingerprints |-> row'[f]]
        BY <3>2 DEF WriteEnrichment
      <4>3. QED
        BY <4>1, <4>2
    <3>3. QED
      BY <3>1, <3>2 DEF LoadForEnrichment, NoEnrichment, store
  <2>2. pc' \in [Writers -> WriterPc]
    <3>1. pc' = [pc EXCEPT ![s] = "asking"] \/ pc' = [pc EXCEPT ![s] = "done"]
      BY DEF LoadForEnrichment, WriteEnrichment, NoEnrichment
    <3>2. QED
      BY <3>1 DEF IInv, TypeOK, WriterPc
  <2>3. loaded' \in [Scans -> SUBSET Fingerprints]
    <3>1. \E fs \in SUBSET Fingerprints : loaded' = [loaded EXCEPT ![s] = fs]
      <4>1. CASE LoadForEnrichment(s)
        BY <4>1 DEF LoadForEnrichment
      <4>2. CASE WriteEnrichment(s) \/ NoEnrichment(s)
        BY <4>2 DEF WriteEnrichment, NoEnrichment
      <4>3. QED
        BY <4>1, <4>2
    <3>2. QED
      BY <3>1 DEF IInv, TypeOK
  <2>4. QED
    BY <1>1, <2>1, <2>2, <2>3 DEF IInv, TypeOK
<1>5. /\ \A v \in Writers : Published(v)' <=> Published(v)
      /\ Published(s)
  BY <1>1 DEF Published
<1>6. DetectedOnce' /\ StatusExplained' /\ DeltaMatchesScan'
  BY <1>1, <1>3 DEF IInv, DetectedOnce, StatusExplained, DeltaMatchesScan
<1>7. FoundAllOrNothing' /\ Compared'
  BY <1>1, <1>5 DEF IInv, TypeOK, FoundAllOrNothing, Compared, Writers
<1>8. TextBelongs'
  <2> SUFFICES ASSUME NEW f \in Fingerprints, row'[f].status # "absent"
               PROVE  LET finders == {v \in Writers : Published(v)' /\ f \in DOMAIN found[v]} IN
                      /\ row'[f].about \in finders
                      /\ row'[f].text \in {"llm", found[row'[f].about][f]}
                      /\ row'[f].scan \in finders \cup {NoScan}
                      /\ \E v \in finders : row'[f].severity = found[v][f]
                      /\ f \notin enriched' => row'[f].text = row'[f].severity
    BY <1>1 DEF TextBelongs
  <2> DEFINE finders == {v \in Writers : Published(v) /\ f \in DOMAIN found[v]}
  <2>1. finders = {v \in Writers : Published(v)' /\ f \in DOMAIN found[v]}
    BY <1>5
  <2>2. /\ row[f].about \in finders /\ row[f].text \in {"llm", found[row[f].about][f]}
        /\ row[f].scan \in finders \cup {NoScan} /\ \E v \in finders : row[f].severity = found[v][f]
        /\ f \notin enriched => row[f].text = row[f].severity
    BY <1>3 DEF IInv, TextBelongs
  <2>3. CASE row'[f] = row[f]
    BY <1>1, <2>1, <2>2, <2>3
  <2>4. CASE row'[f] # row[f]
    <3>1. s \in finders
      BY <1>1, <1>2, <1>5, <2>4 DEF IInv, Loaded
    <3>2. QED
      BY <1>2, <2>1, <2>2, <2>4, <3>1
  <2>5. QED
    BY <2>3, <2>4
<1>9. Rows'
  <2>1. \A u \in Reviewers : review[u].finding # "none" => review[u].finding \in Fingerprints
    BY DEF IInv, TypeOK
  <2>2. QED
    BY <1>1, <1>3, <2>1 DEF IInv, Rows
<1>10. Working'
  BY <1>1 DEF IInv, Working, Persisting
<1>11. Locks'
  BY <1>1, <1>3 DEF IInv, TypeOK, Locks
<1>12. Scheduled'
  BY <1>1 DEF IInv, Scheduled, Writers
<1>13. SeenRows' /\ Stamps'
  BY <1>1 DEF IInv, SeenRows, Stamps
<1>14. Loaded'
  <2> SUFFICES ASSUME NEW t \in Scans, NEW f \in loaded'[t]
               PROVE  pc'[t] = "asking" /\ f \in DOMAIN found[t] /\ row'[f].status # "absent"
    BY <1>1 DEF Loaded
  <2>1. \A f_1 \in loaded[t] : f_1 \in Fingerprints
    BY DEF IInv, TypeOK
  <2>2. CASE t # s
    BY <1>1, <1>3, <2>1, <2>2 DEF IInv, Loaded, Writers
  <2>3. CASE t = s
    <3>1. LoadForEnrichment(s) /\ f \in Fingerprints /\ row[f].status # "absent" /\ row[f].scan = s
      BY <2>3 DEF IInv, TypeOK, LoadForEnrichment, WriteEnrichment, NoEnrichment
    <3>2. pc'[s] = "asking"
      BY <1>1, <3>1 DEF IInv, TypeOK, LoadForEnrichment
    <3>3. QED
      BY <1>3, <2>3, <3>1, <3>2, FindingAssumption DEF IInv, TextBelongs
  <2>4. QED
    BY <2>2, <2>3
<1>15. QED
  BY <1>4, <1>6, <1>7, <1>8, <1>9, <1>10, <1>11, <1>12, <1>13, <1>14 DEF IInv

-----------------------------------------------------------------------------
\* A request begins, loads a row and sets its status; the history says so.
LEMMA ReviewStep ==
    ASSUME IInv, NEW u \in Reviewers,
           \/ BeginReview(u) \/ \E f \in Fingerprints : OpenReview(u, f)
           \/ \E to \in Open : SetStatus(u, to)
    PROVE  IInv'
<1>0. CASE BeginReview(u)
  <2>1. /\ review' = [review EXCEPT ![u].began = clock]
        /\ clock' = clock + 1 /\ edits' = edits + 1 /\ edits < MaxEdits
        /\ UNCHANGED << row, history, events, last, pc, found, left, seen, dirty, locked, began, previous, loaded, enriched >>
    BY <1>0 DEF BeginReview, store, writer
  <2>2. /\ review'[u].finding = review[u].finding /\ review'[u].began = clock
        /\ \A v \in Reviewers \ {u} : review'[v] = review[v]
    BY <2>1 DEF IInv, TypeOK
  <2>3. TypeOK'
    <3>1. review' \in [Reviewers -> [finding : Fingerprints \cup {"none"}, status : Open \cup {"none"}, began : Nat]]
      BY <2>1 DEF IInv, TypeOK
    <3>2. edits' \in 0..MaxEdits /\ clock' \in Nat \ {0}
      BY <2>1, FindingAssumption DEF IInv, TypeOK
    <3>3. QED
      BY <2>1, <3>1, <3>2 DEF IInv, TypeOK
  <2>4. Rows'
    BY <2>1, <2>2 DEF IInv, Rows
  <2>5. DetectedOnce' /\ FoundAllOrNothing' /\ StatusExplained' /\ DeltaMatchesScan'
    BY <2>1 DEF IInv, DetectedOnce, FoundAllOrNothing, StatusExplained, DeltaMatchesScan, Published
  <2>6. Working' /\ Locks' /\ Scheduled' /\ SeenRows' /\ Loaded' /\ Compared'
    BY <2>1 DEF IInv, Working, Locks, Scheduled, SeenRows, Loaded, Compared, Published
  <2>7. TextBelongs'
    BY <2>1, TextKept DEF Published
  <2>8. Stamps'
    <3>1. /\ \A g \in Fingerprints : \A i \in DOMAIN history[g] :
               history[g][i].created \in Nat /\ history[g][i].created < clock
          /\ \A v \in Writers : began[v] \in Nat /\ began[v] < clock
          /\ \A v \in Reviewers : review[v].began \in Nat /\ review[v].began < clock
          /\ clock \in Nat
      BY StampTypes DEF IInv, Stamps
    <3>2. QED
      BY <2>1, <2>2, <3>1 DEF Stamps
  <2>9. QED
    BY <2>3, <2>4, <2>5, <2>6, <2>7, <2>8 DEF IInv
<1>1. CASE \E f \in Fingerprints : OpenReview(u, f)
  <2>1. PICK f \in Fingerprints : OpenReview(u, f)
    BY <1>1
  <2>2. /\ row[f].status # "absent"
        /\ review' = [review EXCEPT ![u].finding = f, ![u].status = row[f].status]
        /\ UNCHANGED << row, history, events, last, pc, found, left, seen, dirty, locked, began, previous, loaded, edits, clock, enriched >>
    BY <2>1 DEF OpenReview, store, writer
  <2>8. /\ review'[u].finding = f /\ review'[u].began = review[u].began
        /\ \A v \in Reviewers \ {u} : review'[v] = review[v]
    BY <2>2 DEF IInv, TypeOK
  <2>3. TypeOK'
    <3>1. row[f].status \in Open
      BY <2>2 DEF IInv, TypeOK, Row
    <3>2. review' \in [Reviewers -> [finding : Fingerprints \cup {"none"}, status : Open \cup {"none"}, began : Nat]]
      BY <2>2, <3>1 DEF IInv, TypeOK
    <3>3. QED
      BY <2>2, <3>2 DEF IInv, TypeOK
  <2>4. Rows'
    BY <2>2, <2>8 DEF IInv, Rows
  <2>5. DetectedOnce' /\ FoundAllOrNothing' /\ StatusExplained' /\ DeltaMatchesScan'
    BY <2>2 DEF IInv, DetectedOnce, FoundAllOrNothing, StatusExplained, DeltaMatchesScan, Published
  <2>6. Working' /\ Locks' /\ Scheduled' /\ SeenRows' /\ Loaded' /\ Compared'
    BY <2>2 DEF IInv, Working, Locks, Scheduled, SeenRows, Loaded, Compared, Published
  <2>9. TextBelongs'
    BY <2>2, TextKept DEF Published
  <2>10. Stamps'
    BY <2>2, <2>8 DEF IInv, Stamps
  <2>7. QED
    BY <2>3, <2>4, <2>5, <2>6, <2>9, <2>10 DEF IInv
<1>2. CASE \E to \in Open : SetStatus(u, to)
  <2>1. PICK to \in Open : SetStatus(u, to)
    BY <1>2
  <2> DEFINE f == review[u].finding
             e == [type |-> "status_change", scan |-> NoScan, to |-> to,
                    created |-> review[u].began, committed |-> clock]
  <2>2. /\ f \in Fingerprints /\ review[u].finding # "none"
        /\ \A w \in Writers : f \notin locked[w]
        /\ row[f].status # "absent"
        /\ \A v \in Reviewers \ {u} : review'[v] = review[v]
        /\ review'[u] = Nothing
        /\ UNCHANGED << events, last, pc, found, left, seen, dirty, locked, began, previous, loaded, edits, clock, enriched >>
    BY <2>1 DEF IInv, TypeOK, Rows, SetStatus, writer
  <2>3. /\ e \in History /\ e.type = "status_change" /\ e.scan = NoScan /\ e.to = to
        /\ e.created < clock /\ e.committed = clock
    BY DEF IInv, TypeOK, Stamps, History
  <2>4. CASE UNCHANGED store
    <3>1. TypeOK'
      BY <2>1, <2>2, <2>4, FindingAssumption DEF IInv, TypeOK, SetStatus, Nothing, store
    <3>2. Rows'
      BY <2>2, <2>4 DEF IInv, Rows, Nothing, store
    <3>3. DetectedOnce' /\ FoundAllOrNothing' /\ StatusExplained' /\ DeltaMatchesScan'
      BY <2>2, <2>4 DEF IInv, DetectedOnce, FoundAllOrNothing, StatusExplained,
                        DeltaMatchesScan, Published, store
    <3>4. Working' /\ Locks' /\ Scheduled' /\ SeenRows' /\ Loaded' /\ Compared'
      BY <2>2, <2>4 DEF IInv, Working, Locks, Scheduled, SeenRows, Loaded, Compared, Published, store
    <3>6. TextBelongs'
      BY <2>2, <2>4, TextKept DEF Published, store
    <3>7. Stamps'
      <4>1. clock > 0 /\ Nothing.began = 0
        BY DEF IInv, TypeOK, Nothing
      <4>2. QED
        BY <2>2, <2>4, <4>1 DEF IInv, Stamps, store
    <3>5. QED
      BY <3>1, <3>2, <3>3, <3>4, <3>6, <3>7 DEF IInv
  <2>5. CASE /\ row' = [row EXCEPT ![f].status = to]
             /\ history' = [history EXCEPT ![f] = Append(@, e)]
    <3>1. /\ history[f] \in Seq(History) /\ history'[f] = Append(history[f], e)
          /\ \A g \in Fingerprints \ {f} : history'[g] = history[g] /\ row'[g] = row[g]
          /\ row'[f].status = to /\ row'[f].scan = row[f].scan
          /\ row'[f].text = row[f].text /\ row'[f].about = row[f].about
          /\ row'[f].severity = row[f].severity
          /\ history[f] # << >> /\ to # "absent"
      BY <2>2, <2>5, FindingAssumption DEF IInv, TypeOK, Rows, Row, Open
    <3>2. TypeOK'
      <4>1. history' \in [Fingerprints -> Seq(History)]
        BY <2>3, <2>5, <3>1, Appended DEF IInv, TypeOK
      <4>2. row' \in [Fingerprints -> Row]
        <5>1. ASSUME NEW g \in Fingerprints
              PROVE  row[g] \in Row
          BY DEF IInv, TypeOK
        <5>2. [row[f] EXCEPT !.status = to] \in Row
          BY <2>2, <5>1 DEF Row
        <5>3. row \in [Fingerprints -> Row]
          BY DEF IInv, TypeOK
        <5>4. row' = [row EXCEPT ![f] = [row[f] EXCEPT !.status = to]]
          BY <2>5
        <5> HIDE DEF f
        <5>5. QED
          BY <2>2, <5>2, <5>3, <5>4
      <4>3. review' \in [Reviewers -> [finding : Fingerprints \cup {"none"}, status : Open \cup {"none"}, began : Nat]]
        BY <2>1 DEF IInv, TypeOK, SetStatus, Nothing
      <4>4. edits' \in 0..MaxEdits
        BY <2>2 DEF IInv, TypeOK
      <4>5. QED
        BY <2>2, <4>1, <4>2, <4>3, <4>4 DEF IInv, TypeOK
    <3> HIDE DEF e, f
    <3>3. \A i \in DOMAIN history'[f] : \/ i \in DOMAIN history[f] /\ history'[f][i] = history[f][i]
                                        \/ history'[f][i] = e
      BY <2>3, <3>1, EntriesAfter
    <3>4. \A i \in DOMAIN history[f] : i \in DOMAIN history'[f] /\ history'[f][i] = history[f][i]
      BY <2>3, <3>1, Appended
    <3>5. DetectedOnce'
      <4>1. \A i \in DOMAIN history'[f] : (history'[f][i].type = "detected") <=> (i = 1)
        BY <2>2, <2>3, <3>1, DetectionAfter DEF IInv, DetectedOnce
      <4>2. ASSUME NEW g \in Fingerprints \ {f}
            PROVE  \A i \in DOMAIN history'[g] : (history'[g][i].type = "detected") <=> (i = 1)
        <5>1. history'[g] = history[g]
          BY <3>1
        <5>2. DetectedOnce
          BY DEF IInv
        <5>3. QED
          BY <5>1, <5>2 DEF DetectedOnce
      <4>3. QED
        BY <4>1, <4>2 DEF DetectedOnce
    <3>6. FoundAllOrNothing'
      <4> SUFFICES ASSUME NEW t \in Scans, NEW g \in Fingerprints
                   PROVE  (\E i \in DOMAIN history'[g] : history'[g][i].scan = t
                                                         /\ history'[g][i].type # "retest_started")
                            <=> (Published(t) /\ g \in DOMAIN found[t])
        BY <2>2 DEF FoundAllOrNothing, Published
      <4>1. (\E i \in DOMAIN history[g] : history[g][i].scan = t /\ history[g][i].type # "retest_started")
              <=> (Published(t) /\ g \in DOMAIN found[t])
        BY DEF IInv, FoundAllOrNothing
      <4>2. t # NoScan
        BY FindingAssumption
      <4>3. CASE g = f
        BY <2>3, <3>3, <3>4, <4>1, <4>2, <4>3
      <4>4. CASE g # f
        <5>1. history'[g] = history[g]
          BY <3>1, <4>4
        <5>2. QED
          BY <4>1, <5>1
      <4>5. QED
        BY <4>3, <4>4
    <3>7. StatusExplained'
      <4> SUFFICES ASSUME NEW g \in Fingerprints, row'[g].status # "absent"
                   PROVE  Explains(history'[g], row'[g].status)
        BY DEF StatusExplained, Explains
      <4>1. CASE g = f
        <5>1. \A i \in DOMAIN history[f] : history[f][i].created < clock
          BY <2>2 DEF IInv, Stamps
        <5>2. QED
          BY <2>3, <3>1, <4>1, <5>1, ExplainedAfter
      <4>2. CASE g # f
        <5>1. history'[g] = history[g] /\ row'[g] = row[g] /\ row[g].status # "absent"
          BY <3>1, <4>2
        <5>2. StatusExplained
          BY DEF IInv
        <5>3. Explains(history[g], row[g].status)
          BY <5>1, <5>2 DEF StatusExplained, Explains
        <5>4. QED
          BY <5>1, <5>3
      <4>3. QED
        BY <4>1, <4>2
    <3>8. TextBelongs'
      <4>1. \A g \in Fingerprints :
              /\ row'[g].about = row[g].about /\ row'[g].text = row[g].text
              /\ row'[g].scan = row[g].scan /\ row'[g].severity = row[g].severity
              /\ row'[g].status # "absent" => row[g].status # "absent"
        BY <2>2, <3>1
      <4>2. \A v \in Writers : Published(v)' <=> Published(v)
        BY <2>2 DEF Published
      <4>3. QED
        BY <2>2, <4>1, <4>2 DEF IInv, TextBelongs
    <3>16. SeenRows' /\ Stamps'
      <4>1. \A g \in Fingerprints : \A i \in DOMAIN history'[g] : history'[g][i].created < clock
        <5> TAKE g \in Fingerprints
        <5>1. CASE g = f
          BY <2>3, <3>3, <5>1 DEF IInv, Stamps
        <5>2. CASE g # f
          BY <3>1, <5>2 DEF IInv, Stamps
        <5>3. QED
          BY <5>1, <5>2
      <4>2. QED
        <5>1. clock > 0 /\ Nothing.began = 0
          BY DEF IInv, TypeOK, Nothing
        <5>2. QED
          BY <2>2, <4>1, <5>1 DEF IInv, SeenRows, Stamps
    <3>9. Rows'
      <4>1. history'[f] # << >>
        BY <2>3, <3>1, Appended
      <4>2. \A v \in Reviewers : review[v].finding # "none" => review[v].finding \in Fingerprints
        BY DEF IInv, TypeOK
      <4>3. \A g \in Fingerprints : row[g].status # "absent" => row'[g].status # "absent"
        BY <3>1
      <4>4. \A g \in Fingerprints : row'[g].status = "absent" <=> history'[g] = << >>
        BY <3>1, <4>1 DEF IInv, Rows
      <4>5. \A g \in Fingerprints : row'[g].status = "absent" => row'[g] = Absent
        BY <3>1 DEF IInv, Rows
      <4>6. QED
        BY <2>2, <4>2, <4>3, <4>4, <4>5 DEF IInv, Rows, Nothing
    <3>10. Working' /\ DeltaMatchesScan' /\ Compared'
      BY <2>2 DEF IInv, Working, DeltaMatchesScan, Compared, Published
    <3>15. /\ \A g \in Fingerprints : row[g].status # "absent" => row'[g].status # "absent"
           /\ \A w \in Writers : \A g \in locked[w] : row'[g] = row[g]
      <4>1. \A w \in Writers : locked[w] \subseteq Fingerprints
        BY DEF IInv, TypeOK
      <4>2. QED
        BY <2>2, <3>1, <4>1
    <3>11. Locks'
      <4>1. \A w \in Writers : locked[w] \subseteq Fingerprints /\ dirty[w] \subseteq Fingerprints
        BY DEF IInv, TypeOK
      <4>2. QED
        BY <2>2, <3>15, <4>1 DEF IInv, Locks
    <3>12. Loaded'
      <4>1. \A t \in Scans : loaded[t] \subseteq Fingerprints
        BY DEF IInv, TypeOK
      <4>2. QED
        BY <2>2, <3>15, <4>1 DEF IInv, Loaded
    <3>13. Scheduled'
      <4>1. \A g \in Fingerprints : \A i \in DOMAIN history'[g] :
              \/ i \in DOMAIN history[g] /\ history'[g][i] = history[g][i]
              \/ history'[g][i].scan = NoScan
        <5> TAKE g \in Fingerprints
        <5>1. CASE g = f
          BY <2>3, <3>3, <5>1
        <5>2. CASE g # f
          BY <3>1, <5>2
        <5>3. QED
          BY <5>1, <5>2
      <4>2. QED
        BY <2>2, <4>1, FindingAssumption DEF IInv, Scheduled
    <3>14. QED
      BY <3>2, <3>5, <3>6, <3>7, <3>8, <3>9, <3>10, <3>11, <3>12, <3>13, <3>16 DEF IInv
  <2>6. QED
    BY <2>1, <2>4, <2>5 DEF SetStatus
<1>3. QED
  BY <1>0, <1>1, <1>2

-----------------------------------------------------------------------------
LEMMA NextIInv == IInv /\ [Next]_vars => IInv'
<1> SUFFICES ASSUME IInv, [Next]_vars PROVE IInv'
  OBVIOUS
<1>1. ASSUME NEW s \in Scans, StartScheduled(s) PROVE IInv'
  BY <1>1, StartStep DEF Writers
<1>2. ASSUME NEW s \in Scans, After(s) PROVE IInv'
  BY <1>2, DeltaStep, EnrichStep DEF After
<1>3. ASSUME NEW s \in Scans, NEW f \in Fingerprints, Retest(f, s) PROVE IInv'
  BY <1>3, RetestStep
<1>4. ASSUME NEW w \in Writers, StartOther(w) PROVE IInv'
  BY <1>4, StartStep
<1>5. ASSUME NEW w \in Writers, Analyze(w) PROVE IInv'
  BY <1>5, AnalyzeStep
<1>6. ASSUME NEW w \in Writers, Persist(w) PROVE IInv'
  BY <1>6, LookStep, FlushStep, GiveUpStep, CommitStep DEF Persist
<1>7. ASSUME NEW w \in Writers, Raise(w) PROVE IInv'
  BY <1>7, GiveUpStep
<1>8. ASSUME NEW u \in Reviewers,
             \/ BeginReview(u) \/ \E f \in Fingerprints : OpenReview(u, f)
             \/ \E to \in Open : SetStatus(u, to)
      PROVE  IInv'
  BY <1>8, ReviewStep
<1>9. CASE UNCHANGED vars
  <2>1. TypeOK' /\ Rows' /\ DetectedOnce' /\ FoundAllOrNothing' /\ StatusExplained'
    BY <1>9 DEF IInv, TypeOK, Rows, DetectedOnce, FoundAllOrNothing, StatusExplained, Published,
                vars, store, writer
  <2>2. DeltaMatchesScan' /\ SeenRows' /\ Stamps'
    BY <1>9 DEF IInv, DeltaMatchesScan, SeenRows, Stamps, vars, store, writer
  <2>3. Working' /\ Locks' /\ Scheduled' /\ Loaded' /\ Compared'
    BY <1>9 DEF IInv, Working, Locks, Scheduled, Loaded, Compared, Published,
                vars, store, writer
  <2>5. TextBelongs'
    BY <1>9, TextKept DEF Published, vars, store, writer
  <2>4. QED
    BY <2>1, <2>2, <2>3, <2>5 DEF IInv
<1>10. QED
  BY <1>1, <1>2, <1>3, <1>4, <1>5, <1>6, <1>7, <1>8, <1>9 DEF Next

\* Whatever scans, reviewers and enrichments do to each other's rows, the invariant holds.
THEOREM Invariance == Spec => []IInv
  BY InitIInv, NextIInv, PTL DEF Spec

\* The tables are of their types, a finding is detected once and first, and what a scan has
\* found is in the history, all of it or nothing (persist_analyzed_findings commits once).
THEOREM HistoriesSound == Spec => []HistorySound
<1>1. IInv => HistorySound
  BY DEF IInv, HistorySound
<1>2. QED
  BY <1>1, Invariance, PTL

\* Of the entries that set a status the one committed last sets the row's, however scans and
\* reviewers overwrite each other; list_history shows another above it only if that one's
\* transaction was open when this one was committed (persist_analyzed_findings, update).
THEOREM StatusesExplained == Spec => []StatusExplained
<1>1. IInv => StatusExplained
  BY DEF IInv
<1>2. QED
  BY <1>1, Invariance, PTL

\* A delta reports as gone nothing its scan found, and as new only that (analyze_scan_delta).
THEOREM DeltasMatch == Spec => []DeltaMatchesScan
<1>1. IInv => DeltaMatchesScan
  BY DEF IInv
<1>2. QED
  BY <1>1, Invariance, PTL

\* Column by column, what a row says was written by a published run that found it, and while
\* no LLM ever wrote about it the text names the severity it is listed with, however late a
\* session writes what it changed (persist_analyzed_findings, _enrich_scan_findings).
THEOREM TextsBelong == Spec => []TextBelongs
<1>1. IInv => TextBelongs
  BY DEF IInv
<1>2. QED
  BY <1>1, Invariance, PTL
=============================================================================
