--------------------------- MODULE DeliveryProofs ---------------------------
(***************************************************************************)
(* What TLAPS proves of Heartbeat's deliveries, for any number of          *)
(* overlapping processes, dying or not: how far from a malformed beat a    *)
(* refusal reaches, what stands on the server for a beat that was          *)
(* answered, and how often a beat is sent.                                 *)
(***************************************************************************)
EXTENDS HeartbeatProofs, WellFoundedInduction

USE DEF vars, changing, database, process, history

(* Lists and rows *)

\* Taking off the first beat moves the others up by one.
LEMMA TailShifts ==
  ASSUME NEW list \in Seq(Fresh), list # <<>>
  PROVE  /\ Len(Tail(list)) = Len(list) - 1 /\ Len(list) \in Nat
         /\ \A i \in 1 .. Len(list) - 1 :
              Tail(list)[i] = list[i + 1] /\ i + 1 \in 1 .. Len(list) /\ i + 1 # 1 /\ i \in Nat
<1>1. Len(Tail(list)) = Len(list) - 1 /\ Len(list) \in Nat
  OBVIOUS
<1>2. \A i \in 1 .. Len(list) - 1 : Tail(list)[i] = list[i + 1]
  OBVIOUS
<1> QED
  BY <1>1, <1>2

\* The beats on p's list.
Listed(p) == {todo[p][i] : i \in 1 .. Len(todo[p])}

(***************************************************************************)
(* Beats come on a list from the command line only, and on a row from a    *)
(* list only.                                                              *)
(***************************************************************************)
LEMMA ListStep ==
  ASSUME Inv, [Next]_vars, NEW p \in Procs, NEW b \in Listed(p)'
  PROVE  \/ b \in Listed(p)
         \/ \E beats \in Invocations : \E i \in DOMAIN beats : b = DropUnknownAITool(beats[i])
<1>0. todo \in [Procs -> Seq(Fresh)]
  BY DEF Inv, TypeOK
<1>1. PICK i \in 1 .. Len(todo'[p]) : b = todo'[p][i]
  BY DEF Listed
<1>2. CASE todo'[p] = todo[p]
  BY <1>1, <1>2 DEF Listed
<1>3. CASE todo[p] # <<>> /\ todo'[p] = Tail(todo[p])
  <2> DEFINE list == todo[p]
  <2>1. list \in Seq(Fresh) /\ list # <<>>
    BY <1>0, <1>3
  <2> HIDE DEF list
  <2>2. i \in 1 .. Len(list) - 1 /\ b = Tail(list)[i]
    BY <1>1, <1>3, <2>1, TailShifts DEF list
  <2>3. i + 1 \in 1 .. Len(list) /\ b = list[i + 1]
    BY <2>1, <2>2, TailShifts
  <2> QED
    BY <2>3 DEF list, Listed
<1>4. CASE todo'[p] = <<>>
  BY <1>1, <1>4
<1>5. CASE \E beats \in Invocations :
             todo'[p] = [j \in DOMAIN beats |-> DropUnknownAITool(beats[j])]
  <2>1. PICK beats \in Invocations :
             todo'[p] = [j \in DOMAIN beats |-> DropUnknownAITool(beats[j])]
    BY <1>5
  <2>2. beats \in Seq(Beats) /\ DOMAIN beats = 1 .. Len(beats)
    BY InvocationsAssumption
  <2>3. Len(todo'[p]) = Len(beats)
    BY <2>1, <2>2
  <2> QED
    BY <1>1, <2>1, <2>2, <2>3
<1> DEFINE Change ==
      \/ todo'[p] = todo[p]
      \/ todo[p] # <<>> /\ todo'[p] = Tail(todo[p])
      \/ todo'[p] = <<>>
      \/ \E beats \in Invocations :
           todo'[p] = [j \in DOMAIN beats |-> DropUnknownAITool(beats[j])]
<1>6. Change
  <2>1. ASSUME NEW q \in Procs, NEW beats \in Invocations, Start(q, beats) PROVE Change
    BY <1>0, <2>1 DEF Start
  <2>2. ASSUME NEW q \in Procs, Check(q) PROVE Change
    BY <1>0, <2>2 DEF Check
  <2>3. ASSUME NEW q \in Procs, MarkEmitted(q) PROVE Change
    BY <1>0, <2>3 DEF MarkEmitted, Inv, TypeOK
  <2>4. ASSUME NEW q \in Procs, Die(q) PROVE Change
    BY <1>0, <2>4 DEF Die
  <2>5. ASSUME NEW q \in Procs,
               \/ StartThrottled(q) \/ Enqueue(q) \/ Take(q) \/ PostAccepted(q)
               \/ PostRefused(q) \/ PostFailed(q) \/ Ack(q) \/ Drop(q)
        PROVE  todo' = todo
    BY <2>5 DEF StartThrottled, Enqueue, Take, PostAccepted, PostRefused, PostFailed, Ack, Drop
  <2> QED
    BY <2>1, <2>2, <2>3, <2>4, <2>5 DEF Next, Run
<1> QED
  BY <1>2, <1>3, <1>4, <1>5, <1>6

LEMMA LogStep ==
  ASSUME Inv, [Next]_vars
  PROVE  \/ log' = log
         \/ \E p \in Procs : \E b \in Listed(p) :
              log' = log \union {[id |-> NextId, beat |-> b]}
<1>1. ASSUME NEW p \in Procs, Enqueue(p)
      PROVE  \E b \in Listed(p) : log' = log \union {[id |-> NextId, beat |-> b]}
  <2>1. todo[p] \in Seq(Fresh) /\ todo[p] # <<>>
    BY <1>1 DEF Enqueue, Inv, TypeOK
  <2>2. Head(todo[p]) \in Listed(p)
    BY <2>1 DEF Listed
  <2> QED
    BY <1>1, <2>2 DEF Enqueue
<1>2. ASSUME NEW p \in Procs,
             \/ \E beats \in Invocations : Start(p, beats)
             \/ StartThrottled(p) \/ Check(p) \/ MarkEmitted(p) \/ Take(p)
             \/ PostAccepted(p) \/ PostRefused(p) \/ PostFailed(p) \/ Ack(p) \/ Drop(p) \/ Die(p)
      PROVE  log' = log
  BY <1>2 DEF Start, StartThrottled, Check, MarkEmitted, Take, PostAccepted, PostRefused,
              PostFailed, Ack, Drop, Die
<1> QED
  BY <1>1, <1>2 DEF Next, Run

-----------------------------------------------------------------------------
(* What a refusal takes along *)

\* No beat that is stored, or about to be, has a name the server refuses.
CleanBeats ==
    /\ \A r \in log : r.beat.aiTool # "unknown"
    /\ \A p \in Procs : \A b \in Listed(p) : b.aiTool # "unknown"

\* The readable rows between two, whatever became of them.
Between(lo, hi) == {t \in Readable(log) : lo.id <= t.id /\ t.id <= hi.id}

Near(r, s) == \A lo, hi \in {r, s} : Cardinality(Between(lo, hi)) <= BatchSize

\* Readable rows leave the table from its old end: one that is newer than a row
\* of the table is still there.
TableIsNewest ==
    \A r \in Readable(table) : \A t \in Readable(log) : r.id < t.id => t \in table

BatchesDownClosed ==
    \A p \in Procs : \A r \in batch[p] : \A t \in Readable(table) :
        t.id < r.id => t \in batch[p]

BatchesNear == \A p \in Procs : \A r, s \in batch[p] : Near(r, s)

RefusedNear == \A r \in refused : \E s \in refused : ~s.beat.wellFormed /\ Near(r, s)

RefusalInv == TableIsNewest /\ BatchesDownClosed /\ BatchesNear /\ RefusedNear

-----------------------------------------------------------------------------
\* Rows queued later lie between no two that were there.
LEMMA NearStays ==
  ASSUME Inv, NEW r \in log, NEW s \in log, Near(r, s),
         log \subseteq log',
         \A t \in log' \ log : t.id \in Nat /\ t.id > seq
  PROVE  Near(r, s)'
<1> SUFFICES ASSUME NEW lo \in {r, s}, NEW hi \in {r, s}
             PROVE  Between(lo, hi)' = Between(lo, hi)
  BY DEF Near
<1>1. hi.id \in Nat /\ hi.id <= seq /\ seq \in Nat
  BY DEF Inv, TypeOK, HistoryOK, Rows
<1>2. \A t \in log' : t.id > seq => ~(t.id <= hi.id)
  <2> SUFFICES ASSUME NEW t \in log', t.id > seq, t.id <= hi.id PROVE FALSE
    OBVIOUS
  <2>1. CASE t \in log
    BY <1>1, <2>1 DEF Inv, HistoryOK, TypeOK, Rows
  <2>2. CASE t \notin log
    BY <1>1, <2>2
  <2> QED
    BY <2>1, <2>2
<1> QED
  BY <1>2 DEF Between, Readable

\* Two rows of a window are near each other: what lies between is in it.
LEMMA WindowNear ==
  ASSUME Inv, TableIsNewest, NEW r \in Readable(Oldest(BatchSize)), NEW s \in Readable(Oldest(BatchSize))
  PROVE  Near(r, s)
<1> SUFFICES ASSUME NEW lo \in {r, s}, NEW hi \in {r, s}
             PROVE  Cardinality(Between(lo, hi)) <= BatchSize
  BY DEF Near
<1> DEFINE below == {u \in table : u.id <= hi.id}
<1>1. lo \in Readable(table) /\ lo \in table /\ hi \in Oldest(BatchSize)
  BY DEF Oldest, Readable
<1>2. Between(lo, hi) \subseteq table
  <2> SUFFICES ASSUME NEW t \in Readable(log), lo.id <= t.id PROVE t \in table
    BY DEF Between
  <2>1. CASE lo.id < t.id
    BY <1>1, <2>1 DEF TableIsNewest
  <2>2. CASE lo.id = t.id
    <3>1. t \in log /\ lo \in log
      BY <1>1 DEF Readable, Inv, HistoryOK
    <3>2. t = lo
      BY <2>2, <3>1 DEF Inv, HistoryOK
    <3> QED
      BY <1>1, <3>2
  <2>3. lo.id \in Nat /\ t.id \in Nat
    BY <1>1 DEF Readable, Inv, TypeOK, Rows
  <2> QED
    BY <2>1, <2>2, <2>3
<1>3. Between(lo, hi) \subseteq below
  BY <1>2 DEF Between
<1>4. IsFiniteSet(below)
  BY FS_Subset DEF Inv, HistoryOK
<1>5. Cardinality(below) <= BatchSize
  BY <1>1 DEF Oldest
<1>6. IsFiniteSet(Between(lo, hi)) /\ Cardinality(Between(lo, hi)) <= Cardinality(below)
  BY <1>3, <1>4, FS_Subset
<1>7. Cardinality(below) \in Nat /\ Cardinality(Between(lo, hi)) \in Nat
  BY <1>4, <1>6, FS_CardinalityType
<1> QED
  BY <1>5, <1>6, <1>7, BatchSizeAssumption

-----------------------------------------------------------------------------
\* A step that queues nothing new and takes at most whole batches away.
LEMMA RefusalQuiet ==
  ASSUME Inv, RefusalInv, UNCHANGED <<log, refused>>,
         table' \subseteq table,
         \A p \in Procs : batch'[p] = batch[p] \/ batch'[p] = {},
         TableIsNewest'
  PROVE  RefusalInv'
<1>2. \A r, s : Near(r, s)' <=> Near(r, s)
  BY DEF Near, Between, Readable
<1>3. BatchesDownClosed'
  BY DEF RefusalInv, BatchesDownClosed, Readable
<1>4. BatchesNear' /\ RefusedNear'
  BY <1>2 DEF RefusalInv, BatchesNear, RefusedNear
<1> QED
  BY <1>3, <1>4 DEF RefusalInv

\* Deleting a batch leaves the newest rows.
LEMMA DeleteKeepsNewest ==
  ASSUME Inv, RefusalInv, NEW p \in Procs, log' = log,
         table' = Without(Ids(batch[p]))
  PROVE  TableIsNewest'
<1> SUFFICES ASSUME NEW r \in Readable(table'), NEW t \in Readable(log), r.id < t.id
             PROVE  t \in table'
  BY DEF TableIsNewest, Readable
<1>1. r \in Readable(table) /\ r \in log /\ t \in log /\ batch[p] \subseteq log
  BY DEF Without, Readable, Inv, HistoryOK, BatchesAreOldest
<1>2. t \in table
  BY <1>1 DEF RefusalInv, TableIsNewest
<1>3. ASSUME t.id \in Ids(batch[p]) PROVE FALSE
  <2>1. t \in batch[p]
    BY <1>1, <1>3 DEF Ids, Inv, HistoryOK
  <2>2. r \in batch[p]
    BY <1>1, <2>1 DEF RefusalInv, BatchesDownClosed
  <2> QED
    BY <2>2 DEF Without, Ids, Readable
<1> QED
  BY <1>2, <1>3 DEF Without

-----------------------------------------------------------------------------
\* An unknown name is taken off before a beat is queued.
LEMMA CleanStep == Inv /\ CleanBeats /\ [Next]_vars => CleanBeats'
<1> SUFFICES ASSUME Inv, CleanBeats, [Next]_vars PROVE CleanBeats'
  OBVIOUS
<1>1. \A r \in log' : r.beat.aiTool # "unknown"
  BY LogStep DEF CleanBeats
<1>2. \A b \in Beats : DropUnknownAITool(b).aiTool # "unknown"
  BY BeatsAssumption DEF DropUnknownAITool, BeatType
<1>3. \A beats \in Invocations : \A i \in DOMAIN beats : beats[i] \in Beats
  BY InvocationsAssumption
<1>4. \A p \in Procs : \A b \in Listed(p)' : b.aiTool # "unknown"
  BY <1>2, <1>3, ListStep DEF CleanBeats
<1> QED
  BY <1>1, <1>4 DEF CleanBeats

LEMMA RefusalEnqueue ==
  ASSUME Inv, RefusalInv, NEW p \in Procs, Enqueue(p)
  PROVE  RefusalInv'
<1> DEFINE row == [id |-> NextId, beat |-> Head(todo[p])]
<1>1. todo[p] \in Seq(Fresh) /\ todo[p] # <<>> /\ Head(todo[p]) \in Fresh
  BY DEF Inv, TypeOK, Enqueue
<1>2. row \in Rows /\ row.id = seq + 1 /\ \A r \in log : r.id \in Nat /\ r.id < row.id
  BY <1>1, NewRow DEF Inv, Fresh
<1>3. /\ table' = table \union {row} /\ log' = log \union {row}
      /\ UNCHANGED <<todo, batch, refused>>
  BY DEF Enqueue
<1>5. table \subseteq log /\ seq \in Nat /\ refused \subseteq log /\ \A q \in Procs : batch[q] \subseteq log
  BY DEF Inv, TypeOK, HistoryOK, BatchesAreOldest, Readable
<1> HIDE DEF row
<1>7. TableIsNewest'
  BY <1>2, <1>3, <1>5 DEF RefusalInv, TableIsNewest, Readable
<1>8. BatchesDownClosed'
  BY <1>2, <1>3, <1>5 DEF RefusalInv, BatchesDownClosed, Readable
<1>9. \A r, s \in log : Near(r, s) => Near(r, s)'
  BY <1>2, <1>3, <1>5, NearStays DEF Rows
<1>10. BatchesNear' /\ RefusedNear'
  BY <1>3, <1>5, <1>9 DEF RefusalInv, BatchesNear, RefusedNear
<1> QED
  BY <1>7, <1>8, <1>10 DEF RefusalInv

LEMMA RefusalTake ==
  ASSUME Inv, RefusalInv, NEW p \in Procs, Take(p)
  PROVE  RefusalInv'
<1> DEFINE window == Oldest(BatchSize)
<1>1. /\ UNCHANGED <<log, refused, todo>>
      /\ table' \subseteq table /\ \A r \in table : r \in table' \/ ~r.beat.readable
  BY DEF Take, Corrupt, Readable
<1>2. batch' = [batch EXCEPT ![p] = Readable(window)] /\ batch \in [Procs -> SUBSET Rows]
  BY DEF Take, Inv, TypeOK
<1>3. \A r, s : Near(r, s)' <=> Near(r, s)
  BY <1>1 DEF Near, Between, Readable
<1>4. TableIsNewest'
  BY <1>1 DEF RefusalInv, TableIsNewest, Readable
<1>5. BatchesDownClosed'
  <2> SUFFICES ASSUME NEW q \in Procs, NEW r \in batch'[q], NEW t \in Readable(table'), t.id < r.id
               PROVE  t \in batch'[q]
    BY DEF BatchesDownClosed, Readable
  <2>1. t \in Readable(table) /\ t \in table
    BY <1>1 DEF Readable
  <2>2. CASE q = p
    <3>1. r \in Readable(window)
      BY <1>2, <2>2
    <3>2. t \in window
      BY <2>1, <3>1, WindowIsOldest DEF Inv, Readable
    <3> QED
      BY <1>2, <2>1, <2>2, <3>2 DEF Readable
  <2>3. CASE q # p
    BY <1>2, <2>1, <2>3 DEF RefusalInv, BatchesDownClosed
  <2> QED
    BY <2>2, <2>3
<1>6. BatchesNear'
  <2> SUFFICES ASSUME NEW q \in Procs, NEW r \in batch'[q], NEW s \in batch'[q] PROVE Near(r, s)
    BY <1>3 DEF BatchesNear
  <2>1. CASE q = p
    BY <1>2, <2>1, WindowNear DEF RefusalInv
  <2>2. CASE q # p
    BY <1>2, <2>2 DEF RefusalInv, BatchesNear
  <2> QED
    BY <2>1, <2>2
<1>7. RefusedNear'
  BY <1>1, <1>3 DEF RefusalInv, RefusedNear
<1> QED
  BY <1>4, <1>5, <1>6, <1>7 DEF RefusalInv

\* The beat the server refused is malformed, and near the others of its batch.
LEMMA RefusalPost ==
  ASSUME Inv, CleanBeats, RefusalInv, NEW p \in Procs, PostRefused(p)
  PROVE  RefusalInv'
<1>1. /\ UNCHANGED <<log, table, todo, batch>> /\ refused' = refused \union batch[p]
      /\ ~ServerAccepts(batch[p])
  BY DEF PostRefused
<1>2. PICK s \in batch[p] : Malformed(s.beat)
  BY <1>1 DEF ServerAccepts, Sendable
<1>3. s \in log
  BY DEF Inv, BatchesAreOldest, Readable
<1>4. ~s.beat.wellFormed
  BY <1>2, <1>3 DEF Malformed, CleanBeats
<1>5. \A r, t : Near(r, t)' <=> Near(r, t)
  BY <1>1 DEF Near, Between, Readable
<1>6. RefusedNear'
  BY <1>1, <1>4, <1>5 DEF RefusalInv, RefusedNear, BatchesNear
<1>7. TableIsNewest' /\ BatchesDownClosed' /\ BatchesNear'
  BY <1>1, <1>5 DEF RefusalInv, TableIsNewest, BatchesDownClosed, BatchesNear, Readable
<1> QED
  BY <1>6, <1>7 DEF RefusalInv

LEMMA RefusalStep == Inv /\ CleanBeats /\ RefusalInv /\ [Next]_vars => RefusalInv'
<1> SUFFICES ASSUME Inv, CleanBeats, RefusalInv, [Next]_vars PROVE RefusalInv'
  OBVIOUS
<1>1. ASSUME UNCHANGED <<log, refused, table>>,
             \A p \in Procs : batch'[p] = batch[p] \/ batch'[p] = {}
      PROVE  RefusalInv'
  <2>1. TableIsNewest'
    BY <1>1 DEF RefusalInv, TableIsNewest, Readable
  <2> QED
    BY <1>1, <2>1, RefusalQuiet
<1>2. ASSUME NEW p \in Procs, Ack(p) \/ Drop(p) PROVE RefusalInv'
  <2>1. /\ UNCHANGED <<log, refused>> /\ table' = Without(Ids(batch[p]))
        /\ batch' = [batch EXCEPT ![p] = {}]
    BY <1>2 DEF Ack, Drop
  <2>2. TableIsNewest'
    BY <2>1, DeleteKeepsNewest
  <2>3. table' \subseteq table /\ \A q \in Procs : batch'[q] = batch[q] \/ batch'[q] = {}
    BY <2>1 DEF Without, Inv, TypeOK
  <2> QED
    BY <2>1, <2>2, <2>3, RefusalQuiet
<1>3. ASSUME NEW p \in Procs,
             \/ \E beats \in Invocations : Start(p, beats)
             \/ StartThrottled(p) \/ Check(p) \/ MarkEmitted(p) \/ PostAccepted(p)
      PROVE  UNCHANGED <<log, refused, table, batch>>
  BY <1>3 DEF Start, StartThrottled, Check, MarkEmitted, PostAccepted
<1>4. ASSUME NEW p \in Procs, PostFailed(p) \/ Die(p) PROVE RefusalInv'
  <2>1. /\ UNCHANGED <<log, refused, table>>
        /\ \A q \in Procs : batch'[q] = batch[q] \/ batch'[q] = {}
    BY <1>4 DEF PostFailed, Die, Inv, TypeOK
  <2> QED
    BY <1>1, <2>1
<1>5. CASE UNCHANGED vars
  BY <1>1, <1>5
<1> QED
  BY <1>1, <1>2, <1>3, <1>4, <1>5, RefusalEnqueue, RefusalTake, RefusalPost DEF Next, Run

(***************************************************************************)
(* A 400 takes along no beat further than a batch from a malformed one,    *)
(* and no name of an AI tool is ever the reason (heartbeat.go: "one bad    *)
(* name must not cost the tracked time"), if no earlier version left such  *)
(* a name in the table.                                                    *)
(***************************************************************************)
THEOREM RefusalStaysNear ==
  ASSUME \A r \in Leftover : r.beat.aiTool # "unknown"
  PROVE  Spec => []RefusalRadius
<1>1. Init => CleanBeats /\ RefusalInv
  BY DEF Init, CleanBeats, Listed, RefusalInv, TableIsNewest, BatchesDownClosed, BatchesNear,
         RefusedNear, Readable
<1>2. RefusalInv => RefusalRadius
  BY DEF RefusalInv, RefusedNear, RefusalRadius, Near, Between
<1> QED
  BY <1>1, <1>2, InvHolds, CleanStep, RefusalStep, PTL DEF Spec

-----------------------------------------------------------------------------
(* What stands for an answered beat *)

\* Every set of numbers has a least one.
LEMMA LeastNumber ==
  ASSUME NEW S \in SUBSET Nat, S # {}
  PROVE  \E m \in S : \A n \in S : m <= n
<1> DEFINE less == OpToRel(<, Nat)
<1>1. PICK m \in S : \A n \in S : ~ <<n, m>> \in less
  BY NatLessThanWellFounded, WFMin
<1>2. \A n, k \in Nat : n < k => <<n, k>> \in less
  BY DEF OpToRel
<1> HIDE DEF less
<1>3. \A n \in S : ~ (n < m)
  BY <1>1, <1>2
<1>4. \A n \in S : m <= n
  BY <1>3
<1> QED
  BY <1>4

\* Of rows that were ever queued, one was queued last.
LEMMA LatestRow ==
  ASSUME TypeOK, HistoryOK, NEW S \in SUBSET log, S # {}
  PROVE  \E m \in S : \A r \in S : r.id <= m.id
<1> DEFINE T == {seq - r.id : r \in S}
<1>1. seq \in Nat /\ \A r \in S : r.id \in Nat /\ r.id <= seq
  BY DEF TypeOK, HistoryOK, Rows
<1>2. \A r \in S : seq - r.id \in Nat
  BY <1>1
<1>3. T \in SUBSET Nat /\ T # {}
  BY <1>2
<1>4. PICK least \in T : \A n \in T : least <= n
  BY <1>3, LeastNumber
<1>5. PICK m \in S : least = seq - m.id
  BY <1>4
<1>6. ASSUME NEW r \in S PROVE r.id <= m.id
  <2>1. seq - m.id <= seq - r.id
    BY <1>4, <1>5
  <2> QED
    BY <1>1, <2>1
<1> QED
  BY <1>6

\* What a multiple of the window says of a distance.
LEMMA Multiples ==
  ASSUME NEW w \in Nat, NEW a \in Nat, NEW b \in Nat
  PROVE  /\ w * a \in Nat /\ w * 0 = 0 /\ w * (a + 1) = w * a + w
         /\ a <= b => w * a <= w * b
  OBVIOUS

\* The distance of two beats is at most that by way of a third.
LEMMA GapTriangle ==
  ASSUME NEW a \in BeatType, NEW b \in BeatType, NEW c \in BeatType
  PROVE  /\ Gap(a, c) \in Nat /\ Gap(a, b) \in Nat /\ Gap(b, c) \in Nat /\ Gap(a, a) = 0
         /\ Gap(a, c) <= Gap(a, b) + Gap(b, c)
  BY DEF Gap, BeatType

(***************************************************************************)
(* What survives of a batch stands for the rest: following the duplicates  *)
(* from any row, one comes to a row that is sent, no further off than a    *)
(* window for every row of the batch in between (dedupBeats).              *)
(***************************************************************************)
LEMMA SurvivorStands ==
  ASSUME TypeOK, HistoryOK, NEW rows \in SUBSET log, Cardinality(rows) <= BatchSize,
         NEW r \in rows
  PROVE  \E s \in Sendable(rows) :
            /\ s.beat.key = r.beat.key
            /\ s.id >= r.id
            /\ Gap(r.beat, s.beat) <= DedupWindow * (BatchSize - 1)
<1> DEFINE upTo(s) == {u \in rows : r.id < u.id /\ u.id <= s.id}
           reached == {s \in rows : /\ r.id <= s.id /\ s.beat.key = r.beat.key
                                    /\ Gap(r.beat, s.beat) <= DedupWindow * Cardinality(upTo(s))}
<1>0. /\ DedupWindow \in Nat /\ BatchSize \in Nat \ {0}
      /\ \A s \in rows : s.id \in Nat /\ s.beat \in BeatType
      /\ \A s, t \in rows : s.id = t.id => s = t
  BY WindowAssumption, BatchSizeAssumption DEF TypeOK, HistoryOK, Rows
<1>1. IsFiniteSet(rows) /\ Cardinality(rows) \in Nat
  BY FS_Subset, FS_CardinalityType DEF HistoryOK
<1>2. \A s : IsFiniteSet(upTo(s)) /\ Cardinality(upTo(s)) \in Nat
  BY <1>1, FS_Subset, FS_CardinalityType
<1>3. r \in reached
  <2>1. Gap(r.beat, r.beat) = 0
    BY <1>0, GapTriangle
  <2>2. DedupWindow * Cardinality(upTo(r)) \in Nat
    BY <1>0, <1>2, Multiples
  <2> QED
    BY <1>0, <2>1, <2>2
<1>4. PICK m \in reached : \A s \in reached : s.id <= m.id
  BY <1>3, LatestRow
<1>5. m \in Sendable(rows)
  <2> SUFFICES ASSUME NEW s \in rows, m.id < s.id,
                      \A t \in rows : t.id <= m.id \/ s.id <= t.id,
                      IsDup(m.beat, s.beat)
               PROVE  FALSE
    BY <1>4 DEF Sendable
  <2> DEFINE k == Cardinality(upTo(m))
  <2>1. upTo(s) = upTo(m) \union {s} /\ s \notin upTo(m)
    BY <1>0, <1>4
  <2>2. Cardinality(upTo(s)) = k + 1 /\ k \in Nat
    <3> HIDE DEF upTo
    <3>1. IsFiniteSet(upTo(m)) /\ Cardinality(upTo(m)) \in Nat
      BY <1>2
    <3> QED
      BY <2>1, <3>1, FS_AddElement
  <2>3. DedupWindow * (k + 1) = DedupWindow * k + DedupWindow /\ DedupWindow * k \in Nat
    BY <1>0, <2>2, Multiples
  <2>4. /\ s.beat.key = r.beat.key /\ Gap(m.beat, s.beat) <= DedupWindow
        /\ Gap(r.beat, m.beat) <= DedupWindow * k
    BY <1>4 DEF IsDup
  <2>5. /\ Gap(r.beat, s.beat) <= Gap(r.beat, m.beat) + Gap(m.beat, s.beat)
        /\ Gap(r.beat, s.beat) \in Nat /\ Gap(r.beat, m.beat) \in Nat /\ Gap(m.beat, s.beat) \in Nat
    BY <1>0, <1>4, GapTriangle
  <2> HIDE DEF k, upTo
  <2>6. Gap(r.beat, s.beat) <= DedupWindow * Cardinality(upTo(s))
    BY <1>0, <2>2, <2>3, <2>4, <2>5
  <2>7. s \in reached
    BY <1>0, <1>4, <2>4, <2>6
  <2> QED
    BY <1>0, <1>4, <2>7
<1>6. Gap(r.beat, m.beat) <= DedupWindow * (BatchSize - 1)
  <2>1. upTo(m) \subseteq rows \ {r}
    BY <1>0
  <2>2. IsFiniteSet(rows \ {r}) /\ Cardinality(rows \ {r}) = Cardinality(rows) - 1
    BY <1>1, FS_RemoveElement
  <2>3. Cardinality(upTo(m)) <= Cardinality(rows \ {r})
    BY <2>1, <2>2, FS_Subset
  <2> DEFINE k == Cardinality(upTo(m))
  <2>4. k \in Nat /\ k <= BatchSize - 1 /\ BatchSize - 1 \in Nat
    <3> HIDE DEF upTo
    <3>1. k \in Nat
      BY <1>2
    <3> QED
      BY <1>0, <1>1, <2>2, <2>3, <3>1
  <2>5. Gap(r.beat, m.beat) <= DedupWindow * k /\ Gap(r.beat, m.beat) \in Nat
    BY <1>0, <1>4, GapTriangle
  <2> HIDE DEF k
  <2>6. DedupWindow * k <= DedupWindow * (BatchSize - 1) /\ DedupWindow * k \in Nat /\ DedupWindow * (BatchSize - 1) \in Nat
    BY <1>0, <2>4, Multiples
  <2> QED
    BY <2>5, <2>6
<1> QED
  BY <1>0, <1>4, <1>5, <1>6

KnownSerials ==
    /\ \A r \in log : r.beat.n \in Serials
    /\ \A p \in Procs : \A b \in Listed(p) : b.n \in Serials

BatchesSmall == \A p \in Procs : Cardinality(batch[p]) <= BatchSize

AnsweredInv == KnownSerials /\ BatchesSmall /\ AnsweredIsStored

\* Take returns no more than it was asked for.
LEMMA WindowSmall ==
  ASSUME Inv
  PROVE  Cardinality(Readable(Oldest(BatchSize))) <= BatchSize
<1> DEFINE window == Oldest(BatchSize)
<1>1. window \subseteq table /\ table \subseteq log /\ IsFiniteSet(log)
  BY DEF Oldest, Inv, HistoryOK
<1>2. IsFiniteSet(window) /\ Readable(window) \subseteq window
  BY <1>1, FS_Subset DEF Readable
<1>3. /\ Cardinality(Readable(window)) <= Cardinality(window)
      /\ Cardinality(Readable(window)) \in Nat /\ Cardinality(window) \in Nat
  BY <1>2, FS_Subset, FS_CardinalityType
<1>4. CASE window = {}
  BY <1>3, <1>4, FS_EmptySet, BatchSizeAssumption
<1>5. CASE window # {}
  <2>1. PICK last \in window : \A r \in window : r.id <= last.id
    BY <1>1, <1>5, LatestRow DEF Inv
  <2> DEFINE below == {s \in table : s.id <= last.id}
  <2>2. Cardinality(below) <= BatchSize
    BY <2>1 DEF Oldest
  <2>3. window \subseteq below
    BY <1>1, <2>1
  <2>4. IsFiniteSet(below)
    BY <1>1, FS_Subset
  <2>5. Cardinality(window) <= Cardinality(below) /\ Cardinality(below) \in Nat
    BY <2>3, <2>4, FS_Subset, FS_CardinalityType
  <2> QED
    BY <1>3, <2>2, <2>5, BatchSizeAssumption
<1> QED
  BY <1>4, <1>5

LEMMA KnownStep == Inv /\ KnownSerials /\ [Next]_vars => KnownSerials'
<1> SUFFICES ASSUME Inv, KnownSerials, [Next]_vars PROVE KnownSerials'
  OBVIOUS
<1>1. \A r \in log' : r.beat.n \in Serials
  BY LogStep DEF KnownSerials
<1>2. ASSUME NEW p \in Procs, NEW b \in Listed(p)' PROVE b.n \in Serials
  <2>1. CASE b \in Listed(p)
    BY <2>1 DEF KnownSerials
  <2>2. CASE \E beats \in Invocations : \E i \in DOMAIN beats : b = DropUnknownAITool(beats[i])
    <3>1. PICK c \in Beats : b = DropUnknownAITool(c)
      BY <2>2, InvocationsAssumption
    <3>2. b.n = c.n
      BY <3>1, BeatsAssumption DEF DropUnknownAITool, BeatType
    <3> QED
      BY <3>2 DEF Serials
  <2> QED
    BY <1>2, <2>1, <2>2, ListStep
<1> QED
  BY <1>1, <1>2 DEF KnownSerials

LEMMA SmallStep == Inv /\ BatchesSmall /\ [Next]_vars => BatchesSmall'
<1> SUFFICES ASSUME Inv, BatchesSmall, [Next]_vars, NEW q \in Procs
             PROVE  Cardinality(batch'[q]) <= BatchSize
  BY DEF BatchesSmall
<1>1. CASE batch'[q] = batch[q]
  BY <1>1 DEF BatchesSmall
<1>2. CASE batch'[q] = {}
  BY <1>2, FS_EmptySet, BatchSizeAssumption
<1>3. CASE batch'[q] = Readable(Oldest(BatchSize))
  BY <1>3, WindowSmall
<1>4. ASSUME NEW p \in Procs,
             \/ Take(p) \/ PostFailed(p) \/ Ack(p) \/ Drop(p) \/ Die(p)
      PROVE  \/ batch'[q] = batch[q]
             \/ batch'[q] = {}
             \/ batch'[q] = Readable(Oldest(BatchSize))
  BY <1>4 DEF Take, PostFailed, Ack, Drop, Die, Inv, TypeOK
<1>5. ASSUME NEW p \in Procs,
             \/ \E beats \in Invocations : Start(p, beats)
             \/ StartThrottled(p) \/ Check(p) \/ Enqueue(p) \/ MarkEmitted(p)
             \/ PostAccepted(p) \/ PostRefused(p)
      PROVE  batch' = batch
  BY <1>5 DEF Start, StartThrottled, Check, Enqueue, MarkEmitted, PostAccepted, PostRefused
<1> QED
  BY <1>1, <1>2, <1>3, <1>4, <1>5 DEF Next, Run

\* A request that is answered brings all of its batch to the server.
LEMMA StoredPost ==
  ASSUME Inv, KnownSerials, BatchesSmall, AnsweredIsStored, NEW p \in Procs, PostAccepted(p)
  PROVE  AnsweredIsStored'
<1>1. /\ Deliver(batch[p]) /\ answered' = answered \union batch[p]
  BY DEF PostAccepted
<1>2. delivered \in [Serials -> Nat] /\ batch[p] \in SUBSET log /\ answered \subseteq log
  BY DEF Inv, TypeOK, HistoryOK, BatchesAreOldest, Readable
<1>3. \A n \in Serials : delivered[n] > 0 => delivered'[n] > 0
  BY <1>1, <1>2 DEF Deliver
<1> SUFFICES ASSUME NEW r \in answered \union batch[p]
             PROVE  \E s \in answered \union batch[p] :
                      /\ delivered'[s.beat.n] > 0
                      /\ s.beat.key = r.beat.key
                      /\ s.id >= r.id
                      /\ Gap(r.beat, s.beat) <= DedupWindow * (BatchSize - 1)
  BY <1>1 DEF AnsweredIsStored
<1>4. CASE r \in answered
  <2>1. PICK s \in answered : /\ delivered[s.beat.n] > 0
                              /\ s.beat.key = r.beat.key
                              /\ s.id >= r.id
                              /\ Gap(r.beat, s.beat) <= DedupWindow * (BatchSize - 1)
    BY <1>4 DEF AnsweredIsStored
  <2>2. delivered'[s.beat.n] > 0
    BY <1>2, <1>3, <2>1 DEF KnownSerials
  <2> QED
    BY <2>1, <2>2
<1>5. CASE r \in batch[p]
  <2>1. PICK s \in Sendable(batch[p]) :
            /\ s.beat.key = r.beat.key
            /\ s.id >= r.id
            /\ Gap(r.beat, s.beat) <= DedupWindow * (BatchSize - 1)
    BY <1>2, <1>5, SurvivorStands DEF Inv, BatchesSmall
  <2>2. s \in batch[p] /\ s.beat.n \in Serials
    BY <1>2, <2>1 DEF Sendable, KnownSerials
  <2>3. delivered'[s.beat.n] = delivered[s.beat.n] + 1
    BY <1>1, <2>1, <2>2 DEF Deliver
  <2>4. delivered'[s.beat.n] > 0
    BY <1>2, <2>2, <2>3
  <2> QED
    BY <2>1, <2>2, <2>4
<1> QED
  BY <1>4, <1>5

LEMMA StoredStep ==
  Inv /\ KnownSerials /\ BatchesSmall /\ AnsweredIsStored /\ [Next]_vars => AnsweredIsStored'
<1> SUFFICES ASSUME Inv, KnownSerials, BatchesSmall, AnsweredIsStored, [Next]_vars
             PROVE  AnsweredIsStored'
  OBVIOUS
<1>1. ASSUME UNCHANGED answered,
             UNCHANGED delivered \/ \E p \in Procs : Deliver(batch[p])
      PROVE  AnsweredIsStored'
  <2>1. delivered \in [Serials -> Nat] /\ \A r \in answered : r.beat.n \in Serials
    BY DEF Inv, TypeOK, HistoryOK, KnownSerials
  <2>2. \A n \in Serials : delivered[n] > 0 => delivered'[n] > 0
    BY <1>1, <2>1 DEF Deliver
  <2> QED
    BY <1>1, <2>1, <2>2 DEF AnsweredIsStored
<1>2. ASSUME NEW p \in Procs, ~PostAccepted(p),
             \/ \E beats \in Invocations : Start(p, beats)
             \/ StartThrottled(p) \/ Run(p) \/ PostFailed(p) \/ Die(p)
      PROVE  UNCHANGED answered /\ (UNCHANGED delivered \/ Deliver(batch[p]))
  BY <1>2 DEF Run, Start, StartThrottled, Check, Enqueue, MarkEmitted, Take, PostRefused,
              PostFailed, Ack, Drop, Die
<1> QED
  BY <1>1, <1>2, StoredPost DEF Next, Run

(***************************************************************************)
(* What the client counts as sent is on the server, or a beat of the same  *)
(* file, queued later, stands for it there (heartbeat.go: dedupBeats keeps *)
(* the last beat of a run).                                                *)
(***************************************************************************)
THEOREM AnsweredStored == Spec => []AnsweredIsStored
<1>1. Init => AnsweredInv
  <2> SUFFICES ASSUME Init PROVE AnsweredInv
    OBVIOUS
  <2>1. KnownSerials
    BY LeftoverAssumption DEF Init, KnownSerials, Serials, Listed
  <2>2. BatchesSmall
    BY FS_EmptySet, BatchSizeAssumption DEF Init, BatchesSmall
  <2> QED
    BY <2>1, <2>2 DEF Init, AnsweredInv, AnsweredIsStored
<1>2. Inv /\ AnsweredInv /\ [Next]_vars => AnsweredInv'
  BY KnownStep, SmallStep, StoredStep DEF AnsweredInv
<1>3. AnsweredInv => AnsweredIsStored
  BY DEF AnsweredInv
<1> QED
  BY <1>1, <1>2, <1>3, InvHolds, PTL DEF Spec
-----------------------------------------------------------------------------
(* How often a beat is sent *)

(***************************************************************************)
(* What n means: a beat's n is its own, so no two events of the editor     *)
(* have the same.                                                          *)
(***************************************************************************)
EachBeatOnce ==
    /\ \A r, s \in Leftover : r.beat.n = s.beat.n => r = s
    /\ \A beats, others \in Invocations : \A i \in DOMAIN beats, j \in DOMAIN others :
         beats[i].n = others[j].n => beats = others /\ i = j
    /\ \A beats \in Invocations : \A i \in DOMAIN beats : \A r \in Leftover :
         beats[i].n # r.beat.n

\* The beats on p's list that it has not queued.
Unqueued(p) == {i \in 1 .. Len(todo[p]) : pc[p] = "mark" => i # 1}

RowsApart == \A r, s \in log : r.beat.n = s.beat.n => r = s

ListsApart ==
    \A p, q \in Procs : \A i \in 1 .. Len(todo[p]), j \in 1 .. Len(todo[q]) :
        todo[p][i].n = todo[q][j].n => p = q /\ i = j

ListsNew ==
    \A p \in Procs : \A i \in Unqueued(p) : \A r \in log : todo[p][i].n # r.beat.n

UnmadeNew ==
    \A beats \in Invocations \ made : \A i \in DOMAIN beats :
        /\ \A r \in log : beats[i].n # r.beat.n
        /\ \A p \in Procs : \A j \in 1 .. Len(todo[p]) : beats[i].n # todo[p][j].n

Labels == RowsApart /\ ListsApart /\ ListsNew /\ UnmadeNew

\* The processes at a place with the row of the beat n.
Holders(place, n) == {p \in Procs : pc[p] = place /\ \E r \in batch[p] : r.beat.n = n}

\* The beat was queued and has left the table.
Gone(n) == \E r \in log \ table : r.beat.n = n

Together == IF overlap THEN Cardinality(Procs) ELSE 1
Failed == MaxFaults - faults

(***************************************************************************)
(* As long as a beat is in the table, each sending of it is one that       *)
(* failed or one whose process is about to delete it.  Once it is gone, no *)
(* process can pick it up, and those that hold it can still send it once.  *)
(***************************************************************************)
Sendings ==
    \A n \in Serials :
        \/ delivered[n] <= Failed + Cardinality(Holders("ack", n))
        \/ Gone(n) /\ delivered[n] + Cardinality(Holders("post", n)) <= Failed + Together

OneByOne == overlap \/ \A p, q \in Procs : pc[p] # "idle" /\ pc[q] # "idle" => p = q

RedeliveryInv == Labels /\ OneByOne /\ Sendings

-----------------------------------------------------------------------------
\* A step that queues nothing, and puts nothing on a list.
LEMMA LabelsQuiet ==
  ASSUME Labels, UNCHANGED <<log, made>>,
         \A p \in Procs : \/ todo'[p] = <<>>
                          \/ todo'[p] = todo[p] /\ (pc[p] = "mark" => pc'[p] = "mark")
  PROVE  Labels'
<1>1. RowsApart'
  BY DEF Labels, RowsApart
<1>2. ListsApart'
  BY DEF Labels, ListsApart
<1>3. \A p \in Procs : \A i \in Unqueued(p)' : i \in Unqueued(p) /\ todo'[p][i] = todo[p][i]
  BY DEF Unqueued
<1>4. ListsNew'
  BY <1>3 DEF Labels, ListsNew
<1>5. UnmadeNew'
  BY DEF Labels, UnmadeNew
<1> QED
  BY <1>1, <1>2, <1>4, <1>5 DEF Labels

\* The first beat of a list is taken off.
LEMMA LabelsTail ==
  ASSUME Labels, TypeOK, UNCHANGED <<log, made>>, NEW p \in Procs, todo[p] # <<>>,
         todo' = [todo EXCEPT ![p] = Tail(@)],
         \A q \in Procs : q # p => pc'[q] = pc[q]
  PROVE  Labels'
<1>1. todo[p] \in Seq(Fresh) /\ \A q \in Procs : q # p => todo'[q] = todo[q]
  BY DEF TypeOK
<1>2. todo'[p] = Tail(todo[p])
  BY DEF TypeOK
<1>3. \A i \in 1 .. Len(todo'[p]) :
        i \in Nat /\ i + 1 \in 1 .. Len(todo[p]) /\ i + 1 # 1 /\ todo'[p][i] = todo[p][i + 1]
  <2> DEFINE list == todo[p]
  <2>1. list \in Seq(Fresh) /\ list # <<>>
    BY <1>1
  <2> HIDE DEF list
  <2>2. todo'[p] = Tail(list)
    BY <1>2 DEF list
  <2> QED
    BY <2>1, <2>2, TailShifts DEF list
<1>4. RowsApart'
  BY DEF Labels, RowsApart
<1>5. ListsApart'
  <2> SUFFICES ASSUME NEW q \in Procs, NEW s \in Procs,
                      NEW i \in 1 .. Len(todo'[q]), NEW j \in 1 .. Len(todo'[s]),
                      todo'[q][i].n = todo'[s][j].n
               PROVE  q = s /\ i = j
    BY DEF ListsApart
  <2>1. CASE q = p /\ s = p
    <3>1. i + 1 = j + 1
      BY <1>3, <2>1 DEF Labels, ListsApart
    <3> QED
      BY <1>3, <2>1, <3>1
  <2>2. CASE q = p /\ s # p
    BY <1>1, <1>3, <2>2 DEF Labels, ListsApart
  <2>3. CASE q # p /\ s = p
    BY <1>1, <1>3, <2>3 DEF Labels, ListsApart
  <2>4. CASE q # p /\ s # p
    BY <1>1, <2>4 DEF Labels, ListsApart
  <2> QED
    BY <2>1, <2>2, <2>3, <2>4
<1>6. ListsNew'
  <2> SUFFICES ASSUME NEW q \in Procs, NEW i \in Unqueued(q)', NEW r \in log
               PROVE  todo'[q][i].n # r.beat.n
    BY DEF ListsNew
  <2>1. CASE q = p
    <3>1. i + 1 \in Unqueued(p) /\ todo'[q][i] = todo[p][i + 1]
      BY <1>3, <2>1 DEF Unqueued
    <3> QED
      BY <3>1 DEF Labels, ListsNew
  <2>2. CASE q # p
    <3>1. i \in Unqueued(q)
      BY <1>1, <2>2 DEF Unqueued
    <3> QED
      BY <1>1, <2>2, <3>1 DEF Labels, ListsNew
  <2> QED
    BY <2>1, <2>2
<1>7. UnmadeNew'
  BY <1>1, <1>3 DEF Labels, UnmadeNew
<1> QED
  BY <1>4, <1>5, <1>6, <1>7 DEF Labels

\* A command's beats are on no other list, and not queued.
LEMMA LabelsStart ==
  ASSUME EachBeatOnce, Labels, TypeOK, NEW p \in Procs, NEW beats \in Invocations,
         Start(p, beats)
  PROVE  Labels'
<1>1. beats \in Seq(Beats) /\ \A i \in DOMAIN beats : beats[i] \in BeatType
  BY InvocationsAssumption, BeatsAssumption
<1>2. /\ UNCHANGED log /\ made' = made \union {beats} /\ beats \notin made
      /\ pc' = [pc EXCEPT ![p] = "check"]
      /\ todo' = [todo EXCEPT ![p] = [i \in DOMAIN beats |-> DropUnknownAITool(beats[i])]]
  BY DEF Start
<1>3. \A q \in Procs : q # p => todo'[q] = todo[q] /\ pc'[q] = pc[q]
  BY <1>2 DEF TypeOK
<1>4. todo'[p] = [i \in 1 .. Len(beats) |-> DropUnknownAITool(beats[i])]
      /\ DOMAIN beats = 1 .. Len(beats) /\ Len(beats) \in Nat
  BY <1>1, <1>2 DEF TypeOK
<1>5. Len(todo'[p]) = Len(beats)
  BY <1>4
<1>6. \A i \in 1 .. Len(beats) : i \in DOMAIN beats /\ todo'[p][i].n = beats[i].n
  BY <1>1, <1>4 DEF DropUnknownAITool, BeatType
<1>11. \A i \in DOMAIN beats :
         /\ \A r \in log : beats[i].n # r.beat.n
         /\ \A q \in Procs : \A j \in 1 .. Len(todo[q]) : beats[i].n # todo[q][j].n
  BY <1>2 DEF Labels, UnmadeNew
<1>7. RowsApart'
  BY <1>2 DEF Labels, RowsApart
<1>8. ListsApart'
  <2> SUFFICES ASSUME NEW q \in Procs, NEW s \in Procs,
                      NEW i \in 1 .. Len(todo'[q]), NEW j \in 1 .. Len(todo'[s]),
                      todo'[q][i].n = todo'[s][j].n
               PROVE  q = s /\ i = j
    BY DEF ListsApart
  <2>1. CASE q = p /\ s = p
    <3>1. i \in DOMAIN beats /\ j \in DOMAIN beats /\ beats[i].n = beats[j].n
      BY <1>5, <1>6, <2>1
    <3> QED
      BY <2>1, <3>1 DEF EachBeatOnce
  <2>2. CASE q = p /\ s # p
    BY <1>3, <1>5, <1>6, <1>11, <2>2
  <2>3. CASE q # p /\ s = p
    BY <1>3, <1>5, <1>6, <1>11, <2>3
  <2>4. CASE q # p /\ s # p
    BY <1>3, <2>4 DEF Labels, ListsApart
  <2> QED
    BY <2>1, <2>2, <2>3, <2>4
<1>9. ListsNew'
  <2> SUFFICES ASSUME NEW q \in Procs, NEW i \in Unqueued(q)', NEW r \in log
               PROVE  todo'[q][i].n # r.beat.n
    BY <1>2 DEF ListsNew
  <2>1. CASE q = p
    <3>1. i \in 1 .. Len(todo'[p])
      BY <2>1 DEF Unqueued
    <3> QED
      BY <1>5, <1>6, <1>11, <2>1, <3>1
  <2>2. CASE q # p
    <3>1. i \in Unqueued(q)
      BY <1>3, <2>2 DEF Unqueued
    <3> QED
      BY <1>3, <2>2, <3>1 DEF Labels, ListsNew
  <2> QED
    BY <2>1, <2>2
<1>10. UnmadeNew'
  <2> SUFFICES ASSUME NEW others \in Invocations \ made', NEW i \in DOMAIN others
               PROVE  /\ \A r \in log : others[i].n # r.beat.n
                      /\ \A q \in Procs : \A j \in 1 .. Len(todo'[q]) : others[i].n # todo'[q][j].n
    BY <1>2 DEF UnmadeNew
  <2>1. others \notin made /\ others # beats
    BY <1>2
  <2>2. \A j \in 1 .. Len(todo'[p]) : others[i].n # todo'[p][j].n
    BY <1>5, <1>6, <2>1 DEF EachBeatOnce
  <2> QED
    BY <1>3, <2>1, <2>2 DEF Labels, UnmadeNew
<1> QED
  BY <1>7, <1>8, <1>9, <1>10 DEF Labels

\* The beat that is queued was on no row.
LEMMA LabelsEnqueue ==
  ASSUME Inv, Labels, NEW p \in Procs, Enqueue(p)
  PROVE  Labels'
<1> DEFINE row == [id |-> NextId, beat |-> Head(todo[p])]
<1>1. todo[p] \in Seq(Fresh) /\ todo[p] # <<>> /\ pc[p] = "enqueue"
  BY DEF Inv, TypeOK, Enqueue
<1>2. row.beat = todo[p][1] /\ 1 \in 1 .. Len(todo[p])
  BY <1>1
<1>3. 1 \in Unqueued(p)
  BY <1>1, <1>2 DEF Unqueued
<1>4. log' = log \union {row} /\ UNCHANGED <<todo, made>>
  BY DEF Enqueue
<1>5. pc' = [pc EXCEPT ![p] = "mark"] /\ pc \in [Procs -> {"idle", "check", "enqueue", "mark", "take", "post", "ack", "drop"}]
  BY DEF Enqueue, Inv, TypeOK
<1> HIDE DEF row
<1>6. RowsApart'
  BY <1>2, <1>3, <1>4 DEF Labels, RowsApart, ListsNew
<1>7. ListsApart'
  BY <1>4 DEF Labels, ListsApart
<1>8. ListsNew'
  <2> SUFFICES ASSUME NEW q \in Procs, NEW i \in Unqueued(q)', NEW r \in log'
               PROVE  todo[q][i].n # r.beat.n
    BY <1>4 DEF ListsNew
  <2>1. i \in Unqueued(q) /\ i \in 1 .. Len(todo[q]) /\ (q = p => i # 1)
    BY <1>1, <1>4, <1>5 DEF Unqueued
  <2>2. CASE r \in log
    BY <2>1, <2>2 DEF Labels, ListsNew
  <2>3. CASE r = row
    BY <1>2, <2>1, <2>3 DEF Labels, ListsApart
  <2> QED
    BY <1>4, <2>2, <2>3
<1>9. UnmadeNew'
  BY <1>2, <1>4 DEF Labels, UnmadeNew
<1> QED
  BY <1>6, <1>7, <1>8, <1>9 DEF Labels

LEMMA LabelsStep == EachBeatOnce /\ Inv /\ Labels /\ [Next]_vars => Labels'
<1> SUFFICES ASSUME EachBeatOnce, Inv, Labels, [Next]_vars PROVE Labels'
  OBVIOUS
<1>1. ASSUME NEW p \in Procs, Check(p) PROVE Labels'
  <2>1. CASE UNCHANGED todo
    BY <1>1, <2>1, LabelsQuiet DEF Check, Inv, TypeOK
  <2>2. CASE todo' = [todo EXCEPT ![p] = Tail(@)] /\ todo[p] # <<>> /\ UNCHANGED pc
    BY <1>1, <2>2, LabelsTail DEF Check, Inv
  <2> QED
    BY <1>1, <2>1, <2>2 DEF Check
<1>2. ASSUME NEW p \in Procs, MarkEmitted(p) PROVE Labels'
  BY <1>2, LabelsTail DEF MarkEmitted, Inv, TypeOK
<1>3. ASSUME NEW p \in Procs, StartThrottled(p) \/ PostAccepted(p) PROVE Labels'
  <2>1. /\ UNCHANGED <<log, made, todo>> /\ pc[p] # "mark"
        /\ \A q \in Procs : q # p => pc'[q] = pc[q]
    BY <1>3 DEF StartThrottled, Free, PostAccepted, Inv, TypeOK
  <2>2. \A q \in Procs : todo'[q] = todo[q] /\ (pc[q] = "mark" => pc'[q] = "mark")
    BY <2>1
  <2> QED
    BY <2>1, <2>2, LabelsQuiet, Zenon
<1>7. ASSUME NEW p \in Procs, Take(p) PROVE Labels'
  <2>1. UNCHANGED <<log, made, todo>> /\ pc[p] = "take" /\ \A q \in Procs : q # p => pc'[q] = pc[q]
    BY <1>7 DEF Take, Inv, TypeOK
  <2>2. \A q \in Procs : todo'[q] = todo[q] /\ (pc[q] = "mark" => pc'[q] = "mark")
    BY <2>1
  <2> QED
    BY <2>1, <2>2, LabelsQuiet, Zenon
<1>4. ASSUME NEW p \in Procs, PostRefused(p) \/ PostFailed(p) \/ Ack(p) \/ Drop(p) PROVE Labels'
  BY <1>4, LabelsQuiet DEF PostRefused, PostFailed, Ack, Drop, Inv, TypeOK
<1>5. ASSUME NEW p \in Procs, Die(p) PROVE Labels'
  BY <1>5, LabelsQuiet DEF Die, Inv, TypeOK
<1>6. CASE UNCHANGED vars
  BY <1>6, LabelsQuiet
<1> QED
  BY <1>1, <1>2, <1>3, <1>4, <1>5, <1>6, <1>7, LabelsStart, LabelsEnqueue DEF Next, Run, Inv

LEMMA OneByOneStep == Inv /\ OneByOne /\ [Next]_vars => OneByOne'
<1> SUFFICES ASSUME Inv, OneByOne, [Next]_vars, ~overlap,
                    NEW p \in Procs, NEW q \in Procs, pc'[p] # "idle", pc'[q] # "idle"
             PROVE  p = q
  BY DEF Next, OneByOne
<1>1. ASSUME NEW s \in Procs, NEW beats \in Invocations, Start(s, beats) PROVE p = q
  BY <1>1 DEF Start, Free, Inv, TypeOK
<1>2. ASSUME NEW s \in Procs, StartThrottled(s) PROVE p = q
  BY <1>2 DEF StartThrottled, Free, Inv, TypeOK
<1>3. ASSUME NEW s \in Procs, Run(s) \/ PostFailed(s) \/ Die(s) PROVE p = q
  <2>1. pc[s] # "idle" /\ \A t \in Procs : t # s => pc'[t] = pc[t]
    BY <1>3 DEF Run, Check, Enqueue, MarkEmitted, Take, PostAccepted, PostRefused, Ack, Drop,
                PostFailed, Die, Inv, TypeOK
  <2> QED
    BY <2>1 DEF OneByOne
<1>4. CASE UNCHANGED vars
  BY <1>4 DEF OneByOne
<1> QED
  BY <1>1, <1>2, <1>3, <1>4 DEF Next

-----------------------------------------------------------------------------
\* The processes at a place are as many as a whole number says.
LEMMA HoldersFinite ==
  ASSUME IsFiniteSet(Procs), NEW place, NEW n
  PROVE  IsFiniteSet(Holders(place, n)) /\ Cardinality(Holders(place, n)) \in Nat
<1>1. IsFiniteSet(Holders(place, n))
  BY FS_Subset DEF Holders
<1> QED
  BY <1>1, FS_CardinalityType

\* At most Together processes hold a batch.
LEMMA HoldersFew ==
  ASSUME IsFiniteSet(Procs), OneByOne, NEW n
  PROVE  Cardinality(Holders("ack", n)) + Cardinality(Holders("post", n)) <= Together
<1> DEFINE both == Holders("ack", n) \union Holders("post", n)
<1>1. both \subseteq Procs /\ Holders("ack", n) \cap Holders("post", n) = {}
  BY DEF Holders
<1>2. IsFiniteSet(both) /\ Cardinality(both) <= Cardinality(Procs)
  BY <1>1, FS_Subset
<1>3. Cardinality(both) = Cardinality(Holders("ack", n)) + Cardinality(Holders("post", n))
  BY <1>1, HoldersFinite, FS_Union, FS_EmptySet
<1>4. CASE overlap
  BY <1>2, <1>3, <1>4 DEF Together
<1>5. CASE ~overlap
  <2>1. CASE both = {}
    BY <1>3, <1>5, <2>1, FS_EmptySet DEF Together
  <2>2. CASE both # {}
    <3>1. PICK p : p \in both
      BY <2>2
    <3>2. both = {p}
      BY <1>5, <3>1 DEF OneByOne, Holders
    <3> QED
      BY <1>3, <1>5, <3>2, FS_Singleton DEF Together
  <2> QED
    BY <2>1, <2>2
<1> QED
  BY <1>4, <1>5

\* A process leaves or joins the holders of a beat.
LEMMA HoldersLeave ==
  ASSUME IsFiniteSet(Procs), NEW place, NEW n, NEW p \in Procs,
         Holders(place, n)' = Holders(place, n) \ {p}
  PROVE  /\ Cardinality(Holders(place, n)') \in Nat
         /\ Cardinality(Holders(place, n)')
              = IF p \in Holders(place, n) THEN Cardinality(Holders(place, n)) - 1
                ELSE Cardinality(Holders(place, n))
  BY HoldersFinite, FS_RemoveElement, FS_CardinalityType

LEMMA HoldersJoin ==
  ASSUME IsFiniteSet(Procs), NEW place, NEW n, NEW p \in Procs, p \notin Holders(place, n),
         Holders(place, n)' = Holders(place, n) \union {p}
  PROVE  Cardinality(Holders(place, n)') = Cardinality(Holders(place, n)) + 1
  BY HoldersFinite, FS_AddElement

(***************************************************************************)
(* What a step does to the holders of a beat: only p moves.                *)
(***************************************************************************)
LEMMA HoldersMove ==
  ASSUME TypeOK, NEW place, NEW n, NEW p \in Procs, TypeOK',
         \A q \in Procs : q # p => pc'[q] = pc[q] /\ batch'[q] = batch[q]
  PROVE  \/ p \in Holders(place, n)' /\ Holders(place, n)' = Holders(place, n) \union {p}
         \/ p \notin Holders(place, n)' /\ Holders(place, n)' = Holders(place, n) \ {p}
  BY DEF Holders

\* Faults are used up one by one.
LEMMA FailedGrows ==
  ASSUME faults \in Nat, faults' \in Nat, faults' <= faults
  PROVE  /\ Failed' >= Failed /\ Failed' \in Int /\ Failed \in Int
         /\ faults' < faults => Failed' >= Failed + 1
<1>1. PICK left \in Nat : left = faults'
  OBVIOUS
<1>2. Failed = MaxFaults - faults /\ Failed' = MaxFaults - left
  BY <1>1 DEF Failed
<1>3. left <= faults /\ (faults' < faults <=> left < faults)
  BY <1>1
<1>4. /\ MaxFaults - left >= MaxFaults - faults
      /\ left < faults => MaxFaults - left >= MaxFaults - faults + 1
      /\ MaxFaults - left \in Int /\ MaxFaults - faults \in Int
  BY <1>3, MaxFaultsAssumption
<1> QED
  BY <1>2, <1>3, <1>4

(***************************************************************************)
(* A step of p that sends nothing, and leaves nothing unacknowledged.      *)
(***************************************************************************)
LEMMA SendingsQuiet ==
  ASSUME IsFiniteSet(Procs), TypeOK, TypeOK', OneByOne, Sendings, overlap' = overlap,
         NEW p \in Procs, \A q \in Procs : q # p => pc'[q] = pc[q] /\ batch'[q] = batch[q],
         delivered' = delivered,
         faults' \in Nat, faults' <= faults,
         pc[p] = "ack" => faults' < faults,
         \A n \in Serials : Gone(n) => Gone(n)',
         \A n \in Serials : p \in Holders("post", n)' => p \in Holders("post", n) \/ ~Gone(n)
  PROVE  Sendings'
<1> SUFFICES ASSUME NEW n \in Serials
             PROVE  \/ delivered'[n] <= Failed' + Cardinality(Holders("ack", n)')
                    \/ /\ Gone(n)'
                       /\ delivered'[n] + Cardinality(Holders("post", n)') <= Failed' + Together'
  BY DEF Sendings
<1> DEFINE A == Cardinality(Holders("ack", n))
           B == Cardinality(Holders("ack", n)')
           C == Cardinality(Holders("post", n))
           D == Cardinality(Holders("post", n)')
<1>1. delivered[n] \in Nat /\ faults \in Nat /\ A \in Nat /\ C \in Nat /\ MaxFaults \in Nat
  BY HoldersFinite, MaxFaultsAssumption DEF TypeOK
<1>2. B \in Nat /\ (B >= A \/ (B = A - 1 /\ pc[p] = "ack"))
  <2>1. CASE Holders("ack", n)' = Holders("ack", n) \union {p}
    <3>1. B = IF p \in Holders("ack", n) THEN A ELSE A + 1
      BY <2>1, HoldersFinite, FS_AddElement
    <3> QED
      BY <1>1, <3>1
  <2>2. CASE Holders("ack", n)' = Holders("ack", n) \ {p}
    <3>1. B \in Nat /\ B = IF p \in Holders("ack", n) THEN A - 1 ELSE A
      BY <2>2, HoldersLeave
    <3>2. p \in Holders("ack", n) => pc[p] = "ack"
      BY DEF Holders
    <3> QED
      BY <1>1, <3>1, <3>2
  <2> QED
    BY <2>1, <2>2, HoldersMove
<1>3. D \in Nat /\ (Gone(n) => D <= C)
  <2>1. CASE p \in Holders("post", n)' /\ Holders("post", n)' = Holders("post", n) \union {p}
    <3>1. D = IF p \in Holders("post", n) THEN C ELSE C + 1
      BY <2>1, HoldersFinite, FS_AddElement
    <3> QED
      BY <1>1, <2>1, <3>1
  <2>2. CASE Holders("post", n)' = Holders("post", n) \ {p}
    <3>1. D \in Nat /\ D = IF p \in Holders("post", n) THEN C - 1 ELSE C
      BY <2>2, HoldersLeave
    <3> QED
      BY <1>1, <3>1
  <2> QED
    BY <2>1, <2>2, HoldersMove
<1>4. Together \in Nat /\ Together' = Together
  BY FS_CardinalityType DEF Together
<1>5. Failed' >= Failed /\ Failed' \in Int /\ Failed \in Int /\ (pc[p] = "ack" => Failed' >= Failed + 1)
  BY <1>1, FailedGrows
<1>8. delivered[n] <= Failed + A \/ (Gone(n) /\ delivered[n] + C <= Failed + Together)
  BY DEF Sendings
<1> HIDE DEF A, B, C, D
<1>6. CASE delivered[n] <= Failed + A
  BY <1>1, <1>2, <1>5, <1>6 DEF B
<1>7. CASE Gone(n) /\ delivered[n] + C <= Failed + Together
  BY <1>1, <1>3, <1>4, <1>5, <1>7 DEF D
<1> QED
  BY <1>6, <1>7, <1>8

\* A request that took effect sent each beat of its batch once, and no other.
LEMMA DeliverOnce ==
  ASSUME TypeOK, NEW p \in Procs, Deliver(batch[p]) \/ UNCHANGED delivered, NEW n \in Serials,
         pc[p] = "post"
  PROVE  \/ delivered'[n] = delivered[n]
         \/ delivered'[n] = delivered[n] + 1 /\ p \in Holders("post", n)
<1>1. CASE UNCHANGED delivered
  BY <1>1
<1>2. CASE Deliver(batch[p])
  <2>1. CASE \E r \in Sendable(batch[p]) : r.beat.n = n
    BY <1>2, <2>1 DEF Deliver, Sendable, Holders
  <2>2. CASE ~ \E r \in Sendable(batch[p]) : r.beat.n = n
    BY <1>2, <2>2 DEF Deliver
  <2> QED
    BY <2>1, <2>2
<1> QED
  BY <1>1, <1>2

(***************************************************************************)
(* A request with a beat turns its process from one that can still send it *)
(* into one that is about to delete it, or uses up a fault.                *)
(***************************************************************************)
LEMMA SendingsPost ==
  ASSUME IsFiniteSet(Procs), TypeOK, TypeOK', Sendings, overlap' = overlap,
         NEW p \in Procs, pc[p] = "post",
         Deliver(batch[p]) \/ UNCHANGED delivered,
         \A q \in Procs : q # p => pc'[q] = pc[q] /\ batch'[q] = batch[q],
         UNCHANGED <<table, log>>, faults' \in Nat, faults' <= faults,
         \/ pc'[p] = "ack" /\ batch'[p] = batch[p]
         \/ pc'[p] = "idle" /\ faults' < faults
  PROVE  Sendings'
<1> SUFFICES ASSUME NEW n \in Serials
             PROVE  \/ delivered'[n] <= Failed' + Cardinality(Holders("ack", n)')
                    \/ /\ Gone(n)'
                       /\ delivered'[n] + Cardinality(Holders("post", n)') <= Failed' + Together'
  BY DEF Sendings
<1> DEFINE A == Cardinality(Holders("ack", n))
           B == Cardinality(Holders("ack", n)')
           C == Cardinality(Holders("post", n))
           D == Cardinality(Holders("post", n)')
           more == delivered'[n]
<1>1. delivered[n] \in Nat /\ faults \in Nat /\ A \in Nat /\ C \in Nat
  BY HoldersFinite DEF TypeOK
<1>2. \/ more = delivered[n]
      \/ more = delivered[n] + 1 /\ p \in Holders("post", n)
  BY DeliverOnce
<1>3. Holders("post", n)' = Holders("post", n) \ {p}
  BY DEF Holders
<1>4. D \in Nat /\ D = IF p \in Holders("post", n) THEN C - 1 ELSE C
  BY <1>3, HoldersLeave
<1>5. \/ B = A /\ Failed' >= Failed + 1
      \/ B = A /\ p \notin Holders("post", n)
      \/ B = A + 1
  <2>1. CASE pc'[p] = "idle" /\ faults' < faults
    <3>1. Holders("ack", n)' = Holders("ack", n)
      BY <2>1 DEF Holders
    <3> QED
      BY <1>1, <2>1, <3>1, FailedGrows
  <2>2. CASE pc'[p] = "ack" /\ p \in Holders("post", n) /\ batch'[p] = batch[p]
    <3>1. Holders("ack", n)' = Holders("ack", n) \union {p} /\ p \notin Holders("ack", n)
      BY <2>2 DEF Holders
    <3> QED
      BY <3>1, HoldersJoin
  <2>3. CASE pc'[p] = "ack" /\ p \notin Holders("post", n) /\ batch'[p] = batch[p]
    <3>1. Holders("ack", n)' = Holders("ack", n)
      BY <2>3 DEF Holders
    <3> QED
      BY <2>3, <3>1
  <2> QED
    BY <2>1, <2>2, <2>3
<1>6. Failed' >= Failed /\ Failed' \in Int /\ Failed \in Int
  BY <1>1, FailedGrows
<1>7. Together \in Nat /\ Together' = Together /\ (Gone(n) => Gone(n)')
  BY FS_CardinalityType DEF Together, Gone
<1>8. delivered[n] <= Failed + A \/ (Gone(n) /\ delivered[n] + C <= Failed + Together)
  BY DEF Sendings
<1> HIDE DEF A, B, C, D, more
<1>9. CASE delivered[n] <= Failed + A
  <2>1. more <= Failed' + B
    BY <1>1, <1>2, <1>5, <1>6, <1>9
  <2> QED
    BY <2>1 DEF more, B
<1>10. CASE Gone(n) /\ delivered[n] + C <= Failed + Together
  <2>1. more + D <= Failed' + Together'
    BY <1>1, <1>2, <1>4, <1>6, <1>7, <1>10
  <2> QED
    BY <1>7, <1>10, <2>1 DEF more, D
<1> QED
  BY <1>8, <1>9, <1>10

(***************************************************************************)
(* The process that deletes the beat leaves it to those that hold it.      *)
(***************************************************************************)
LEMMA SendingsAck ==
  ASSUME IsFiniteSet(Procs), Inv, TypeOK', OneByOne, Sendings, overlap' = overlap,
         NEW p \in Procs, Ack(p)
  PROVE  Sendings'
<1> SUFFICES ASSUME NEW n \in Serials
             PROVE  \/ delivered'[n] <= Failed' + Cardinality(Holders("ack", n)')
                    \/ /\ Gone(n)'
                       /\ delivered'[n] + Cardinality(Holders("post", n)') <= Failed' + Together'
  BY DEF Sendings
<1> DEFINE A == Cardinality(Holders("ack", n))
           C == Cardinality(Holders("post", n))
<1>1. /\ pc[p] = "ack" /\ table' = Without(Ids(batch[p])) /\ UNCHANGED <<delivered, faults, log>>
      /\ \A q \in Procs : q # p => pc'[q] = pc[q] /\ batch'[q] = batch[q]
      /\ pc'[p] = "take" /\ batch'[p] = {}
  BY DEF Ack, Inv, TypeOK
<1>2. Failed' = Failed /\ Together' = Together
  BY <1>1 DEF Failed, Together
<1>3. Holders("post", n)' = Holders("post", n)
  BY <1>1 DEF Holders
<1>4. Gone(n) => Gone(n)'
  BY <1>1 DEF Gone, Without
<1>5. delivered[n] \in Nat /\ A \in Nat /\ C \in Nat /\ Failed \in Int /\ Together \in Nat /\ A + C <= Together
  <2>1. Failed \in Int
    BY MaxFaultsAssumption DEF Failed, Inv, TypeOK
  <2> QED
    BY <2>1, HoldersFinite, HoldersFew, FS_CardinalityType DEF Inv, TypeOK, Together
<1>6. delivered[n] <= Failed + A \/ (Gone(n) /\ delivered[n] + C <= Failed + Together)
  BY DEF Sendings
<1>7. CASE Gone(n) /\ delivered[n] + C <= Failed + Together
  BY <1>1, <1>2, <1>3, <1>4, <1>7
<1>8. CASE delivered[n] <= Failed + A /\ p \notin Holders("ack", n)
  <2>1. Holders("ack", n)' = Holders("ack", n)
    BY <1>1, <1>8 DEF Holders
  <2> QED
    BY <1>1, <1>2, <1>8, <2>1
<1>9. CASE delivered[n] <= Failed + A /\ p \in Holders("ack", n)
  <2>1. PICK r \in batch[p] : r.beat.n = n
    BY <1>9 DEF Holders
  <2>2. r \in log /\ r \notin table'
    BY <1>1, <2>1 DEF Inv, BatchesAreOldest, Readable, Without, Ids
  <2>3. Gone(n)'
    BY <1>1, <2>1, <2>2 DEF Gone
  <2>4. delivered[n] + C <= Failed + Together
    BY <1>5, <1>9
  <2> QED
    BY <1>1, <1>2, <1>3, <2>3, <2>4
<1> QED
  BY <1>6, <1>7, <1>8, <1>9

\* What Take picks up has not left the table.
LEMMA SendingsTake ==
  ASSUME IsFiniteSet(Procs), Inv, Inv', Labels, OneByOne, Sendings, overlap' = overlap,
         NEW p \in Procs, Take(p)
  PROVE  Sendings'
<1>1. /\ pc[p] = "take" /\ UNCHANGED <<delivered, log>> /\ table' \subseteq table
      /\ \A q \in Procs : q # p => pc'[q] = pc[q] /\ batch'[q] = batch[q]
      /\ batch'[p] \subseteq table
      /\ faults' \in Nat /\ faults' <= faults
  <2>1. /\ pc[p] = "take" /\ UNCHANGED <<delivered, log>> /\ table' \subseteq table
        /\ faults' \in Nat /\ faults' <= faults
    BY DEF Take, Inv, TypeOK
  <2>2. batch' = [batch EXCEPT ![p] = Readable(Oldest(BatchSize))]
        /\ \A q \in Procs : q # p => pc'[q] = pc[q]
    BY DEF Take, Inv, TypeOK
  <2>3. batch'[p] \subseteq table /\ \A q \in Procs : q # p => batch'[q] = batch[q]
    BY <2>2 DEF Readable, Oldest, Inv, TypeOK
  <2> QED
    BY <2>1, <2>2, <2>3
<1>2. \A n \in Serials : Gone(n) => Gone(n)'
  BY <1>1 DEF Gone
<1>3. \A n \in Serials : p \in Holders("post", n)' => ~Gone(n)
  BY <1>1 DEF Holders, Gone, Labels, RowsApart, Inv, HistoryOK
<1> QED
  BY <1>1, <1>2, <1>3, SendingsQuiet DEF Inv

LEMMA SendingsStep ==
  IsFiniteSet(Procs) /\ Inv /\ Inv' /\ Labels /\ OneByOne /\ Sendings /\ [Next]_vars => Sendings'
<1> SUFFICES ASSUME IsFiniteSet(Procs), Inv, Inv', Labels, OneByOne, Sendings, [Next]_vars
             PROVE  Sendings'
  OBVIOUS
<1>0. overlap' = overlap /\ TypeOK /\ TypeOK'
  BY DEF Next, Inv
<1> DEFINE Moves(p) == \A q \in Procs : q # p => pc'[q] = pc[q] /\ batch'[q] = batch[q]
<1>1. ASSUME NEW p \in Procs, \/ \E beats \in Invocations : Start(p, beats)
                              \/ StartThrottled(p) \/ Check(p) \/ MarkEmitted(p)
      PROVE  Sendings'
  <2>1. /\ Moves(p) /\ UNCHANGED <<delivered, faults, table, log>>
        /\ pc[p] # "ack" /\ pc'[p] # "post" /\ faults' \in Nat /\ faults' <= faults
    BY <1>1, <1>0 DEF Start, StartThrottled, Free, Check, MarkEmitted, TypeOK
  <2>2. \A n \in Serials : (Gone(n) => Gone(n)') /\ p \notin Holders("post", n)'
    BY <2>1 DEF Gone, Holders
  <2> QED
    BY <1>0, <2>1, <2>2, SendingsQuiet
<1>2. ASSUME NEW p \in Procs, Enqueue(p) PROVE Sendings'
  <2> DEFINE row == [id |-> NextId, beat |-> Head(todo[p])]
  <2>1. /\ Moves(p) /\ UNCHANGED <<delivered, faults>> /\ pc[p] # "ack" /\ pc'[p] # "post"
        /\ table' = table \union {row} /\ log' = log \union {row}
        /\ faults' \in Nat /\ faults' <= faults
    BY <1>2, <1>0 DEF Enqueue, TypeOK
  <2>5. Head(todo[p]) \in Fresh
    BY <1>2 DEF Enqueue, Inv, TypeOK
  <2>2. Head(todo[p]) \in BeatType
    BY <2>5 DEF Fresh
  <2>3. row \notin log
    BY <2>2, NewRow DEF Inv
  <2> HIDE DEF row
  <2>4. \A n \in Serials : (Gone(n) => Gone(n)') /\ p \notin Holders("post", n)'
    BY <2>1, <2>3 DEF Gone, Holders
  <2> QED
    BY <1>0, <2>1, <2>4, SendingsQuiet
<1>3. ASSUME NEW p \in Procs, PostAccepted(p) PROVE Sendings'
  <2>1. /\ Moves(p) /\ UNCHANGED <<faults, table, log, batch>> /\ pc[p] = "post" /\ pc'[p] = "ack"
        /\ Deliver(batch[p]) /\ faults' \in Nat /\ faults' <= faults
    BY <1>3, <1>0 DEF PostAccepted, TypeOK
  <2> QED
    BY <1>0, <2>1, SendingsPost
<1>4. ASSUME NEW p \in Procs, PostFailed(p) PROVE Sendings'
  <2>1. /\ Moves(p) /\ UNCHANGED <<table, log>> /\ pc[p] = "post" /\ pc'[p] = "idle"
        /\ Deliver(batch[p]) \/ UNCHANGED delivered
        /\ faults' \in Nat /\ faults' < faults
    BY <1>4, <1>0 DEF PostFailed, TypeOK
  <2>2. faults' <= faults
    BY <1>0, <2>1 DEF TypeOK
  <2> QED
    BY <1>0, <2>1, <2>2, SendingsPost
<1>5. ASSUME NEW p \in Procs, PostRefused(p) \/ Drop(p) PROVE Sendings'
  <2>1. /\ Moves(p) /\ UNCHANGED <<delivered, faults, log>> /\ pc[p] # "ack" /\ pc'[p] # "post"
        /\ table' \subseteq table /\ faults' \in Nat /\ faults' <= faults
    BY <1>5, <1>0 DEF PostRefused, Drop, Without, TypeOK
  <2>2. \A n \in Serials : (Gone(n) => Gone(n)') /\ p \notin Holders("post", n)'
    BY <2>1 DEF Gone, Holders
  <2> QED
    BY <1>0, <2>1, <2>2, SendingsQuiet
<1>6. ASSUME NEW p \in Procs, Die(p) PROVE Sendings'
  <2>1. /\ Moves(p) /\ UNCHANGED <<delivered, table, log>> /\ pc'[p] # "post"
        /\ faults' \in Nat /\ faults' < faults
    BY <1>6, <1>0 DEF Die, TypeOK
  <2>2. \A n \in Serials : (Gone(n) => Gone(n)') /\ p \notin Holders("post", n)'
    BY <2>1 DEF Gone, Holders
  <2>3. faults' <= faults
    BY <1>0, <2>1 DEF TypeOK
  <2> QED
    BY <1>0, <2>1, <2>2, <2>3, SendingsQuiet
<1>7. CASE UNCHANGED vars
  <2>1. UNCHANGED <<delivered, faults, table, log, pc, batch>>
    BY <1>7
  <2> QED
    BY <1>0, <2>1 DEF Sendings, Failed, Together, Holders, Gone
<1> QED
  BY <1>0, <1>1, <1>2, <1>3, <1>4, <1>5, <1>6, <1>7, SendingsAck, SendingsTake DEF Next, Run

\* Nothing is sent at first.
LEMMA RedeliveryInit ==
  ASSUME IsFiniteSet(Procs), EachBeatOnce, Init
  PROVE  RedeliveryInv
<1>1. \A p \in Procs : todo[p] = <<>>
  BY DEF Init
<1>2. Labels
  BY <1>1 DEF Init, EachBeatOnce, Labels, RowsApart, ListsApart, ListsNew, UnmadeNew, Unqueued
<1>3. OneByOne
  BY DEF Init, OneByOne
<1>4. ASSUME NEW n \in Serials
      PROVE  delivered[n] <= Failed + Cardinality(Holders("ack", n))
  <2>1. delivered[n] = 0 /\ Failed = 0
    BY MaxFaultsAssumption DEF Init, Failed
  <2> QED
    BY <2>1, HoldersFinite
<1> QED
  BY <1>2, <1>3, <1>4 DEF RedeliveryInv, Sendings

LEMMA RedeliveryBound ==
  ASSUME IsFiniteSet(Procs), TypeOK, OneByOne, Sendings
  PROVE  BoundedRedelivery
<1> SUFFICES ASSUME NEW n \in Serials
             PROVE  delivered[n] <= Together + Failed
  BY DEF BoundedRedelivery, Together, Failed
<1>1. /\ delivered[n] \in Nat /\ Failed \in Int /\ Together \in Nat
      /\ Cardinality(Holders("ack", n)) \in Nat /\ Cardinality(Holders("post", n)) \in Nat
  BY HoldersFinite, FS_CardinalityType, MaxFaultsAssumption DEF TypeOK, Failed, Together
<1> QED
  BY <1>1, HoldersFew DEF Sendings

(***************************************************************************)
(* A beat is on the server more than once only when flushes overlap or     *)
(* fail: once for each process that can run at a time, once more for each  *)
(* fault (heartbeat.go: flush sends before it acknowledges).               *)
(***************************************************************************)
THEOREM RedeliveryBounded ==
  ASSUME IsFiniteSet(Procs), EachBeatOnce
  PROVE  Spec => []BoundedRedelivery
<1>1. Init => RedeliveryInv
  BY RedeliveryInit
<1>2. Inv /\ Inv' /\ RedeliveryInv /\ [Next]_vars => RedeliveryInv'
  BY LabelsStep, OneByOneStep, SendingsStep DEF RedeliveryInv
<1>3. Inv /\ RedeliveryInv => BoundedRedelivery
  BY RedeliveryBound DEF RedeliveryInv, Inv
<1> QED
  BY <1>1, <1>2, <1>3, InvHolds, PTL DEF Spec
=============================================================================
