-------------------------- MODULE HeartbeatProofs --------------------------
(***************************************************************************)
(* What TLAPS proves of Heartbeat, for any number of processes, any beats, *)
(* any batch size and any number of faults.                                *)
(***************************************************************************)
EXTENDS Heartbeat, FiniteSetTheorems, TLAPS

USE DEF vars, changing, database, process, history

\* Taking off an unknown ai_tool leaves a beat that can be queued.
LEMMA CleanBeat ==
  ASSUME NEW b \in Beats, b.readable
  PROVE  DropUnknownAITool(b) \in Fresh
  BY BeatsAssumption DEF BeatType, DropUnknownAITool, Fresh

(***************************************************************************)
(* The row Enqueue inserts is none of the earlier ones: its id is above    *)
(* theirs all (queue.go: AUTOINCREMENT).                                   *)
(***************************************************************************)
LEMMA NewRow ==
  ASSUME TypeOK, HistoryOK, NEW b \in BeatType,
         NEW row, row = [id |-> NextId, beat |-> b]
  PROVE  /\ row \in Rows
         /\ row.id = seq + 1
         /\ \A r \in log : r.id \in Nat /\ r.id < row.id
  BY DEF TypeOK, HistoryOK, NextId, Rows

(***************************************************************************)
(* Take's window is closed downwards in the table (queue.go: ORDER BY id). *)
(***************************************************************************)
LEMMA WindowIsOldest ==
  ASSUME TypeOK, HistoryOK,
         NEW r \in Oldest(BatchSize), NEW s \in table, s.id < r.id
  PROVE  s \in Oldest(BatchSize)
<1> DEFINE below(t) == {u \in table : u.id <= t.id}
<1>1. IsFiniteSet(table)
  BY FS_Subset DEF HistoryOK
<1>2. IsFiniteSet(below(r))
  BY <1>1, FS_Subset
<1>3. below(s) \subseteq below(r)
  BY DEF TypeOK, Oldest, Rows
<1>4. Cardinality(below(s)) <= Cardinality(below(r))
  BY <1>2, <1>3, FS_Subset
<1>5. IsFiniteSet(below(s))
  BY <1>2, <1>3, FS_Subset
<1>6. Cardinality(below(s)) \in Nat /\ Cardinality(below(r)) \in Nat
  BY <1>2, <1>5, FS_CardinalityType
<1>7. Cardinality(below(r)) <= BatchSize
  BY DEF Oldest
<1> QED
  BY <1>4, <1>6, <1>7, BatchSizeAssumption DEF Oldest

-----------------------------------------------------------------------------
(* Types *)

\* Init gives every variable its type.
LEMMA TypeInit == Init => TypeOK
<1> SUFFICES ASSUME Init PROVE TypeOK
  OBVIOUS
<1>1. Leftover \subseteq Rows
  BY LeftoverAssumption, BeatsAssumption DEF Rows
<1>2. todo \in [Procs -> Seq(Fresh)]
  BY DEF Init
<1> QED
  BY <1>1, <1>2, LeftoverAssumption, MarksAssumption, MaxFaultsAssumption,
     OverlapsAssumption
  DEF Init, TypeOK

\* Every step keeps the types.
LEMMA TypeStep == TypeOK /\ HistoryOK /\ [Next]_vars => TypeOK'
<1> SUFFICES ASSUME TypeOK, HistoryOK, [Next]_vars PROVE TypeOK'
  OBVIOUS
<1>0. overlap' = overlap
  BY DEF Next
<1> USE <1>0
<1>1. ASSUME NEW p \in Procs, NEW beats \in Invocations, Start(p, beats)
      PROVE  TypeOK'
  <2>1. beats \in Seq(Beats) /\ \A i \in DOMAIN beats : beats[i].readable
    BY InvocationsAssumption
  <2>2. \A i \in DOMAIN beats : DropUnknownAITool(beats[i]) \in Fresh
    BY <2>1, CleanBeat
  <2>3. [i \in DOMAIN beats |-> DropUnknownAITool(beats[i])] \in Seq(Fresh)
    BY <2>1, <2>2
  <2> QED
    BY <1>1, <2>3 DEF TypeOK, Start
<1>2. ASSUME NEW p \in Procs, StartThrottled(p) PROVE TypeOK'
  BY <1>2 DEF TypeOK, StartThrottled
<1>3. ASSUME NEW p \in Procs, Check(p) PROVE TypeOK'
  <2>1. CASE todo[p] = <<>>
    BY <1>3, <2>1 DEF TypeOK, Check
  <2>2. CASE todo[p] # <<>> /\ ShouldEmit(Head(todo[p]))
    BY <1>3, <2>2 DEF TypeOK, Check
  <2>3. CASE todo[p] # <<>> /\ ~ShouldEmit(Head(todo[p]))
    <3>1. Tail(todo[p]) \in Seq(Fresh)
      BY <2>3 DEF TypeOK
    <3>2. todo' \in [Procs -> Seq(Fresh)]
      BY <1>3, <2>3, <3>1 DEF TypeOK, Check
    <3>3. pc' = pc /\ pc[p] = "check"
      BY <1>3, <2>3 DEF Check
    <3>4. \A q \in Procs : q # p => todo'[q] = todo[q]
      BY <1>3, <2>3 DEF Check, TypeOK
    <3> QED
      BY <1>3, <3>2, <3>3, <3>4 DEF TypeOK, Check
  <2> QED
    BY <2>1, <2>2, <2>3
<1>4. ASSUME NEW p \in Procs, Enqueue(p) PROVE TypeOK'
  <2> DEFINE row == [id |-> NextId, beat |-> Head(todo[p])]
  <2>1. Head(todo[p]) \in Fresh
    BY <1>4 DEF TypeOK, Enqueue
  <2>2. row \in Rows
    BY <2>1, NewRow DEF Fresh
  <2>3. seq' \in Nat
    BY <1>4 DEF TypeOK, Enqueue, NextId
  <2> QED
    BY <1>4, <2>2, <2>3 DEF TypeOK, Enqueue
<1>5. ASSUME NEW p \in Procs, MarkEmitted(p) PROVE TypeOK'
  <2>1. Head(todo[p]) \in Fresh /\ Tail(todo[p]) \in Seq(Fresh)
    BY <1>5 DEF TypeOK, MarkEmitted
  <2>2. Head(todo[p]).key \in Keys /\ Head(todo[p]).time \in Int
    BY <2>1 DEF BeatType, Fresh
  <2> QED
    BY <1>5, <2>1, <2>2 DEF TypeOK, MarkEmitted
<1>6. ASSUME NEW p \in Procs, Take(p) PROVE TypeOK'
  <2> DEFINE readable == Readable(Oldest(BatchSize))
  <2>1. readable \in SUBSET Rows
    BY DEF TypeOK, Oldest, Readable
  <2>2. table' \subseteq Rows /\ faults' \in Nat
    BY <1>6 DEF TypeOK, Take
  <2>3. batch' = [batch EXCEPT ![p] = readable]
    BY <1>6 DEF Take
  <2>4. pc' = [pc EXCEPT ![p] = IF readable = {} THEN "idle" ELSE "post"]
    BY <1>6 DEF Take
  <2>5. UNCHANGED <<seq, marks, made, todo, delivered, history>>
    BY <1>6 DEF Take
  <2> HIDE DEF readable
  <2> QED
    BY <2>1, <2>2, <2>3, <2>4, <2>5 DEF TypeOK
<1>7. ASSUME NEW p \in Procs, PostAccepted(p) PROVE TypeOK'
  BY <1>7 DEF TypeOK, PostAccepted, Deliver
<1>8. ASSUME NEW p \in Procs, PostRefused(p) PROVE TypeOK'
  BY <1>8 DEF TypeOK, PostRefused
<1>9. ASSUME NEW p \in Procs, PostFailed(p) PROVE TypeOK'
  <2>1. CASE Deliver(batch[p])
    BY <1>9, <2>1 DEF TypeOK, PostFailed, Deliver
  <2>2. CASE UNCHANGED delivered
    BY <1>9, <2>2 DEF TypeOK, PostFailed
  <2> QED
    BY <1>9, <2>1, <2>2 DEF PostFailed
<1>10. ASSUME NEW p \in Procs, Ack(p) PROVE TypeOK'
  BY <1>10 DEF TypeOK, Ack, Without
<1>11. ASSUME NEW p \in Procs, Drop(p) PROVE TypeOK'
  BY <1>11 DEF TypeOK, Drop, Without
<1>12. ASSUME NEW p \in Procs, Die(p) PROVE TypeOK'
  BY <1>12 DEF TypeOK, Die
<1>13. CASE UNCHANGED vars
  BY <1>13 DEF TypeOK
<1> QED
  BY <1>1, <1>2, <1>3, <1>4, <1>5, <1>6, <1>7, <1>8, <1>9, <1>10, <1>11, <1>12,
     <1>13 DEF Next, Run

-----------------------------------------------------------------------------
(* The inductive invariant *)

\* The invariant holds of the rows an earlier history left.
LEMMA InvInit == Init => Inv
<1> SUFFICES ASSUME Init PROVE Inv
  OBVIOUS
<1>1. TypeOK
  BY TypeInit
<1>2. HistoryOK
  BY LeftoverAssumption DEF Init, HistoryOK
<1>3. NothingLost /\ SettledInOrder /\ BatchesAreOldest
  BY DEF Init, NothingLost, SettledInOrder, BatchesAreOldest, Settled
<1> QED
  BY <1>1, <1>2, <1>3 DEF Inv

(***************************************************************************)
(* Steps that leave the history alone, and add nothing to the table or to  *)
(* a batch, keep the history in order.                                     *)
(***************************************************************************)
LEMMA SameHistory ==
  ASSUME Inv, UNCHANGED history, UNCHANGED seq, table' = table,
         \A p \in Procs :
           \/ batch'[p] = {}
           \/ batch'[p] = batch[p] /\ (pc'[p] \in {"ack", "drop"} => pc'[p] = pc[p]),
         \A p \in Procs : pc'[p] \in {"ack", "drop"} => pc'[p] = pc[p]
  PROVE  HistoryOK' /\ NothingLost' /\ SettledInOrder' /\ BatchesAreOldest'
<1>1. HistoryOK' /\ NothingLost' /\ SettledInOrder'
  BY DEF Inv, HistoryOK, NothingLost, SettledInOrder, Settled
<1>2. BatchesAreOldest'
  BY DEF Inv, BatchesAreOldest, Settled, Readable
<1> QED
  BY <1>1, <1>2

(***************************************************************************)
(* Deleting the rows of a settled batch by their ids deletes settled rows  *)
(* only: ids are never given out twice (queue.go: Ack).                    *)
(***************************************************************************)
LEMMA DeleteSettled ==
  ASSUME Inv, NEW p \in Procs, batch[p] \subseteq Settled,
         UNCHANGED history, UNCHANGED seq,
         table' = Without(Ids(batch[p])),
         batch' = [batch EXCEPT ![p] = {}],
         NEW place, place \notin {"ack", "drop"}, pc' = [pc EXCEPT ![p] = place]
  PROVE  HistoryOK' /\ NothingLost' /\ SettledInOrder' /\ BatchesAreOldest'
<1>1. HistoryOK'
  BY DEF Inv, HistoryOK, Without
<1>2. \A r \in table : r \in table' \/ r \in Settled
  BY DEF Inv, HistoryOK, BatchesAreOldest, Without, Ids, Readable
<1>3. NothingLost'
  BY <1>2 DEF Inv, NothingLost, Settled
<1>4. SettledInOrder'
  BY DEF Inv, SettledInOrder, Settled
<1>5. \A q \in Procs : q # p => batch'[q] = batch[q] /\ pc'[q] = pc[q]
  BY DEF Inv, TypeOK
<1>6. batch'[p] = {} /\ pc'[p] \notin {"ack", "drop"}
  BY DEF Inv, TypeOK
<1>7. BatchesAreOldest'
  BY <1>5, <1>6 DEF Inv, BatchesAreOldest, Settled, Readable
<1> QED
  BY <1>1, <1>3, <1>4, <1>7

(***************************************************************************)
(* An answer settles the oldest unsettled rows.                            *)
(***************************************************************************)
LEMMA SettleBatch ==
  ASSUME Inv, NEW p \in Procs, UNCHANGED <<table, seq, log, batch>>,
         NEW place, pc' = [pc EXCEPT ![p] = place],
         \/ /\ place = "ack"
            /\ answered' = answered \union batch[p]
            /\ refused' = refused
         \/ /\ place = "drop"
            /\ refused' = refused \union batch[p]
            /\ answered' = answered
  PROVE  HistoryOK' /\ NothingLost' /\ SettledInOrder' /\ BatchesAreOldest'
<1>0. Settled' = Settled \union batch[p]
  BY DEF Settled
<1>1. batch[p] \subseteq log
  BY DEF Inv, BatchesAreOldest, Readable
<1>2. HistoryOK'
  BY <1>1 DEF Inv, HistoryOK
<1>3. NothingLost'
  BY <1>0 DEF Inv, NothingLost
<1>4. SettledInOrder'
  BY <1>0 DEF Inv, SettledInOrder, BatchesAreOldest
<1>5. \A q \in Procs : q # p => pc'[q] = pc[q]
  BY DEF Inv, TypeOK
<1>6. pc'[p] = place
  BY DEF Inv, TypeOK
<1>7. BatchesAreOldest'
  BY <1>0, <1>5, <1>6 DEF Inv, BatchesAreOldest, Readable
<1> QED
  BY <1>2, <1>3, <1>4, <1>7

\* Every step of every process keeps the invariant.
LEMMA InvStep == Inv /\ [Next]_vars => Inv'
<1> SUFFICES ASSUME Inv, [Next]_vars
             PROVE  HistoryOK' /\ NothingLost' /\ SettledInOrder' /\ BatchesAreOldest'
  BY TypeStep DEF Inv
<1> DEFINE Goal == HistoryOK' /\ NothingLost' /\ SettledInOrder' /\ BatchesAreOldest'
<1>1. ASSUME NEW p \in Procs, NEW beats \in Invocations, Start(p, beats)
      PROVE  Goal
  BY <1>1, SameHistory DEF Start, Inv, TypeOK
<1>2. ASSUME NEW p \in Procs, StartThrottled(p) PROVE Goal
  BY <1>2, SameHistory DEF StartThrottled, Inv, TypeOK
<1>3. ASSUME NEW p \in Procs, Check(p) PROVE Goal
  BY <1>3, SameHistory DEF Check, Inv, TypeOK
<1>4. ASSUME NEW p \in Procs, Enqueue(p) PROVE Goal
  <2> DEFINE row == [id |-> NextId, beat |-> Head(todo[p])]
  <2>1. Head(todo[p]) \in Fresh
    BY <1>4 DEF Enqueue, Inv, TypeOK
  <2>2. row \in Rows /\ row.id = seq + 1 /\ \A r \in log : r.id \in Nat /\ r.id < row.id
    BY <2>1, NewRow DEF Inv, Fresh
  <2>3. /\ table' = table \union {row} /\ log' = log \union {row}
        /\ seq' = seq + 1
        /\ UNCHANGED <<answered, refused, batch>>
        /\ \A q \in Procs : pc'[q] \in {"ack", "drop"} => pc'[q] = pc[q]
    BY <1>4 DEF Enqueue, NextId, Inv, TypeOK
  <2> HIDE DEF row
  <2>4. HistoryOK'
    <3>1. IsFiniteSet(log')
      BY <2>3, FS_AddElement DEF Inv, HistoryOK
    <3>2. \A r \in log' : r.id <= seq'
      BY <2>2, <2>3 DEF Inv, HistoryOK, TypeOK
    <3>3. \A r, s \in log' : r.id = s.id => r = s
      BY <2>2, <2>3 DEF Inv, HistoryOK
    <3>4. table' \subseteq log' /\ answered' \subseteq log' /\ refused' \subseteq log'
      BY <2>3 DEF Inv, HistoryOK
    <3> QED
      BY <3>1, <3>2, <3>3, <3>4 DEF HistoryOK
  <2>5. NothingLost'
    BY <2>3 DEF Inv, NothingLost, Settled
  <2>6. ASSUME NEW r \in log, NEW s \in log', s.id < r.id PROVE s \in log
    BY <2>2, <2>3, <2>6
  <2>7. SettledInOrder'
    BY <2>3, <2>6 DEF Inv, SettledInOrder, Settled, HistoryOK
  <2>8. \A q \in Procs : batch[q] \subseteq log
    BY DEF Inv, BatchesAreOldest, Readable
  <2>9. BatchesAreOldest'
    BY <2>3, <2>6, <2>8 DEF Inv, BatchesAreOldest, Settled, Readable
  <2> QED
    BY <2>4, <2>5, <2>7, <2>9
<1>5. ASSUME NEW p \in Procs, MarkEmitted(p) PROVE Goal
  BY <1>5, SameHistory DEF MarkEmitted, Inv, TypeOK
<1>6. ASSUME NEW p \in Procs, Take(p) PROVE Goal
  <2> DEFINE window == Oldest(BatchSize)
  <2>1. /\ batch' = [batch EXCEPT ![p] = Readable(window)]
        /\ UNCHANGED <<seq, log, answered, refused>>
        /\ \A q \in Procs : pc'[q] \in {"ack", "drop"} => q # p /\ pc'[q] = pc[q]
    BY <1>6 DEF Take, Inv, TypeOK
  <2>2. table' \subseteq table
    BY <1>6 DEF Take
  <2>3. \A r \in table : r \in table' \/ ~r.beat.readable
    BY <1>6 DEF Take, Corrupt, Readable
  <2>4. HistoryOK'
    BY <2>1, <2>2 DEF Inv, HistoryOK
  <2>5. NothingLost' /\ SettledInOrder'
    BY <2>1, <2>3 DEF Inv, NothingLost, SettledInOrder, Settled
  <2>6. Readable(window) \subseteq Readable(log)
    BY DEF Inv, HistoryOK, Oldest, Readable
  <2>7. ASSUME NEW r \in Readable(window), NEW s \in log, s.id < r.id
        PROVE  s \in Readable(window) \/ s \in Settled \/ ~s.beat.readable
    <3>1. s \in table \/ s \in Settled \/ ~s.beat.readable
      BY DEF Inv, NothingLost
    <3>2. CASE s \in table
      BY <2>7, <3>2, WindowIsOldest DEF Inv, Readable
    <3> QED
      BY <3>1, <3>2
  <2>8. BatchesAreOldest'
    <3> SUFFICES ASSUME NEW q \in Procs
                 PROVE  /\ batch'[q] \subseteq Readable(log)
                        /\ \A r \in batch'[q] : \A s \in log : s.id < r.id =>
                              s \in batch'[q] \/ s \in Settled \/ ~s.beat.readable
                        /\ pc'[q] = "ack" => batch'[q] \subseteq answered
                        /\ pc'[q] = "drop" => batch'[q] \subseteq refused
      BY <2>1 DEF BatchesAreOldest, Settled, Readable
    <3>1. CASE q = p
      BY <2>1, <2>6, <2>7, <3>1 DEF Inv, TypeOK
    <3>2. CASE q # p
      BY <2>1, <3>2 DEF Inv, TypeOK, BatchesAreOldest
    <3> QED
      BY <3>1, <3>2
  <2> QED
    BY <2>4, <2>5, <2>8
<1>7. ASSUME NEW p \in Procs, PostAccepted(p) PROVE Goal
  BY <1>7, SettleBatch DEF PostAccepted
<1>8. ASSUME NEW p \in Procs, PostRefused(p) PROVE Goal
  BY <1>8, SettleBatch DEF PostRefused
<1>9. ASSUME NEW p \in Procs, PostFailed(p) PROVE Goal
  BY <1>9, SameHistory DEF PostFailed, Inv, TypeOK
<1>10. ASSUME NEW p \in Procs, Ack(p) PROVE Goal
  <2>1. batch[p] \subseteq Settled
    BY <1>10 DEF Ack, Inv, BatchesAreOldest, Settled
  <2> QED
    BY <1>10, <2>1, DeleteSettled DEF Ack
<1>11. ASSUME NEW p \in Procs, Drop(p) PROVE Goal
  <2>1. batch[p] \subseteq Settled
    BY <1>11 DEF Drop, Inv, BatchesAreOldest, Settled
  <2> QED
    BY <1>11, <2>1, DeleteSettled DEF Drop
<1>12. ASSUME NEW p \in Procs, Die(p) PROVE Goal
  BY <1>12, SameHistory DEF Die, Inv, TypeOK
<1>13. CASE UNCHANGED vars
  BY <1>13, SameHistory DEF Inv, TypeOK
<1> QED
  BY <1>1, <1>2, <1>3, <1>4, <1>5, <1>6, <1>7, <1>8, <1>9, <1>10, <1>11, <1>12,
     <1>13 DEF Next, Run

\* The invariant holds throughout.
THEOREM InvHolds == Spec => []Inv
  BY InvInit, InvStep, PTL DEF Spec

-----------------------------------------------------------------------------
(***************************************************************************)
(* Every variable keeps its type, whatever the processes do.               *)
(***************************************************************************)
THEOREM TypeCorrect == Spec => []TypeOK
<1>1. Inv => TypeOK
  BY DEF Inv
<1> QED
  BY <1>1, InvHolds, PTL

(***************************************************************************)
(* No beat is lost: with any number of processes queueing, flushing and    *)
(* dying, a row that parses leaves the table only after the server's       *)
(* answer (queue.go: Ack, Take; heartbeat.go: flush).                      *)
(***************************************************************************)
THEOREM NoBeatLost == Spec => []NothingLost
<1>1. Inv => NothingLost
  BY DEF Inv
<1> QED
  BY <1>1, InvHolds, PTL

(***************************************************************************)
(* Overlapping flushes never settle a beat before an older one             *)
(* (queue.go: Take is FIFO).                                               *)
(***************************************************************************)
THEOREM OldestFirst == Spec => []SettledInOrder
<1>1. Inv => SettledInOrder
  BY DEF Inv
<1> QED
  BY <1>1, InvHolds, PTL

-----------------------------------------------------------------------------
(* Heartbeat implements Outbox *)

\* The mapped variables, as Outbox names them.
Waiting == Ids(Readable(log) \ Settled)

(***************************************************************************)
(* An answer to a batch settles its waiting numbers and all before them.   *)
(***************************************************************************)
LEMMA AnswerSettles ==
  ASSUME Inv, NEW p \in Procs, UNCHANGED <<seq, log>>,
         Settled' = Settled \union batch[p]
  PROVE  [OutboxOfQueue!Next]_OutboxOfQueue!vars
<1> DEFINE settled == Ids(batch[p] \ Settled)
<1>1. batch[p] \subseteq Readable(log) /\ Readable(log) \subseteq log /\ log \subseteq Rows
  BY DEF Inv, BatchesAreOldest, Readable, TypeOK
<1>2. \A r, s \in log : r.id = s.id => r = s
  BY DEF Inv, HistoryOK
<1>3. Waiting' = Waiting \ settled
  BY <1>1, <1>2 DEF Waiting, Ids, Readable
<1>4. settled \subseteq Waiting
  BY <1>1 DEF Waiting, Ids
<1>5. \A n \in settled : \A m \in Waiting : m < n => m \in settled
  BY <1>1 DEF Waiting, Ids, Readable, Inv, BatchesAreOldest
<1>6. CASE settled = {}
  BY <1>3, <1>6 DEF OutboxOfQueue!vars, Waiting
<1>7. CASE settled # {}
  <2>1. settled \in (SUBSET Waiting) \ {{}}
    BY <1>4, <1>7
  <2>2. seq' + 1 = seq + 1
    OBVIOUS
  <2> HIDE DEF settled
  <2>3. OutboxOfQueue!Settle
    BY <2>1, <2>2, <1>3, <1>5 DEF OutboxOfQueue!Settle, Waiting
  <2> QED
    BY <2>3 DEF OutboxOfQueue!Next
<1> QED
  BY <1>6, <1>7

(***************************************************************************)
(* Every step of a process is a step of the outbox or leaves it alone.     *)
(***************************************************************************)
LEMMA OutboxStep == Inv /\ [Next]_vars => [OutboxOfQueue!Next]_OutboxOfQueue!vars
<1> SUFFICES ASSUME Inv, [Next]_vars PROVE [OutboxOfQueue!Next]_OutboxOfQueue!vars
  OBVIOUS
<1>1. ASSUME UNCHANGED history, UNCHANGED seq
      PROVE  [OutboxOfQueue!Next]_OutboxOfQueue!vars
  BY <1>1 DEF OutboxOfQueue!vars, Settled, Readable, Ids
<1>2. ASSUME NEW p \in Procs, Enqueue(p)
      PROVE  [OutboxOfQueue!Next]_OutboxOfQueue!vars
  <2> DEFINE row == [id |-> NextId, beat |-> Head(todo[p])]
  <2>1. Head(todo[p]) \in Fresh
    BY <1>2 DEF Enqueue, Inv, TypeOK
  <2>2. row.id = seq + 1 /\ row.beat.readable /\ \A r \in log : r.id < row.id
    BY <2>1, NewRow DEF Inv, Fresh
  <2>3. log' = log \union {row} /\ Settled' = Settled /\ seq' = seq + 1
    BY <1>2 DEF Enqueue, NextId, Settled
  <2>4. \A r \in Settled : r # row
    BY <2>2 DEF Inv, HistoryOK, TypeOK, Settled, Rows
  <2> HIDE DEF row
  <2>5. Waiting' = Waiting \union {seq + 1}
    BY <2>2, <2>3, <2>4 DEF Waiting, Ids, Readable
  <2>6. OutboxOfQueue!Put
    BY <2>3, <2>5 DEF OutboxOfQueue!Put, Waiting
  <2> QED
    BY <2>6 DEF OutboxOfQueue!Next
<1>3. ASSUME NEW p \in Procs, PostAccepted(p) \/ PostRefused(p)
      PROVE  [OutboxOfQueue!Next]_OutboxOfQueue!vars
  BY <1>3, AnswerSettles DEF PostAccepted, PostRefused, Settled
<1>4. ASSUME NEW p \in Procs,
             \/ \E beats \in Invocations : Start(p, beats)
             \/ StartThrottled(p) \/ Check(p) \/ MarkEmitted(p) \/ Take(p)
             \/ PostFailed(p) \/ Ack(p) \/ Drop(p) \/ Die(p)
      PROVE  UNCHANGED history /\ UNCHANGED seq
  BY <1>4 DEF Start, StartThrottled, Check, MarkEmitted, Take, PostFailed, Ack, Drop, Die
<1> QED
  BY <1>1, <1>2, <1>3, <1>4 DEF Next, Run

(***************************************************************************)
(* The safety half of ImplementsOutbox: whatever the processes do, the     *)
(* queue is an outbox that numbers its entries one by one and settles them *)
(* oldest first.  That they are all settled in the end is left to TLC.     *)
(***************************************************************************)
THEOREM QueueIsOutbox == Spec => OutboxOfQueue!SafeSpec
<1>1. Init => OutboxOfQueue!Init
  BY DEF Init, OutboxOfQueue!Init, Settled
<1> QED
  BY <1>1, InvHolds, OutboxStep, PTL DEF Spec, OutboxOfQueue!SafeSpec

-----------------------------------------------------------------------------
(* The throttle: between processes that do not overlap, with no fault, the   *)
(* check of one beat and the mark of the beat before it are never apart.     *)

\* The condition Throttled is stated under.
Undisturbed == RateLimit > 0 /\ ~overlap /\ faults = MaxFaults

\* What Throttled says under it.
Apart ==
    \A r, s \in log \ Leftover :
        LET between == {t \in log : /\ s.id < t.id /\ t.id < r.id
                                    /\ t.beat.key = r.beat.key}
        IN s.id < r.id /\ s.beat.key = r.beat.key /\ between = {} /\ ~r.beat.write
             => r.beat.time - s.beat.time >= RateLimit

\* The latest row of its file.
Latest(r) == \A t \in log : t.beat.key = r.beat.key => t.id <= r.id

\* p has queued the beat of its list that it has not marked.
Marking(p, key) == pc[p] = "mark" /\ Head(todo[p]).key = key

OneRuns == \A p, q \in Procs : pc[p] # "idle" /\ pc[q] # "idle" => p = q

Checked == \A p \in Procs : pc[p] = "enqueue" => ShouldEmit(Head(todo[p]))

\* The mark of a file is the time of its latest new row, unless a process is
\* about to make it so.
MarksLatest ==
    \A r \in log \ Leftover : Latest(r) =>
        /\ \A p \in Procs : Marking(p, r.beat.key) => r.beat = Head(todo[p])
        /\ (\A p \in Procs : ~Marking(p, r.beat.key)) => marks[r.beat.key] = r.beat.time

AloneInv == OneRuns /\ Checked /\ MarksLatest /\ Apart

\* Faults are only used up.
FaultsBound == faults <= MaxFaults

-----------------------------------------------------------------------------
\* A step that queues and marks nothing keeps what is said of the marks.
LEMMA AloneQuiet ==
  ASSUME AloneInv, UNCHANGED <<log, marks>>, OneRuns',
         \A p \in Procs : pc'[p] = "enqueue" => ShouldEmit(Head(todo'[p])),
         \A p \in Procs : (pc'[p] = "mark" \/ pc[p] = "mark") => pc'[p] = pc[p] /\ todo'[p] = todo[p]
  PROVE  AloneInv'
<1>1. Checked'
  BY DEF Checked, ShouldEmit
<1>2. \A p \in Procs : \A k : Marking(p, k)' <=> Marking(p, k)
  BY DEF Marking
<1>3. MarksLatest'
  <2> SUFFICES ASSUME NEW r \in log \ Leftover, Latest(r)'
               PROVE  /\ \A p \in Procs : Marking(p, r.beat.key)' => r.beat = Head(todo'[p])
                      /\ (\A p \in Procs : ~Marking(p, r.beat.key)') => marks[r.beat.key] = r.beat.time
    BY DEF MarksLatest
  <2>1. Latest(r)
    BY DEF Latest
  <2>2. /\ \A p \in Procs : Marking(p, r.beat.key) => r.beat = Head(todo[p])
        /\ (\A p \in Procs : ~Marking(p, r.beat.key)) => marks[r.beat.key] = r.beat.time
    BY <2>1 DEF AloneInv, MarksLatest
  <2>3. \A p \in Procs : Marking(p, r.beat.key)' => r.beat = Head(todo'[p])
    BY <1>2, <2>2 DEF Marking
  <2> QED
    BY <1>2, <2>2, <2>3
<1>4. Apart'
  BY DEF AloneInv, Apart
<1> QED
  BY <1>1, <1>3, <1>4 DEF AloneInv

\* The beat p queues is far enough from the latest row of its file.
LEMMA AloneEnqueue ==
  ASSUME Inv, AloneInv, RateLimit > 0, NEW p \in Procs, Enqueue(p)
  PROVE  AloneInv'
<1> DEFINE h == Head(todo[p])
           row == [id |-> NextId, beat |-> h]
<1>1. h \in Fresh
  BY DEF Inv, TypeOK, Enqueue
<1>2. row \in Rows /\ \A r \in log : r.id \in Nat /\ r.id < row.id
  BY <1>1, NewRow DEF Inv, Fresh
<1>3. /\ log' = log \union {row} /\ UNCHANGED <<marks, todo>>
      /\ \A q \in Procs : pc'[q] = IF q = p THEN "mark" ELSE "idle"
  BY DEF Enqueue, Inv, TypeOK, AloneInv, OneRuns
<1>4. \A q \in Procs : pc[q] # "mark"
  BY DEF Enqueue, AloneInv, OneRuns
<1>5. row.beat = h /\ h.key \in Keys /\ h.time \in Int /\ ShouldEmit(h)
  BY <1>1 DEF Fresh, BeatType, AloneInv, Checked, Enqueue
<1> HIDE DEF h, row
<1>6. OneRuns' /\ Checked'
  BY <1>3 DEF OneRuns, Checked
<1>7. \A q \in Procs : \A k : Marking(q, k)' <=> q = p /\ h.key = k
  BY <1>3 DEF Marking, h
<1>8. MarksLatest'
  <2> SUFFICES ASSUME NEW r \in log' \ Leftover, Latest(r)'
               PROVE  /\ \A q \in Procs : Marking(q, r.beat.key)' => r.beat = Head(todo'[q])
                      /\ (\A q \in Procs : ~Marking(q, r.beat.key)') => marks'[r.beat.key] = r.beat.time
    BY DEF MarksLatest
  <2>1. CASE r = row
    BY <1>3, <1>5, <1>7, <2>1 DEF h
  <2>2. CASE r # row
    <3>1. r \in log \ Leftover /\ r.id < row.id /\ r.id \in Nat /\ row.id \in Nat
      BY <1>2, <1>3, <2>2 DEF Rows
    <3>2. r.beat.key # h.key
      BY <1>3, <1>5, <3>1 DEF Latest
    <3>3. Latest(r)
      BY <1>3 DEF Latest
    <3>4. marks[r.beat.key] = r.beat.time
      BY <1>4, <3>1, <3>3 DEF AloneInv, MarksLatest, Marking
    <3> QED
      BY <1>3, <1>7, <3>2, <3>4
  <2> QED
    BY <2>1, <2>2
<1>9. Apart'
  <2> SUFFICES ASSUME NEW r \in log' \ Leftover, NEW s \in log' \ Leftover,
                      s.id < r.id, s.beat.key = r.beat.key, ~r.beat.write,
                      {t \in log' : s.id < t.id /\ t.id < r.id /\ t.beat.key = r.beat.key} = {}
               PROVE  r.beat.time - s.beat.time >= RateLimit
    BY DEF Apart
  <2>1. s \in log
    BY <1>2, <1>3 DEF Rows
  <2>2. CASE r # row
    <3>1. r \in log
      BY <1>3, <2>2
    <3>2. {t \in log : s.id < t.id /\ t.id < r.id /\ t.beat.key = r.beat.key} = {}
      BY <1>3
    <3> QED
      BY <2>1, <3>1, <3>2 DEF AloneInv, Apart
  <2>3. CASE r = row
    <3>1. \A t \in log : t.beat.key = s.beat.key => t.id <= s.id
      BY <1>2, <1>3, <2>1, <2>3
    <3>2. marks[s.beat.key] = s.beat.time
      BY <1>4, <2>1, <3>1 DEF AloneInv, MarksLatest, Marking, Latest
    <3>3. s.beat.time \in Int /\ NoMark \notin Int
      BY <2>1, NoMarkAssumption DEF Inv, TypeOK, Rows, BeatType
    <3>4. s.beat.key = h.key /\ ~h.write /\ r.beat = h
      BY <1>5, <2>3
    <3> QED
      BY <1>5, <3>2, <3>3, <3>4, RateLimitAssumption DEF ShouldEmit
  <2> QED
    BY <2>2, <2>3
<1> QED
  BY <1>6, <1>8, <1>9 DEF AloneInv

\* The mark follows the row.
LEMMA AloneMark ==
  ASSUME Inv, AloneInv, NEW p \in Procs, MarkEmitted(p)
  PROVE  AloneInv'
<1> DEFINE h == Head(todo[p])
<1>1. /\ log' = log /\ marks' = [marks EXCEPT ![h.key] = h.time]
      /\ \A q \in Procs : pc'[q] = IF q = p THEN "check" ELSE "idle"
  BY DEF MarkEmitted, Inv, TypeOK, AloneInv, OneRuns
<1>2. h.key \in Keys /\ pc[p] = "mark"
  <2>1. h \in Fresh /\ pc[p] = "mark"
    BY DEF Inv, TypeOK, MarkEmitted
  <2> QED
    BY <2>1 DEF Fresh, BeatType
<1>3. \A q \in Procs : pc[q] = "mark" => q = p
  BY <1>2 DEF AloneInv, OneRuns
<1>4. MarksLatest'
  <2> SUFFICES ASSUME NEW r \in log \ Leftover, Latest(r)
               PROVE  marks'[r.beat.key] = r.beat.time
    BY <1>1 DEF MarksLatest, Marking, Latest
  <2>1. r.beat.key \in Keys
    BY DEF Inv, TypeOK, Rows, BeatType
  <2>2. CASE r.beat.key = h.key
    <3>1. r.beat = h
      BY <1>2, <2>2 DEF AloneInv, MarksLatest, Marking
    <3> QED
      BY <1>1, <1>2, <3>1 DEF Inv, TypeOK
  <2>3. CASE r.beat.key # h.key
    <3>1. marks[r.beat.key] = r.beat.time
      BY <1>3, <2>3 DEF AloneInv, MarksLatest, Marking
    <3> QED
      BY <1>1, <2>1, <2>3, <3>1 DEF Inv, TypeOK
  <2> QED
    BY <2>2, <2>3
<1>5. OneRuns' /\ Checked' /\ Apart'
  BY <1>1 DEF OneRuns, Checked, Apart, AloneInv
<1> QED
  BY <1>4, <1>5 DEF AloneInv

-----------------------------------------------------------------------------
LEMMA AloneInit == Init => FaultsBound /\ (Undisturbed => AloneInv)
<1> SUFFICES ASSUME Init PROVE FaultsBound /\ AloneInv
  OBVIOUS
<1>1. FaultsBound
  BY MaxFaultsAssumption DEF Init, FaultsBound
<1>2. OneRuns /\ Checked /\ MarksLatest /\ Apart
  BY DEF Init, OneRuns, Checked, MarksLatest, Apart
<1> QED
  BY <1>1, <1>2 DEF AloneInv

LEMMA AloneStep ==
  Inv /\ Inv' /\ FaultsBound /\ (Undisturbed => AloneInv) /\ [Next]_vars
    => FaultsBound' /\ (Undisturbed => AloneInv)'
<1> SUFFICES ASSUME Inv, Inv', FaultsBound, Undisturbed => AloneInv, [Next]_vars
             PROVE  FaultsBound' /\ (Undisturbed' => AloneInv')
  OBVIOUS
<1> USE MaxFaultsAssumption
<1>a. faults \in Nat /\ overlap' = overlap
  BY DEF Inv, TypeOK, Next
<1>b. ASSUME faults' = faults, Undisturbed => AloneInv'
      PROVE  FaultsBound' /\ (Undisturbed' => AloneInv')
  BY <1>a, <1>b DEF FaultsBound, Undisturbed
<1>c. ASSUME faults' = faults - 1
      PROVE  FaultsBound' /\ (Undisturbed' => AloneInv')
  BY <1>a, <1>c DEF FaultsBound, Undisturbed
<1>1. ASSUME NEW p \in Procs, NEW beats \in Invocations, Start(p, beats), Undisturbed
      PROVE  AloneInv'
  <2>1. \A q \in Procs : pc[q] = "idle" /\ pc'[q] = IF q = p THEN "check" ELSE "idle"
    BY <1>1 DEF Start, Free, Undisturbed, Inv, TypeOK
  <2> QED
    BY <1>1, <2>1, AloneQuiet DEF Start, OneRuns
<1>2. ASSUME NEW p \in Procs, StartThrottled(p), Undisturbed PROVE AloneInv'
  <2>1. \A q \in Procs : pc[q] = "idle" /\ pc'[q] = IF q = p THEN "take" ELSE "idle"
    BY <1>2 DEF StartThrottled, Free, Undisturbed, Inv, TypeOK
  <2> QED
    BY <1>2, <2>1, AloneQuiet DEF StartThrottled, OneRuns
<1>3. ASSUME NEW p \in Procs, Check(p), Undisturbed PROVE AloneInv'
  <2>1. pc[p] = "check" /\ \A q \in Procs : q # p => pc[q] = "idle"
    BY <1>3 DEF Check, AloneInv, OneRuns
  <2>2. \A q \in Procs : q # p => pc'[q] = "idle"
    BY <1>3, <2>1 DEF Check, Inv, TypeOK
  <2>3. pc'[p] # "mark" /\ (pc'[p] = "enqueue" => ShouldEmit(Head(todo'[p])))
    BY <1>3, <2>1 DEF Check, Inv, TypeOK
  <2> QED
    BY <1>3, <2>1, <2>2, <2>3, AloneQuiet DEF Check, OneRuns
<1>4. ASSUME NEW p \in Procs, NEW place \in {"idle", "post", "ack", "drop", "take"},
             pc[p] \in {"take", "post", "ack", "drop"},
             pc' = [pc EXCEPT ![p] = place], UNCHANGED <<log, marks, todo>>, Undisturbed
      PROVE  AloneInv'
  <2>1. \A q \in Procs : pc'[q] = IF q = p THEN place ELSE "idle"
    BY <1>4 DEF AloneInv, OneRuns, Inv, TypeOK
  <2>2. \A q \in Procs : q # p => pc[q] = "idle"
    BY <1>4 DEF AloneInv, OneRuns
  <2> QED
    BY <1>4, <2>1, <2>2, AloneQuiet DEF OneRuns
<1>5. ASSUME NEW p \in Procs, Take(p) PROVE FaultsBound' /\ (Undisturbed' => AloneInv')
  <2>1. Undisturbed => AloneInv'
    BY <1>4, <1>5 DEF Take
  <2>2. faults' = faults \/ faults' = faults - 1
    BY <1>5 DEF Take
  <2> QED
    BY <1>b, <1>c, <2>1, <2>2
<1>6. ASSUME NEW p \in Procs, Run(p), ~Take(p)
      PROVE  faults' = faults /\ (Undisturbed => AloneInv')
  <2>1. CASE Check(p)
    BY <1>3, <2>1 DEF Check
  <2>2. CASE Enqueue(p)
    BY <2>2, AloneEnqueue DEF Enqueue, Undisturbed
  <2>3. CASE MarkEmitted(p)
    BY <2>3, AloneMark DEF MarkEmitted
  <2>4. CASE PostAccepted(p)
    BY <1>4, <2>4 DEF PostAccepted
  <2>5. CASE PostRefused(p)
    BY <1>4, <2>5 DEF PostRefused
  <2>6. CASE Ack(p)
    BY <1>4, <2>6 DEF Ack
  <2>7. CASE Drop(p)
    BY <1>4, <2>7 DEF Drop
  <2> QED
    BY <1>6, <2>1, <2>2, <2>3, <2>4, <2>5, <2>6, <2>7 DEF Run
<1>7. ASSUME NEW p \in Procs, PostFailed(p) \/ Die(p) PROVE faults' = faults - 1
  BY <1>7 DEF PostFailed, Die
<1>8. CASE UNCHANGED vars
  <2>1. Undisturbed => AloneInv'
    BY <1>8 DEF AloneInv, OneRuns, Checked, ShouldEmit, MarksLatest, Marking, Latest, Apart
  <2> QED
    BY <1>8, <1>b, <2>1
<1> QED
  BY <1>1, <1>2, <1>5, <1>6, <1>7, <1>8, <1>b, <1>c DEF Next, Start, StartThrottled

(***************************************************************************)
(* ShouldEmit's promise over the whole history (queue.go: "suppress if the *)
(* previous emit for the same key was within rateLimitSec"), for any       *)
(* number of heartbeats of any files, one after another.                   *)
(***************************************************************************)
THEOREM ThrottleHolds == Spec => []Throttled
<1>1. (Undisturbed => AloneInv) => Throttled
  BY DEF Undisturbed, AloneInv, Apart, Throttled
<1> QED
  BY InvHolds, AloneInit, AloneStep, <1>1, PTL DEF Spec

=============================================================================
