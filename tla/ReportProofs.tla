---------------------------- MODULE ReportProofs ----------------------------
(***************************************************************************)
(* What TLAPS proves of Report, for any number of commands failing at the  *)
(* same time.                                                              *)
(***************************************************************************)
EXTENDS Report, FiniteSetTheorems, TLAPS

USE DEF vars, local

(***************************************************************************)
(* No time in the file, or in what a process read of it, is later than a   *)
(* report that got through.                                                *)
(***************************************************************************)
Backed(memory, by) == \A f \in DOMAIN memory : memory[f] <= by[f]

AllBacked == Backed(file, posted) /\ \A p \in Procs : Backed(sent[p], posted)

Inv == TypeOK /\ AllBacked /\ faults <= MaxFaults

LEMMA TornType == IsMemory(Torn) /\ \A by : Backed(Torn, by)
BY DEF IsMemory, Torn, Backed

\* What send writes, when its own report got through.
LEMMA RememberedType ==
    ASSUME NEW m, IsMemory(m), NEW f \in Failures, NEW time \in Int,
           NEW by \in [Failures -> Int], Backed(m, by), time <= by[f]
    PROVE  IsMemory(Remembered(m, f, time)) /\ Backed(Remembered(m, f, time), by)
BY DEF IsMemory, Remembered, Backed

\* Later reports back what earlier ones did.
LEMMA StaysBacked ==
    ASSUME NEW m, IsMemory(m), NEW by \in [Failures -> Int], NEW later \in [Failures -> Int],
           \A f \in Failures : by[f] <= later[f], Backed(m, by)
    PROVE  Backed(m, later)
BY DEF IsMemory, Backed

LEMMA InvInit == Init => Inv
<1> SUFFICES ASSUME Init PROVE Inv
  OBVIOUS
<1>1. AllBacked
  BY TornType DEF Init, AllBacked
<1>2. TypeOK
  <2>1. posted \in [Failures -> Int]
    <3>1. -ResendAfter \in Int
      BY TimesAssumption
    <3> QED
      BY <3>1 DEF Init
  <2>2. IsMemory(file) /\ DOMAIN sent = Procs /\ \A p \in Procs : IsMemory(sent[p])
    BY TornType DEF Init
  <2>3. /\ pc \in [Procs -> {"idle", "load", "post", "open", "write"}]
        /\ failure \in [Procs -> Failures \union {NoFailure}]
        /\ \A p \in Procs : pc[p] = "idle" /\ failure[p] = NoFailure
        /\ now \in [Procs -> Nat]
    BY DEF Init
  <2>4. clock \in Nat /\ repeats \in [Failures -> Nat] /\ meetings \in Nat /\ faults \in Nat
    BY BoundsAssumption DEF Init
  <2> QED
    BY <2>1, <2>2, <2>3, <2>4 DEF TypeOK
<1>3. faults <= MaxFaults
  BY BoundsAssumption DEF Init
<1> QED
  BY <1>1, <1>2, <1>3 DEF Inv

-----------------------------------------------------------------------------
LEMMA FailStep ==
    ASSUME Inv, NEW p \in Procs, NEW f \in Failures, Fail(p, f)
    PROVE  Inv'
<1>1. TypeOK'
  BY NoFailureAssumption DEF Inv, TypeOK, Fail, Goto
<1> QED
  BY <1>1 DEF Inv, AllBacked, Fail

LEMMA LoadStep ==
    ASSUME Inv, NEW p \in Procs, LoadState(p)
    PROVE  Inv'
<1>1. DOMAIN sent' = Procs /\ \A q \in Procs : IsMemory(sent'[q]) /\ Backed(sent'[q], posted)
  BY TornType DEF Inv, TypeOK, AllBacked, LoadState, End
<1>2. CASE Reported(file, failure[p], now[p])
  BY <1>1, <1>2 DEF Inv, TypeOK, AllBacked, LoadState, End, Goto
<1>3. CASE ~Reported(file, failure[p], now[p])
  BY <1>1, <1>3 DEF Inv, TypeOK, AllBacked, LoadState, Goto
<1> QED
  BY <1>2, <1>3

\* A report that reaches the server is later than those before it.
LEMMA ArriveType ==
    ASSUME Inv, NEW p \in Procs, pc[p] = "post", Arrive(p)
    PROVE  /\ posted' \in [Failures -> Int] /\ repeats' \in [Failures -> Nat]
           /\ \A f \in Failures : posted[f] <= posted'[f]
           /\ now[p] <= posted'[failure[p]]
<1>1. failure[p] \in Failures /\ now[p] \in Nat
  BY DEF Inv, TypeOK
<1>2. posted \in [Failures -> Int] /\ repeats \in [Failures -> Nat]
  BY DEF Inv, TypeOK
<1> QED
  BY <1>1, <1>2 DEF Arrive

\* So what a process has posted stays posted.
LEMMA StaysPosted ==
    ASSUME Inv, posted' \in [Failures -> Int], \A f \in Failures : posted[f] <= posted'[f],
           NEW q \in Procs, pc[q] \in {"open", "write"}
    PROVE  posted'[failure[q]] >= now[q]
<1>1. failure[q] \in Failures /\ now[q] \in Nat /\ posted[failure[q]] >= now[q]
  BY DEF Inv, TypeOK
<1>2. posted[failure[q]] \in Int /\ posted'[failure[q]] \in Int
      /\ posted[failure[q]] <= posted'[failure[q]]
  BY <1>1 DEF Inv, TypeOK
<1> QED
  BY <1>1, <1>2

LEMMA PostStep ==
    ASSUME Inv, NEW p \in Procs, Post(p)
    PROVE  Inv'
<1>1. /\ posted' \in [Failures -> Int] /\ repeats' \in [Failures -> Nat]
      /\ \A f \in Failures : posted[f] <= posted'[f]
      /\ now[p] <= posted'[failure[p]]
  BY ArriveType DEF Post
<1>2. failure[p] \in Failures /\ now[p] \in Nat
  BY DEF Inv, TypeOK, Post
<1>3. \A q \in Procs : pc'[q] \in {"open", "write"} => posted'[failure[q]] >= now[q]
  <2> SUFFICES ASSUME NEW q \in Procs, pc'[q] \in {"open", "write"}
               PROVE  posted'[failure[q]] >= now[q]
    OBVIOUS
  <2>1. CASE q = p
    BY <2>1, <1>1, <1>2
  <2>2. CASE q # p
    <3>1. pc[q] \in {"open", "write"}
      BY <2>2 DEF Inv, TypeOK, Post, Goto
    <3> QED
      BY <3>1, <1>1, StaysPosted
  <2> QED
    BY <2>1, <2>2
<1>4. TypeOK'
  BY <1>1, <1>3 DEF Inv, TypeOK, Post, Goto
<1>5. AllBacked'
  BY <1>1, StaysBacked DEF Inv, TypeOK, AllBacked, Post
<1> QED
  BY <1>4, <1>5 DEF Inv, Post

LEMMA EndStep ==
    ASSUME Inv, NEW p \in Procs, End(p), IsMemory(file'), Backed(file', posted'),
           posted' \in [Failures -> Int], \A f \in Failures : posted[f] <= posted'[f],
           repeats' \in [Failures -> Nat], faults' \in Nat, faults' <= MaxFaults,
           UNCHANGED <<clock, meetings>>
    PROVE  Inv'
<1>1. DOMAIN sent' = Procs /\ \A q \in Procs : IsMemory(sent'[q]) /\ Backed(sent'[q], posted')
  <2>1. DOMAIN sent' = Procs
    BY DEF Inv, TypeOK, End
  <2>2. ASSUME NEW q \in Procs PROVE IsMemory(sent'[q]) /\ Backed(sent'[q], posted')
    <3>1. sent'[q] = Torn \/ sent'[q] = sent[q]
      BY DEF Inv, TypeOK, End
    <3>2. IsMemory(sent[q]) /\ Backed(sent[q], posted) /\ posted \in [Failures -> Int]
      BY DEF Inv, TypeOK, AllBacked
    <3> QED
      BY <3>1, <3>2, TornType, StaysBacked
  <2> QED
    BY <2>1, <2>2
<1>2. \A q \in Procs : pc'[q] \in {"open", "write"} => posted'[failure'[q]] >= now'[q]
  <2> SUFFICES ASSUME NEW q \in Procs, pc'[q] \in {"open", "write"}
               PROVE  posted'[failure'[q]] >= now'[q]
    OBVIOUS
  <2>1. pc[q] \in {"open", "write"} /\ failure'[q] = failure[q] /\ now'[q] = now[q]
    BY DEF Inv, TypeOK, End, Goto
  <2> QED
    BY <2>1, StaysPosted
<1>3. TypeOK'
  BY <1>1, <1>2 DEF Inv, TypeOK, End, Goto
<1> QED
  BY <1>1, <1>3 DEF Inv, AllBacked

LEMMA UnansweredStep ==
    ASSUME Inv, NEW p \in Procs, PostUnanswered(p)
    PROVE  Inv'
<1>1. /\ posted' \in [Failures -> Int] /\ repeats' \in [Failures -> Nat]
      /\ \A f \in Failures : posted[f] <= posted'[f]
  BY ArriveType DEF PostUnanswered
<1>2. IsMemory(file') /\ Backed(file', posted')
  BY <1>1, StaysBacked DEF Inv, TypeOK, AllBacked, PostUnanswered
<1>3. faults' \in Nat /\ faults' <= MaxFaults
  BY BoundsAssumption DEF Inv, TypeOK, PostUnanswered
<1> QED
  BY <1>1, <1>2, <1>3, EndStep DEF PostUnanswered

LEMMA OpenStep ==
    ASSUME Inv, NEW p \in Procs, SaveOpen(p)
    PROVE  Inv'
<1>1. TypeOK'
  BY TornType DEF Inv, TypeOK, SaveOpen, Goto
<1> QED
  BY <1>1, TornType DEF Inv, AllBacked, SaveOpen

LEMMA WriteStep ==
    ASSUME Inv, NEW p \in Procs, SaveWrite(p)
    PROVE  Inv'
<1>1. /\ IsMemory(sent[p]) /\ Backed(sent[p], posted)
      /\ failure[p] \in Failures /\ now[p] \in Int /\ posted \in [Failures -> Int]
      /\ now[p] <= posted[failure[p]]
  BY DEF Inv, TypeOK, AllBacked, SaveWrite
<1>2. file' \in {Remembered(sent[p], failure[p], now[p]), Torn}
  BY DEF SaveWrite
<1>3. IsMemory(file') /\ Backed(file', posted)
  BY <1>1, <1>2, RememberedType, TornType
<1>4. /\ faults' \in Nat /\ faults' <= MaxFaults /\ repeats' \in [Failures -> Nat]
      /\ posted' = posted /\ \A f \in Failures : posted[f] <= posted'[f]
  BY <1>1 DEF Inv, TypeOK, SaveWrite
<1> QED
  BY <1>1, <1>3, <1>4, EndStep DEF SaveWrite

LEMMA InvNext == Inv /\ [Next]_vars => Inv'
<1> SUFFICES ASSUME Inv, [Next]_vars PROVE Inv'
  OBVIOUS
<1>0. /\ IsMemory(file) /\ Backed(file, posted) /\ faults \in Nat /\ faults <= MaxFaults
      /\ posted \in [Failures -> Int] /\ repeats \in [Failures -> Nat]
      /\ \A f \in Failures : posted[f] <= posted[f]
  BY DEF Inv, TypeOK, AllBacked
<1>1. CASE UNCHANGED vars
  BY <1>1 DEF Inv, TypeOK, AllBacked
<1>2. ASSUME NEW p \in Procs, NEW f \in Failures, Fail(p, f) PROVE Inv'
  BY <1>2, FailStep
<1>3. ASSUME NEW p \in Procs, PostFails(p) PROVE Inv'
  BY <1>0, <1>3, EndStep DEF PostFails
<1>4. ASSUME NEW p \in Procs, Step(p) PROVE Inv'
  BY <1>3, <1>4, LoadStep, PostStep, UnansweredStep, OpenStep, WriteStep DEF Step
<1>5. ASSUME NEW p \in Procs, Die(p) PROVE Inv'
  BY <1>0, <1>5, EndStep, BoundsAssumption DEF Die
<1>6. CASE Tick
  BY <1>6 DEF Inv, TypeOK, AllBacked, Tick
<1> QED
  BY <1>1, <1>2, <1>4, <1>5, <1>6 DEF Next

-----------------------------------------------------------------------------
(***************************************************************************)
(* The invariant holds of every behaviour.                                 *)
(***************************************************************************)
THEOREM InvHolds == Spec => []Inv
BY InvInit, InvNext, PTL DEF Spec

(***************************************************************************)
(* A failure is held back only for a day after a report of it got through  *)
(* (report.go, send), however the writers of the file collide.             *)
(***************************************************************************)
THEOREM HeldBackOnlyForADay == Spec => []HeldBackForADay
<1>1. Inv => HeldBackForADay
  <2> SUFFICES ASSUME Inv, NEW f \in Failures, Reported(file, f, clock)
               PROVE  clock - posted[f] < ResendAfter
    BY DEF HeldBackForADay
  <2>1. f \in DOMAIN file /\ clock - file[f] < ResendAfter /\ file[f] <= posted[f]
    BY DEF Inv, AllBacked, Backed, Reported
  <2>2. file[f] \in Int /\ posted[f] \in Int /\ clock \in Int /\ ResendAfter \in Int
    BY <2>1, TimesAssumption DEF Inv, TypeOK, IsMemory
  <2> QED
    BY <2>1, <2>2
<1> QED
  BY InvHolds, <1>1, PTL

(***************************************************************************)
(* The variables keep their types: a command that writes the memory has a  *)
(* report that got through.                                                *)
(***************************************************************************)
THEOREM TypeCorrect == Spec => []TypeOK
BY InvHolds, PTL DEF Inv

-----------------------------------------------------------------------------
(* Once a day *)

Used == MaxFaults - faults

\* A memory knows the last report of a failure, or forgot it a day before time.
KnownBy(memory, f, time) ==
    IF f \in DOMAIN memory THEN memory[f] = posted[f] ELSE time - posted[f] >= ResendAfter

Runs(p) == pc[p] # "idle"
Lone == \A p, q \in Procs : Runs(p) /\ Runs(q) => p = q
Past(f) == \A p \in Procs : Runs(p) => posted[f] <= now[p]

\* A command that has not sent its report, and sends no f that is known.
Ready(p, f) ==
    /\ pc[p] \in {"load", "post"}
    /\ KnownBy(file, f, now[p])
    /\ pc[p] = "post" => sent[p] = file
    /\ pc[p] = "post" /\ failure[p] = f => ~Reported(file, f, now[p])

\* One that has, and is about to write what knows f.
Saves(p, f) ==
    /\ pc[p] \in {"open", "write"}
    /\ IF failure[p] = f THEN posted[f] = now[p] ELSE KnownBy(sent[p], f, now[p])
    /\ pc[p] = "write" => file = Torn

\* The memory knows f, and the one command there may be keeps it so.
Known(f) ==
    /\ Lone
    /\ Past(f)
    /\ (\A p \in Procs : ~Runs(p)) => KnownBy(file, f, clock)
    /\ \A p \in Procs : Runs(p) => Ready(p, f) \/ Saves(p, f)

\* It may not, but the one command there may be makes it so when it sends f.
Alone(f) == Lone /\ Past(f)

\* Every command is about to send f, which the memory knows: the first to send
\* it is no repeat.
Awaited(f) == Past(f) /\ \A p \in Procs : Runs(p) => failure[p] = f /\ Ready(p, f)

Senders(f) == {p \in Procs : failure[p] = f /\ pc[p] \in {"load", "post"}}

\* The repeats of f that can still come of what happened.
Owed(f) == IF Known(f) THEN 0
           ELSE IF Alone(f) THEN 1
           ELSE IF Awaited(f) THEN Cardinality(Senders(f))
           ELSE Cardinality(Senders(f)) + 1

\* Each fault is good for one, each command that fails beside another for two.
Charged(f) == repeats[f] + Owed(f) <= Used + 2 * meetings

ChargedInv ==
    /\ \A f \in Failures : posted[f] <= clock
    /\ \A p \in Procs : now[p] <= clock
    /\ \A f \in Failures : Charged(f)

\* What the variables of the count are.
LEMMA Numbers ==
    ASSUME Inv, NEW f \in Failures
    PROVE  /\ repeats[f] \in Nat /\ meetings \in Nat /\ Used \in Nat /\ posted[f] \in Int
           /\ clock \in Int /\ \A p \in Procs : now[p] \in Int
BY BoundsAssumption DEF Inv, TypeOK, Used

LEMMA SomeSenders ==
    ASSUME IsFiniteSet(Procs), NEW f
    PROVE  /\ IsFiniteSet(Senders(f)) /\ Cardinality(Senders(f)) \in Nat
           /\ IsFiniteSet(Senders(f)') /\ Cardinality(Senders(f)') \in Nat
<1>1. Senders(f) \in SUBSET Procs /\ Senders(f)' \in SUBSET Procs
  BY DEF Senders
<1> QED
  BY <1>1, FS_Subset, FS_CardinalityType

LEMMA OwedRange ==
    ASSUME IsFiniteSet(Procs), NEW f
    PROVE  /\ Owed(f) \in Nat /\ Owed(f) <= Cardinality(Senders(f)) + 1
           /\ Owed(f)' \in Nat /\ Owed(f)' <= Cardinality(Senders(f)') + 1
BY SomeSenders DEF Owed

LEMMA Fewer ==
    ASSUME IsFiniteSet(Procs), NEW f, Senders(f)' \subseteq Senders(f)
    PROVE  Cardinality(Senders(f)') <= Cardinality(Senders(f))
BY SomeSenders, FS_Subset

LEMMA OneFewer ==
    ASSUME IsFiniteSet(Procs), NEW f, NEW p \in Senders(f), Senders(f)' \subseteq Senders(f) \ {p}
    PROVE  Cardinality(Senders(f)') + 1 <= Cardinality(Senders(f))
<1>1. /\ IsFiniteSet(Senders(f) \ {p})
      /\ Cardinality(Senders(f) \ {p}) = Cardinality(Senders(f)) - 1
  BY SomeSenders, FS_RemoveElement
<1>2. Cardinality(Senders(f)') <= Cardinality(Senders(f) \ {p})
  BY <1>1, FS_Subset
<1> QED
  BY <1>1, <1>2, SomeSenders

LEMMA OneMore ==
    ASSUME IsFiniteSet(Procs), NEW f, NEW p, Senders(f)' \subseteq Senders(f) \union {p}
    PROVE  Cardinality(Senders(f)') <= Cardinality(Senders(f)) + 1
<1>1. /\ IsFiniteSet(Senders(f) \union {p})
      /\ Cardinality(Senders(f) \union {p}) <= Cardinality(Senders(f)) + 1
  BY SomeSenders, FS_AddElement
<1>2. Cardinality(Senders(f)') <= Cardinality(Senders(f) \union {p})
  BY <1>1, FS_Subset
<1>3. Cardinality(Senders(f) \union {p}) \in Nat
  BY <1>1, FS_CardinalityType
<1> QED
  BY <1>1, <1>2, <1>3, SomeSenders

\* Of one command there is one sender at most; of several that all send, one at least.
LEMMA LoneSender ==
    ASSUME IsFiniteSet(Procs), NEW f, Lone
    PROVE  Cardinality(Senders(f)) <= 1
<1>1. CASE Senders(f) = {}
  BY <1>1, FS_EmptySet
<1>2. ASSUME NEW p \in Senders(f) PROVE Cardinality(Senders(f)) <= 1
  <2>1. Senders(f) = {p}
    BY <1>2 DEF Senders, Lone, Runs
  <2> QED
    BY <2>1, FS_Singleton
<1> QED
  BY <1>1, <1>2

LEMMA AwaitedSender ==
    ASSUME IsFiniteSet(Procs), NEW f, Awaited(f), ~Lone
    PROVE  Cardinality(Senders(f)) >= 1
<1>1. PICK p \in Procs : Runs(p)
  BY DEF Lone
<1>2. p \in Senders(f)
  BY <1>1 DEF Awaited, Ready, Senders
<1> QED
  BY <1>2, SomeSenders, FS_EmptySet

-----------------------------------------------------------------------------
(* Steps that change no count *)

LEMMA QuietStep ==
    ASSUME IsFiniteSet(Procs), Inv, Inv', NEW f \in Failures, Charged(f),
           repeats'[f] = repeats[f], faults' = faults, meetings' = meetings,
           Senders(f)' \subseteq Senders(f),
           Known(f) => Known(f)', Alone(f) => Alone(f)',
           Awaited(f) /\ ~Lone => Awaited(f)'
    PROVE  Charged(f)'
<1> DEFINE n == Cardinality(Senders(f))
           m == Cardinality(Senders(f)')
<1>1. n \in Nat /\ m \in Nat /\ m <= n
  BY SomeSenders, Fewer
<1>2. Owed(f)' <= Owed(f)
  <2>1. CASE Known(f) \/ Alone(f)
    BY <2>1, <1>1 DEF Owed
  <2>2. CASE ~Known(f) /\ ~Alone(f) /\ Awaited(f)
    <3>1. ~Lone /\ Owed(f) = n
      BY <2>2 DEF Alone, Awaited, Owed
    <3>2. n >= 1 /\ Awaited(f)'
      BY <2>2, <3>1, AwaitedSender
    <3>3. Owed(f)' \in {0, 1, m}
      BY <3>2 DEF Owed
    <3> QED
      BY <1>1, <3>1, <3>2, <3>3
  <2>3. CASE ~Known(f) /\ ~Alone(f) /\ ~Awaited(f)
    <3>1. Owed(f) = n + 1 /\ Owed(f)' <= m + 1 /\ Owed(f)' \in Nat
      BY <2>3, OwedRange DEF Owed
    <3> QED
      BY <1>1, <3>1
  <2> QED
    BY <2>1, <2>2, <2>3
<1>3. Used' = Used
  BY DEF Used
<1> QED
  BY <1>2, <1>3, Numbers, OwedRange DEF Charged

\* What a memory knows at one time it knows later.
LEMMA KnownLater ==
    ASSUME Inv, NEW memory, NEW f \in Failures, NEW t1 \in Int, NEW t2 \in Int, t1 <= t2,
           KnownBy(memory, f, t1)
    PROVE  KnownBy(memory, f, t2)
BY TimesAssumption, Numbers DEF KnownBy

\* What send writes knows of its own report too: what it leaves out is a week old.
LEMMA RememberedKnows ==
    ASSUME Inv, NEW m, IsMemory(m), NEW g \in Failures, NEW time \in Int, NEW f \in Failures,
           IF g = f THEN posted[f] = time ELSE KnownBy(m, f, time)
    PROVE  KnownBy(Remembered(m, g, time), f, time)
<1> DEFINE all == [k \in DOMAIN m \union {g} |-> IF k = g THEN time ELSE m[k]]
<1>1. Remembered(m, g, time) = [k \in {h \in DOMAIN all : time - all[h] <= ForgetAfter} |-> all[k]]
  BY DEF Remembered
<1>2. posted[f] \in Int
  BY Numbers
<1>3. CASE g = f
  BY <1>1, <1>2, <1>3, TimesAssumption DEF KnownBy
<1>4. CASE g # f /\ f \in DOMAIN m
  <2>1. m[f] = posted[f]
    BY <1>4 DEF KnownBy
  <2> QED
    BY <1>1, <1>2, <1>4, <2>1, TimesAssumption DEF KnownBy
<1>5. CASE g # f /\ f \notin DOMAIN m
  <2>1. time - posted[f] >= ResendAfter
    BY <1>5 DEF KnownBy
  <2> QED
    BY <1>1, <1>5, <2>1 DEF KnownBy
<1> QED
  BY <1>3, <1>4, <1>5

\* Who else runs, when a command goes on or ends.
LEMMA Others ==
    ASSUME Inv, NEW p \in Procs, NEW place, Runs(p), Goto(p, place)
    PROVE  /\ \A q \in Procs : q # p => pc'[q] = pc[q]
           /\ pc'[p] = place
           /\ \A q \in Procs : Runs(q)' => Runs(q)
           /\ Lone => \A q \in Procs : q # p => ~Runs(q)
           /\ Lone => Lone'
BY DEF Inv, TypeOK, Goto, Runs, Lone

\* A command ends, and leaves a file that knows what it knew.
LEMMA QuietEnd ==
    ASSUME IsFiniteSet(Procs), Inv, Inv', ChargedInv, NEW p \in Procs, Runs(p), End(p),
           UNCHANGED <<clock, posted, repeats, faults, meetings>>, NEW f \in Failures,
           Known(f) => KnownBy(file', f, now[p]),
           Awaited(f) => file' = file
    PROVE  Charged(f)'
<1>1. /\ \A q \in Procs : q # p => pc'[q] = pc[q] /\ failure'[q] = failure[q]
                                   /\ now'[q] = now[q] /\ sent'[q] = sent[q]
      /\ ~Runs(p)'
      /\ \A q \in Procs : Runs(q)' => Runs(q) /\ q # p
      /\ Lone => \A q \in Procs : ~Runs(q)'
      /\ Lone => Lone'
  BY DEF Inv, TypeOK, End, Goto, Runs, Lone
<1>2. Senders(f)' \subseteq Senders(f)
  BY <1>1 DEF Senders, Runs
<1>3. Alone(f) => Alone(f)'
  BY <1>1 DEF Alone, Past
<1>4. Known(f) => Known(f)'
  <2> SUFFICES ASSUME Known(f) PROVE Known(f)'
    OBVIOUS
  <2>1. KnownBy(file', f, clock)
    BY KnownLater, Numbers DEF ChargedInv
  <2>2. KnownBy(file, f, clock)'
    BY <2>1 DEF KnownBy
  <2> QED
    BY <1>1, <2>2 DEF Known, Past
<1>5. Awaited(f) => Awaited(f)'
  BY <1>1 DEF Awaited, Past, Ready, Runs, KnownBy, Reported
<1> QED
  BY <1>2, <1>3, <1>4, <1>5, QuietStep DEF ChargedInv

LEMMA LoadCharged ==
    ASSUME IsFiniteSet(Procs), Inv, Inv', ChargedInv, NEW p \in Procs, LoadState(p),
           NEW f \in Failures
    PROVE  Charged(f)'
<1>0. pc[p] = "load" /\ Runs(p)
  BY DEF LoadState, Runs
<1>1. CASE Reported(file, failure[p], now[p])
  <2>1. Known(f) => KnownBy(file, f, now[p])
    BY <1>0 DEF Known, Ready, Saves
  <2> QED
    BY <1>0, <1>1, <2>1, QuietEnd DEF LoadState
<1>2. CASE ~Reported(file, failure[p], now[p])
  <2>1. /\ Goto(p, "post") /\ sent' = [sent EXCEPT ![p] = file]
        /\ UNCHANGED <<file, clock, failure, now, posted, repeats, meetings, faults>>
    BY <1>2 DEF LoadState
  <2>2. /\ \A q \in Procs : q # p => pc'[q] = pc[q] /\ sent'[q] = sent[q]
        /\ pc'[p] = "post" /\ sent'[p] = file
        /\ \A q \in Procs : Runs(q)' <=> Runs(q)
        /\ Lone <=> Lone'
    BY <1>0, <2>1 DEF Inv, TypeOK, Goto, Runs, Lone
  <2>3. Senders(f)' \subseteq Senders(f) /\ (Alone(f) => Alone(f)')
    BY <1>0, <2>1, <2>2 DEF Senders, Alone, Past
  <2>4. \A q \in Procs : Ready(q, f) => Ready(q, f)'
    BY <1>2, <1>0, <2>1, <2>2 DEF Ready, KnownBy, Reported
  <2>5. \A q \in Procs : Saves(q, f) => Saves(q, f)'
    BY <1>0, <2>1, <2>2 DEF Saves, KnownBy
  <2>6. (Known(f) => Known(f)') /\ (Awaited(f) => Awaited(f)')
    BY <1>0, <2>1, <2>2, <2>4, <2>5 DEF Known, Awaited, Past
  <2> QED
    BY <2>1, <2>3, <2>6, QuietStep DEF ChargedInv
<1> QED
  BY <1>1, <1>2

LEMMA OpenCharged ==
    ASSUME IsFiniteSet(Procs), Inv, Inv', ChargedInv, NEW p \in Procs, SaveOpen(p),
           NEW f \in Failures
    PROVE  Charged(f)'
<1>1. /\ pc[p] = "open" /\ Runs(p) /\ Goto(p, "write") /\ file' = Torn
      /\ UNCHANGED <<clock, failure, now, sent, posted, repeats, meetings, faults>>
  BY DEF SaveOpen, Runs
<1>2. /\ \A q \in Procs : q # p => pc'[q] = pc[q]
      /\ pc'[p] = "write"
      /\ \A q \in Procs : Runs(q)' <=> Runs(q)
      /\ Lone => \A q \in Procs : q # p => ~Runs(q)
      /\ Lone <=> Lone'
  BY <1>1 DEF Inv, TypeOK, Goto, Runs, Lone
<1>3. Senders(f)' \subseteq Senders(f) /\ (Alone(f) => Alone(f)') /\ ~Awaited(f)
  BY <1>1, <1>2 DEF Senders, Alone, Past, Awaited, Ready
<1>4. Known(f) => Saves(p, f)'
  BY <1>1, <1>2 DEF Known, Ready, Saves, KnownBy
<1>5. Known(f) => Known(f)'
  BY <1>1, <1>2, <1>4 DEF Known, Past
<1> QED
  BY <1>1, <1>3, <1>5, QuietStep DEF ChargedInv

LEMMA WriteCharged ==
    ASSUME IsFiniteSet(Procs), Inv, Inv', ChargedInv, NEW p \in Procs, SaveWrite(p),
           NEW f \in Failures
    PROVE  Charged(f)'
<1>1. pc[p] = "write" /\ Runs(p) /\ End(p) /\ UNCHANGED <<clock, posted, repeats, meetings, faults>>
  BY DEF SaveWrite, Runs
<1>2. ~Awaited(f)
  BY <1>1 DEF Awaited, Ready
<1>3. Known(f) => KnownBy(file', f, now[p])
  <2> SUFFICES ASSUME Known(f) PROVE KnownBy(file', f, now[p])
    OBVIOUS
  <2>1. Saves(p, f) /\ file = Torn
    BY <1>1 DEF Known, Ready, Saves
  <2>2. file' = Remembered(sent[p], failure[p], now[p])
    BY <2>1 DEF SaveWrite, Torn
  <2>3. IsMemory(sent[p]) /\ failure[p] \in Failures /\ now[p] \in Int
    BY <1>1 DEF Inv, TypeOK
  <2> QED
    BY <2>1, <2>2, <2>3, RememberedKnows DEF Saves
<1> QED
  BY <1>1, <1>2, <1>3, QuietEnd

LEMMA TickCharged ==
    ASSUME IsFiniteSet(Procs), Inv, Inv', ChargedInv, Tick, NEW f \in Failures
    PROVE  Charged(f)'
<1>1. /\ clock' = clock + 1
      /\ UNCHANGED <<file, pc, failure, now, sent, posted, repeats, meetings, faults>>
  BY DEF Tick
<1>2. KnownBy(file, f, clock) => KnownBy(file, f, clock)'
  <2>1. KnownBy(file, f, clock) => KnownBy(file, f, clock + 1)
    BY KnownLater, Numbers
  <2> QED
    BY <1>1, <2>1 DEF KnownBy
<1>3. \A q \in Procs : /\ Runs(q)' <=> Runs(q)
                       /\ Ready(q, f) => Ready(q, f)'
                       /\ Saves(q, f) => Saves(q, f)'
  BY <1>1 DEF Runs, Ready, Saves, KnownBy, Reported
<1>4. /\ Known(f) => Known(f)' 
      /\ Alone(f) => Alone(f)' 
      /\ Awaited(f) => Awaited(f)'
  BY <1>1, <1>2, <1>3 DEF Known, Alone, Awaited, Lone, Past
<1>5. Senders(f)' = Senders(f)
  BY <1>1 DEF Senders
<1> QED
  BY <1>1, <1>4, <1>5, QuietStep DEF ChargedInv

-----------------------------------------------------------------------------
(* Steps that do *)

\* A fault that ends a command and sends no f is good for one repeat of f.
LEMMA FaultCharged ==
    ASSUME IsFiniteSet(Procs), Inv, Inv', NEW f \in Failures, Charged(f),
           NEW p \in Procs, Runs(p), Goto(p, "idle"), Senders(f)' \subseteq Senders(f),
           faults' = faults - 1, UNCHANGED meetings, repeats'[f] = repeats[f]
    PROVE  Charged(f)'
<1>1. Used' = Used + 1
  BY BoundsAssumption DEF Inv, TypeOK, Used
<1>2. Owed(f)' <= Owed(f) + 1
  <2>1. CASE Lone
    <3>1. \A q \in Procs : ~Runs(q)'
      BY <2>1 DEF Inv, TypeOK, Goto, Runs, Lone
    <3>2. Alone(f)'
      BY <3>1 DEF Alone, Lone, Past
    <3>3. Owed(f)' <= 1
      BY <3>2 DEF Owed
    <3> QED
      BY <3>3, OwedRange
  <2>2. CASE ~Lone
    <3>1. Owed(f) >= Cardinality(Senders(f))
      BY <2>2, SomeSenders DEF Owed, Known, Alone
    <3> QED
      BY <3>1, OwedRange, SomeSenders, Fewer
  <2> QED
    BY <2>1, <2>2
<1> QED
  BY <1>1, <1>2, Numbers, OwedRange DEF Charged

\* A command that is ready sends f only when the last report is a day old.
LEMMA ReadyIsDue ==
    ASSUME Inv, NEW p \in Procs, pc[p] = "post", Ready(p, failure[p])
    PROVE  ~(now[p] - posted[failure[p]] < ResendAfter)
<1>1. failure[p] \in Failures
  BY DEF Inv, TypeOK
<1>2. posted[failure[p]] \in Int /\ now[p] \in Int
  BY <1>1, Numbers
<1> QED
  BY <1>1, <1>2, TimesAssumption DEF Ready, Reported, KnownBy

\* What a report of f that arrives changes, and of what it is a repeat.
LEMMA Arrives ==
    ASSUME Inv, Inv', NEW p \in Procs, pc[p] = "post", Arrive(p)
    PROVE  LET f == failure[p] IN
           /\ f \in Failures
           /\ \A g \in Failures \ {f} : repeats'[g] = repeats[g] /\ posted'[g] = posted[g]
           /\ posted[f] <= now[p] => posted'[f] = now[p]
           /\ repeats'[f] \in {repeats[f], repeats[f] + 1}
           /\ Known(f) \/ Awaited(f) => repeats'[f] = repeats[f]
           /\ p \in Senders(f)
<1> DEFINE f == failure[p]
<1>1. f \in Failures /\ p \in Senders(f) /\ Runs(p)
  BY DEF Inv, TypeOK, Senders, Runs
<1>2. posted[f] \in Int /\ now[p] \in Int /\ repeats[f] \in Nat
  BY <1>1, Numbers
<1>3. posted \in [Failures -> Int] /\ repeats \in [Failures -> Nat]
  BY DEF Inv, TypeOK
<1>4. Known(f) \/ Awaited(f) => ~(now[p] - posted[f] < ResendAfter)
  <2>1. Known(f) \/ Awaited(f) => Ready(p, f)
    BY <1>1 DEF Known, Awaited, Saves
  <2> QED
    BY <2>1, ReadyIsDue
<1>5. /\ \A g \in Failures \ {f} : repeats'[g] = repeats[g] /\ posted'[g] = posted[g]
      /\ posted'[f] = IF posted[f] < now[p] THEN now[p] ELSE posted[f]
      /\ repeats'[f] = IF now[p] - posted[f] < ResendAfter THEN repeats[f] + 1 ELSE repeats[f]
  BY <1>1, <1>3 DEF Arrive
<1> QED
  BY <1>1, <1>2, <1>4, <1>5

LEMMA PostCharged ==
    ASSUME IsFiniteSet(Procs), Inv, Inv', ChargedInv, NEW p \in Procs, Post(p),
           NEW f \in Failures
    PROVE  Charged(f)'
<1>0. /\ pc[p] = "post" /\ Runs(p) /\ Arrive(p) /\ Goto(p, "open")
      /\ UNCHANGED <<file, clock, meetings, failure, now, sent, faults>>
  BY DEF Post, Runs
<1>1. /\ \A q \in Procs : q # p => pc'[q] = pc[q]
      /\ pc'[p] = "open"
      /\ \A q \in Procs : Runs(q)' <=> Runs(q)
      /\ Lone => \A q \in Procs : q # p => ~Runs(q)
      /\ Lone <=> Lone'
  BY <1>0 DEF Inv, TypeOK, Goto, Runs, Lone
<1>2. CASE f # failure[p]
  <2>1. repeats'[f] = repeats[f] /\ posted'[f] = posted[f]
    BY <1>0, <1>2, Arrives
  <2>2. Senders(f)' \subseteq Senders(f) /\ (Alone(f) => Alone(f)') /\ ~Awaited(f)
    BY <1>0, <1>1, <1>2, <2>1 DEF Senders, Alone, Past, Awaited
  <2>3. Known(f) => Saves(p, f)'
    BY <1>0, <1>1, <1>2, <2>1 DEF Known, Ready, Saves, KnownBy
  <2>4. Known(f) => Known(f)'
    BY <1>0, <1>1, <2>1, <2>3 DEF Known, Past
  <2> QED
    BY <1>0, <2>1, <2>2, <2>4, QuietStep DEF ChargedInv
<1>3. CASE f = failure[p]
  <2>1. /\ p \in Senders(f)
        /\ posted[f] <= now[p] => posted'[f] = now[p]
        /\ repeats'[f] \in {repeats[f], repeats[f] + 1}
        /\ Known(f) \/ Awaited(f) => repeats'[f] = repeats[f]
    BY <1>0, <1>3, Arrives
  <2>2. Senders(f)' \subseteq Senders(f) \ {p}
    BY <1>0, <1>1 DEF Senders
  <2>3. Cardinality(Senders(f)') + 1 <= Cardinality(Senders(f))
    BY <2>1, <2>2, OneFewer
  <2>4. repeats'[f] + Owed(f)' <= repeats[f] + Owed(f)
    <3>1. CASE Known(f) \/ Alone(f)
      <4>1. posted[f] <= now[p]
        BY <1>0, <3>1 DEF Known, Alone, Past
      <4>2. posted'[f] = now'[p] /\ Saves(p, f)'
        BY <1>0, <1>1, <1>3, <2>1, <4>1 DEF Saves
      <4>3. Lone' /\ Past(f)'
        BY <1>0, <1>1, <2>1, <3>1, <4>1, <4>2, Numbers DEF Known, Alone, Past
      <4>4. Known(f)'
        BY <1>0, <1>1, <3>1, <4>2, <4>3 DEF Known, Alone
      <4>5. Owed(f)' = 0 /\ Owed(f) = IF Known(f) THEN 0 ELSE 1
        BY <3>1, <4>4 DEF Owed
      <4> QED
        BY <2>1, <4>5, Numbers
    <3>2. CASE ~Known(f) /\ ~Alone(f) /\ Awaited(f)
      <4>1. Owed(f) = Cardinality(Senders(f)) /\ repeats'[f] = repeats[f]
        BY <2>1, <3>2 DEF Owed
      <4> QED
        BY <2>3, <4>1, OwedRange, SomeSenders, Numbers
    <3>3. CASE ~Known(f) /\ ~Alone(f) /\ ~Awaited(f)
      <4>1. Owed(f) = Cardinality(Senders(f)) + 1
        BY <3>3 DEF Owed
      <4> QED
        BY <2>1, <2>3, <4>1, OwedRange, SomeSenders, Numbers
    <3> QED
      BY <3>1, <3>2, <3>3
  <2>5. Used' = Used /\ meetings' = meetings
    BY <1>0 DEF Used
  <2>6. repeats'[f] \in Nat
    BY DEF Inv, TypeOK
  <2> QED
    BY <2>4, <2>5, <2>6, Numbers, OwedRange DEF ChargedInv, Charged
<1> QED
  BY <1>2, <1>3

LEMMA UnansweredCharged ==
    ASSUME IsFiniteSet(Procs), Inv, Inv', ChargedInv, NEW p \in Procs, PostUnanswered(p),
           NEW f \in Failures
    PROVE  Charged(f)'
<1>0. /\ pc[p] = "post" /\ Runs(p) /\ Arrive(p) /\ End(p) /\ Goto(p, "idle")
      /\ faults' = faults - 1 /\ UNCHANGED <<file, clock, meetings>>
  BY DEF PostUnanswered, Runs, End
<1>1. /\ \A q \in Procs : q # p => pc'[q] = pc[q] /\ failure'[q] = failure[q]
      /\ ~Runs(p)' /\ pc'[p] = "idle"
      /\ Lone => \A q \in Procs : ~Runs(q)'
  BY <1>0 DEF Inv, TypeOK, End, Goto, Runs, Lone
<1>2. Senders(f)' \subseteq Senders(f) \ {p}
  BY <1>1 DEF Senders
<1>3. CASE f # failure[p]
  <2>1. repeats'[f] = repeats[f]
    BY <1>0, <1>3, Arrives
  <2> QED
    BY <1>0, <1>2, <2>1, FaultCharged DEF ChargedInv
<1>4. CASE f = failure[p]
  <2>1. /\ p \in Senders(f)
        /\ repeats'[f] \in {repeats[f], repeats[f] + 1}
        /\ Known(f) \/ Awaited(f) => repeats'[f] = repeats[f]
    BY <1>0, <1>4, Arrives
  <2>2. Cardinality(Senders(f)') + 1 <= Cardinality(Senders(f))
    BY <1>2, <2>1, OneFewer
  <2>3. repeats'[f] + Owed(f)' <= repeats[f] + Owed(f) + 1
    <3>1. CASE Known(f) \/ Alone(f)
      <4>1. \A q \in Procs : ~Runs(q)'
        BY <1>1, <3>1 DEF Known, Alone
      <4>2. Alone(f)'
        BY <4>1 DEF Alone, Lone, Past
      <4>3. Owed(f)' <= 1 /\ Owed(f) = IF Known(f) THEN 0 ELSE 1
        BY <3>1, <4>2 DEF Owed
      <4> QED
        BY <2>1, <4>3, Numbers, OwedRange
    <3>2. CASE ~Known(f) /\ ~Alone(f)
      <4>1. Owed(f) >= Cardinality(Senders(f))
        BY <3>2, SomeSenders DEF Owed
      <4> QED
        BY <2>1, <2>2, <4>1, OwedRange, SomeSenders, Numbers
    <3> QED
      BY <3>1, <3>2
  <2>4. Used' = Used + 1 /\ meetings' = meetings
    BY <1>0, BoundsAssumption DEF Inv, TypeOK, Used
  <2>5. repeats'[f] \in Nat
    BY DEF Inv, TypeOK
  <2> QED
    BY <2>3, <2>4, <2>5, Numbers, OwedRange DEF ChargedInv, Charged
<1> QED
  BY <1>3, <1>4

LEMMA DieCharged ==
    ASSUME IsFiniteSet(Procs), Inv, Inv', ChargedInv, NEW p \in Procs, Die(p),
           NEW f \in Failures
    PROVE  Charged(f)'
<1>1. /\ Runs(p) /\ Goto(p, "idle") /\ failure' = [failure EXCEPT ![p] = NoFailure]
      /\ faults' = faults - 1 /\ UNCHANGED <<meetings, repeats>>
  BY DEF Die, End, Runs
<1>2. Senders(f)' \subseteq Senders(f)
  BY <1>1 DEF Inv, TypeOK, Goto, Senders
<1> QED
  BY <1>1, <1>2, FaultCharged DEF ChargedInv

LEMMA FailCharged ==
    ASSUME IsFiniteSet(Procs), Inv, Inv', ChargedInv, NEW p \in Procs, NEW g \in Failures,
           Fail(p, g), NEW f \in Failures
    PROVE  Charged(f)'
<1>0. /\ pc[p] = "idle" /\ Goto(p, "load") /\ failure' = [failure EXCEPT ![p] = g]
      /\ now' = [now EXCEPT ![p] = clock]
      /\ UNCHANGED <<file, clock, sent, posted, repeats, faults>>
  BY DEF Fail
<1>1. /\ \A q \in Procs : q # p => /\ pc'[q] = pc[q] /\ failure'[q] = failure[q]
                                   /\ now'[q] = now[q]
      /\ pc'[p] = "load" /\ failure'[p] = g /\ now'[p] = clock
      /\ \A q \in Procs : Runs(q)' <=> q = p \/ Runs(q)
      /\ ~Runs(p)
  BY <1>0 DEF Inv, TypeOK, Goto, Runs
<1>2. /\ Senders(f)' \subseteq Senders(f) \union {p}
      /\ f # g => Senders(f)' \subseteq Senders(f)
  BY <1>1 DEF Senders
<1>3. Past(f) => Past(f)'
  BY <1>0, <1>1 DEF Past, ChargedInv
<1>4. Used' = Used /\ repeats'[f] = repeats[f]
  BY <1>0 DEF Used
<1>5. CASE (\A q \in Procs : ~Runs(q)) /\ UNCHANGED meetings
  <2>1. Alone(f) /\ Lone' /\ Past(f)'
    BY <1>1, <1>3, <1>5 DEF Alone, Lone, Past
  <2>2. Known(f) => Known(f)'
    <3> SUFFICES ASSUME Known(f) PROVE Known(f)'
      OBVIOUS
    <3>1. Ready(p, f)'
      BY <1>0, <1>1, <1>5 DEF Known, Ready, KnownBy
    <3> QED
      BY <1>1, <1>5, <2>1, <3>1 DEF Known
  <2>3. Owed(f)' <= Owed(f)
    BY <2>1, <2>2 DEF Owed, Alone
  <2> QED
    BY <1>4, <1>5, <2>3, Numbers, OwedRange DEF ChargedInv, Charged
<1>6. CASE meetings' = meetings + 1
  <2>1. Owed(f)' <= Owed(f) + 2
    <3>1. Cardinality(Senders(f)') <= Cardinality(Senders(f)) + 1
      BY <1>2, OneMore
    <3>2. CASE Known(f) /\ f # g
      <4>1. Cardinality(Senders(f)') <= Cardinality(Senders(f)) /\ Cardinality(Senders(f)) <= 1
        BY <1>2, <3>2, Fewer, LoneSender DEF Known
      <4> QED
        BY <4>1, OwedRange, SomeSenders
    <3>3. CASE Known(f) /\ f = g /\ Senders(f) = {}
      <4>1. Cardinality(Senders(f)) = 0
        BY <3>3, FS_EmptySet
      <4> QED
        BY <3>1, <4>1, OwedRange, SomeSenders
    <3>4. CASE Known(f) /\ f = g /\ Senders(f) # {}
      <4>1. PICK q \in Procs : q \in Senders(f)
        BY <3>4 DEF Senders
      <4>2. /\ failure[q] = f /\ pc[q] \in {"load", "post"} /\ Runs(q) /\ Ready(q, f)
            /\ \A r \in Procs : Runs(r) => r = q
        BY <3>4, <4>1 DEF Senders, Runs, Known, Lone, Saves
      <4>3. Ready(q, f)'
        BY <1>0, <1>1, <4>2 DEF Ready, KnownBy, Reported
      <4>4. KnownBy(file, f, now[q]) /\ now[q] <= clock
        BY <4>2 DEF Ready, ChargedInv
      <4>5. KnownBy(file, f, clock)
        BY <4>4, KnownLater, Numbers
      <4>6. Ready(p, f)'
        BY <1>0, <1>1, <4>5 DEF Ready, KnownBy
      <4>7. Awaited(f)'
        BY <1>1, <1>3, <3>4, <4>2, <4>3, <4>6 DEF Awaited, Known
      <4>8. Cardinality(Senders(f)) <= 1
        BY <3>4, LoneSender DEF Known
      <4>9. Owed(f)' \in {0, 1, Cardinality(Senders(f)')}
        BY <4>7 DEF Owed
      <4> QED
        BY <3>1, <4>8, <4>9, OwedRange, SomeSenders
    <3>5. CASE ~Known(f) /\ Alone(f)
      <4>1. Owed(f) = 1 /\ Cardinality(Senders(f)) <= 1
        BY <3>5, LoneSender DEF Owed, Alone
      <4> QED
        BY <3>1, <4>1, OwedRange, SomeSenders
    <3>6. CASE ~Known(f) /\ ~Alone(f)
      <4>1. Owed(f) >= Cardinality(Senders(f))
        BY <3>6, SomeSenders DEF Owed
      <4> QED
        BY <3>1, <4>1, OwedRange, SomeSenders
    <3> QED
      BY <3>2, <3>3, <3>4, <3>5, <3>6
  <2> QED
    BY <1>4, <1>6, <2>1, Numbers, OwedRange DEF ChargedInv, Charged
<1> QED
  BY <1>5, <1>6 DEF Fail, Runs

-----------------------------------------------------------------------------
LEMMA ChargedInit ==
    ASSUME IsFiniteSet(Procs), Init
    PROVE  ChargedInv
<1>1. /\ \A p \in Procs : now[p] = 0 /\ ~Runs(p)
      /\ \A f \in Failures : posted[f] = -ResendAfter /\ repeats[f] = 0
      /\ file = Torn /\ clock = 0 /\ meetings = 0 /\ faults = MaxFaults
  BY DEF Init, Runs
<1>2. ASSUME NEW f \in Failures PROVE Known(f)
  BY <1>1, TimesAssumption DEF Known, Lone, Past, KnownBy, Torn
<1>3. ASSUME NEW f \in Failures PROVE Charged(f)
  <2>1. Owed(f) = 0
    BY <1>2 DEF Owed
  <2> QED
    BY <1>1, <2>1, BoundsAssumption DEF Charged, Used
<1> QED
  BY <1>1, <1>3, TimesAssumption DEF ChargedInv

\* A report is sent, and a command fails, at the time of the clock or before.
LEMMA TimesNext ==
    ASSUME Inv, Inv', ChargedInv, [Next]_vars
    PROVE  /\ \A f \in Failures : posted'[f] <= clock'
           /\ \A p \in Procs : now'[p] <= clock'
<1>0. /\ clock \in Nat /\ now \in [Procs -> Nat] /\ posted \in [Failures -> Int]
      /\ \A f \in Failures : posted[f] <= clock
      /\ \A p \in Procs : now[p] <= clock
  BY DEF Inv, TypeOK, ChargedInv
<1>1. CASE UNCHANGED vars
  BY <1>0, <1>1
<1>2. ASSUME NEW p \in Procs, NEW f \in Failures, Fail(p, f)
      PROVE  (\A h \in Failures : posted'[h] <= clock') /\ \A q \in Procs : now'[q] <= clock'
  BY <1>0, <1>2 DEF Fail
<1>3. ASSUME NEW p \in Procs, Arrive(p) PROVE \A f \in Failures : posted'[f] <= clock
  BY <1>0, <1>3 DEF Arrive
<1>4. ASSUME NEW p \in Procs, End(p) PROVE \A q \in Procs : now'[q] <= clock
  BY <1>0, <1>4 DEF End
<1>5. ASSUME NEW p \in Procs, Step(p) \/ Die(p)
      PROVE  (\A h \in Failures : posted'[h] <= clock') /\ \A q \in Procs : now'[q] <= clock'
  BY <1>0, <1>3, <1>4, <1>5 DEF Step, LoadState, Post, PostFails, PostUnanswered, SaveOpen,
     SaveWrite, Die
<1>6. CASE Tick
  BY <1>0, <1>6 DEF Tick
<1> QED
  BY <1>1, <1>2, <1>5, <1>6 DEF Next

LEMMA ChargedNext ==
    ASSUME IsFiniteSet(Procs), Inv, Inv', ChargedInv, [Next]_vars
    PROVE  ChargedInv'
<1>1. ASSUME NEW f \in Failures PROVE Charged(f)'
  <2>1. CASE UNCHANGED vars
    BY <2>1 DEF ChargedInv, Charged, Owed, Known, Alone, Awaited, Lone, Past, Ready, Saves, KnownBy,
       Reported, Runs, Senders, Used
  <2>2. ASSUME NEW p \in Procs, NEW g \in Failures, Fail(p, g) PROVE Charged(f)'
    BY <2>2, FailCharged
  <2>3. ASSUME NEW p \in Procs, PostFails(p) PROVE Charged(f)'
    <3>1. Known(f) => KnownBy(file, f, now[p])
      BY <2>3 DEF PostFails, Known, Ready, Saves, Runs
    <3> QED
      BY <2>3, <3>1, QuietEnd DEF PostFails, Runs
  <2>4. ASSUME NEW p \in Procs, Step(p) PROVE Charged(f)'
    BY <2>3, <2>4, LoadCharged, PostCharged, UnansweredCharged, OpenCharged, WriteCharged DEF Step
  <2>5. ASSUME NEW p \in Procs, Die(p) PROVE Charged(f)'
    BY <2>5, DieCharged
  <2>6. CASE Tick
    BY <2>6, TickCharged
  <2> QED
    BY <2>1, <2>2, <2>4, <2>5, <2>6 DEF Next
<1> QED
  BY <1>1, TimesNext DEF ChargedInv

(***************************************************************************)
(* A failure gets through again within a day (report.go, resendAfter) at   *)
(* most once for each fault there was, a death or an answer that was lost, *)
(* and twice for each command that failed beside another.                  *)
(***************************************************************************)
THEOREM OnceADayHolds ==
  ASSUME IsFiniteSet(Procs)
  PROVE  Spec => []OnceADay
<1>1. Init => ChargedInv
  BY ChargedInit
<1>2. Inv /\ Inv' /\ ChargedInv /\ [Next]_vars => ChargedInv'
  BY ChargedNext
<1>3. Inv /\ ChargedInv => OnceADay
  <2> SUFFICES ASSUME Inv, ChargedInv, NEW f \in Failures
               PROVE  repeats[f] <= (MaxFaults - faults) + 2 * meetings
    BY DEF OnceADay
  <2> QED
    BY Numbers, OwedRange DEF ChargedInv, Charged, Used
<1> QED
  BY <1>1, <1>2, <1>3, InvHolds, PTL DEF Spec

=============================================================================
