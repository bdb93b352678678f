------------------------------- MODULE Outbox -------------------------------
(***************************************************************************)
(* What the heartbeat queue promises, without processes, SQL or HTTP: an   *)
(* outbox that numbers what is put in it and settles it, oldest first, in  *)
(* groups.  Nothing leaves it unsettled, nothing is settled out of order,  *)
(* and nothing stays in it for ever.  Heartbeat implements it.             *)
(***************************************************************************)
EXTENDS Integers

CONSTANTS Initial,     \* numbers already waiting when the history begins
          FirstFree    \* the first number not given out yet

VARIABLES pending,     \* numbers put and not settled
          next         \* the number the next entry gets

vars == <<pending, next>>

Init == pending = Initial /\ next = FirstFree

Put == /\ pending' = pending \union {next}
       /\ next' = next + 1

\* Some of the waiting numbers are settled at once, and all before them.
Settle == \E settled \in (SUBSET pending) \ {{}} :
            /\ \A n \in settled : \A m \in pending : m < n => m \in settled
            /\ pending' = pending \ settled
            /\ UNCHANGED next

Next == Put \/ Settle

SafeSpec == Init /\ [][Next]_vars

Spec == SafeSpec /\ WF_vars(Settle)
=============================================================================
