---------------------------- MODULE UsageAccount ----------------------------
(***************************************************************************)
(* What usage accounting promises, one step at a time: a request is added  *)
(* to its key's total of one period in one indivisible step, a request     *)
(* that is still remembered is not added again, retention forgets          *)
(* requests, and a manual reset clears one total.                          *)
(***************************************************************************)
EXTENDS Integers

CONSTANTS
    Requests,      \* requests that used tokens
    Tagged,        \* those whose upstream response carried a request ID
    Keys,          \* downstream keys
    Periods,       \* accounting periods
    KeyOf,         \* the key of each request
    Cost           \* the tokens of each request

VARIABLES
    account,       \* tokens used, by key and period
    remembered     \* requests that are known to have been counted

Init ==
    /\ account = [k \in Keys |-> [p \in Periods |-> 0]]
    /\ remembered = {}

Count(q, p) ==
    /\ q \in Tagged => q \notin remembered
    /\ account' = [account EXCEPT ![KeyOf[q]][p] = @ + Cost[q]]
    /\ remembered' = remembered \cup {q}

Forget ==
    /\ remembered' \subseteq remembered
    /\ UNCHANGED account

Clear(k, p) ==
    /\ account' = [account EXCEPT ![k][p] = 0]
    /\ UNCHANGED remembered

Next ==
    \/ \E q \in Requests, p \in Periods : Count(q, p)
    \/ Forget
    \/ \E k \in Keys, p \in Periods : Clear(k, p)

Spec == Init /\ [][Next]_<<account, remembered>>
=============================================================================
