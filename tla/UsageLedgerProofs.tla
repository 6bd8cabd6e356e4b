-------------------------- MODULE UsageLedgerProofs --------------------------
(***************************************************************************)
(* Proofs about UsageLedger, for any requests, keys, Stores, retention and *)
(* bounds: that the statements of RecordUsage add up to the single step    *)
(* UsageAccount promises, and that no request is counted twice while its   *)
(* event is retained.                                                      *)
(*                                                                         *)
(* Neither is inductive.  A commit is one step of UsageAccount because the *)
(* snapshot it writes from is still the present (FreshSnapshots), which    *)
(* SQLite's single writer (WriterCommits) and the refusal of outdated      *)
(* snapshots ensure.  A second count is late because the first event can   *)
(* only have gone by retention (EventsKept), which compares clock readings *)
(* and stamps that are ordered as in Stamped.                              *)
(***************************************************************************)
EXTENDS UsageLedger, FiniteSetTheorems, TLAPS

\* The write lock is held by the transaction that is about to commit.
WriterCommits == \A d \in Deliveries : writer = d <=> del[d].pc = "commit"

Fresh(d) == del[d].pc = "commit" \/ (del[d].pc = "write" /\ ~del[d].stale)

\* A transaction nobody has outdated sees the database as it is.
FreshSnapshots ==
    \A d \in Deliveries : Fresh(d) =>
        /\ del[d].base = monthly[KeyOf[d[1]]][del[d].period]
        /\ d[1] \in Tagged => ~EventExists(d)

\* A handler runs after its request, and stamps the event with a time between.
Stamped ==
    /\ \A q \in Requests : requestedAt[q] # Null => requestedAt[q] <= day
    /\ \A d \in Deliveries : del[d].pc # "idle" =>
         /\ requestedAt[d[1]] # Null
         /\ requestedAt[d[1]] <= del[d].stamp
         /\ del[d].now <= day

\* The events are those of counted deliveries, one for each tagged request;
\* one that is missing is of a request older than the retention.
EventsKept ==
    /\ \A d \in events : del[d].result = "counted"
    /\ \A d \in Deliveries :
         del[d].pc \in {"idle"} \cup (Running \ {"prune"}) => del[d].result # "counted"
    /\ \A d \in Deliveries :
         del[d].result = "counted" /\ d \notin events
           => requestedAt[d[1]] + Retention < day
    /\ \A d, e \in events : d[1] = e[1] /\ d[1] \in Tagged => d = e

LInv == TypeOK /\ WriterCommits /\ FreshSnapshots /\ Stamped /\ EventsKept

-----------------------------------------------------------------------------
(* Types.                                                                  *)

\* A delivery is of a request, and not Null.
LEMMA DeliveryOfRequest ==
    /\ \A d \in Deliveries : d[1] \in Requests /\ KeyOf[d[1]] \in Keys
    /\ \A d \in Deliveries : Cost[d[1]] \in Nat
    /\ Null \notin Deliveries
BY UsageLedgerAssumption DEF Deliveries

\* Outdate changes nothing but the flag of open transactions, and sets it.
LEMMA OutdateFlags ==
    ASSUME NEW f \in [Deliveries -> Delivery]
    PROVE  /\ Outdate(f) \in [Deliveries -> Delivery]
           /\ \A d \in Deliveries :
                /\ Outdate(f)[d].pc = f[d].pc
                /\ Outdate(f)[d].store = f[d].store
                /\ Outdate(f)[d].now = f[d].now
                /\ Outdate(f)[d].stamp = f[d].stamp
                /\ Outdate(f)[d].period = f[d].period
                /\ Outdate(f)[d].base = f[d].base
                /\ Outdate(f)[d].result = f[d].result
                /\ f[d].pc = "write" => Outdate(f)[d].stale
BY DEF Outdate, Delivery

LEMMA IdleTyped == Idle \in Delivery
BY UsageLedgerAssumption DEF Idle, Delivery, Running, Periods

LEMMA EndedTyped ==
    ASSUME NEW x \in Delivery, NEW r \in {"counted", "duplicate", "error", "lost", "none"}
    PROVE  /\ Ended(x, r) \in Delivery
           /\ Ended(x, r).pc = "done" /\ Ended(x, r).result = r
           /\ Ended(x, r).stamp = x.stamp /\ Ended(x, r).now = 0
           /\ Recorded(x, r) \in Delivery
           /\ Recorded(x, r).pc = "prune" /\ Recorded(x, r).result = r
           /\ Recorded(x, r).stamp = x.stamp /\ Recorded(x, r).now = x.now
<1>1. Idle \in Delivery
  BY IdleTyped
<1>2. Ended(x, r) \in Delivery
  BY <1>1 DEF Ended, Delivery
<1>3. /\ Ended(x, r).pc = "done" /\ Ended(x, r).result = r
      /\ Ended(x, r).stamp = x.stamp /\ Ended(x, r).now = Idle.now
  BY <1>1 DEF Ended, Delivery
<1>4. Recorded(x, r) \in Delivery
  BY <1>2 DEF Recorded, Delivery, Running
<1>5. /\ Recorded(x, r).pc = "prune" /\ Recorded(x, r).result = r
      /\ Recorded(x, r).stamp = x.stamp /\ Recorded(x, r).now = x.now
  BY <1>2, <1>3 DEF Recorded, Delivery
<1>6. Idle.now = 0
  BY DEF Idle
<1> QED
  BY <1>2, <1>3, <1>4, <1>5, <1>6

\* What a statement of RecordUsage changes of its delivery keeps the type.
LEMMA StatementTyped ==
    ASSUME NEW x \in Delivery
    PROVE  /\ \A s \in Stores, n, t \in Nat :
                [x EXCEPT !.pc = "lock", !.store = s, !.now = n, !.stamp = t] \in Delivery
           /\ \A p \in Periods : [x EXCEPT !.pc = "begin", !.period = p] \in Delivery
           /\ \A n \in Nat : [x EXCEPT !.pc = "write", !.base = n, !.stale = FALSE] \in Delivery
           /\ \A n \in Nat : [x EXCEPT !.pc = "commit", !.base = n] \in Delivery
           /\ [x EXCEPT !.pc = "commit"] \in Delivery
<1>1. \A s \in Stores, n, t \in Nat :
        [x EXCEPT !.pc = "lock", !.store = s, !.now = n, !.stamp = t] \in Delivery
  BY DEF Delivery, Running
<1>2. \A p \in Periods : [x EXCEPT !.pc = "begin", !.period = p] \in Delivery
  BY DEF Delivery, Running
<1>3. \A n \in Nat : [x EXCEPT !.pc = "write", !.base = n, !.stale = FALSE] \in Delivery
  BY DEF Delivery, Running
<1>4. \A n \in Nat : [x EXCEPT !.pc = "commit", !.base = n] \in Delivery
  BY DEF Delivery, Running
<1>5. [x EXCEPT !.pc = "commit"] \in Delivery
  BY DEF Delivery, Running
<1> QED
  BY <1>1, <1>2, <1>3, <1>4, <1>5

LEMMA InitTyped == Init => TypeOK
BY UsageLedgerAssumption
   DEF Init, TypeOK, Idle, Delivery, Reset, Periods, Running

\* Each action keeps the types.
LEMMA TypeStep == TypeOK /\ [Next]_vars => TypeOK'
<1> SUFFICES ASSUME TypeOK, [Next]_vars PROVE TypeOK'
  OBVIOUS
<1> USE DEF TypeOK
<1>1. CASE UNCHANGED vars
  BY <1>1 DEF vars
<1>2. CASE OtherWrite
  BY <1>2, OutdateFlags DEF OtherWrite
<1>3. CASE Rollover
  <2>1. period' \in Periods
    BY <1>3, UsageLedgerAssumption DEF Rollover, Periods
  <2> QED
    BY <1>3, <2>1, OutdateFlags DEF Rollover
<1>4. CASE Tick
  BY <1>4 DEF Tick
<1>5. ASSUME NEW q \in Requests, Request(q) PROVE TypeOK'
  BY <1>5 DEF Request
<1>6. ASSUME NEW d \in Deliveries, Start(d) PROVE TypeOK'
  <2>1. Stamp(d) \in Nat
    BY <1>6, DeliveryOfRequest DEF Start, Stamp
  <2>2. [del[d] EXCEPT !.pc = "lock", !.store = current, !.now = day,
                       !.stamp = Stamp(d)] \in Delivery
    BY <2>1, StatementTyped
  <2>3. \A e \in Deliveries :
          del'[e] = IF e = d
                    THEN [del[d] EXCEPT !.pc = "lock", !.store = current,
                                        !.now = day, !.stamp = Stamp(d)]
                    ELSE del[e]
    BY <1>6 DEF Start
  <2>4. del' \in [Deliveries -> Delivery]
    BY <1>6, <2>2, <2>3 DEF Start
  <2> QED
    BY <1>6, <2>4 DEF Start
<1>7. ASSUME NEW d \in Deliveries, Lock(d) PROVE TypeOK'
  <2>1. del' \in [Deliveries -> Delivery]
    BY <1>7 DEF Lock, Delivery, Running
  <2> QED
    BY <1>7, <2>1 DEF Lock
<1>8. ASSUME NEW d \in Deliveries, Resolve(d) PROVE TypeOK'
  <2>1. PICK p \in Periods : del' = [del EXCEPT ![d].pc = "begin", ![d].period = p]
    BY <1>8 DEF Resolve
  <2>2. [del[d] EXCEPT !.pc = "begin", !.period = p] \in Delivery
    BY StatementTyped
  <2>3. del' = [del EXCEPT ![d] = [del[d] EXCEPT !.pc = "begin", !.period = p]]
    BY <2>1
  <2>4. del' \in [Deliveries -> Delivery]
    BY <2>2, <2>3
  <2> QED
    BY <1>8, <2>4 DEF Resolve
<1>9. ASSUME NEW d \in Deliveries, BeginTagged(d) PROVE TypeOK'
  <2>1. monthly[KeyOf[d[1]]][del[d].period] \in Nat
    BY DeliveryOfRequest DEF Delivery
  <2>2. \A n \in Nat : [del[d] EXCEPT !.pc = "write", !.base = n, !.stale = FALSE]
                         \in Delivery
    BY StatementTyped
  <2>3. PICK n \in Nat :
          del' = [del EXCEPT ![d].pc = "write", ![d].base = n, ![d].stale = FALSE]
    BY <1>9, <2>1 DEF BeginTagged
  <2>4. del' = [del EXCEPT ![d] = [del[d] EXCEPT !.pc = "write", !.base = n,
                                                 !.stale = FALSE]]
    BY <2>3
  <2>5. del' \in [Deliveries -> Delivery]
    BY <2>2, <2>4
  <2> QED
    BY <1>9, <2>5 DEF BeginTagged
<1>10. ASSUME NEW d \in Deliveries, Duplicate(d) PROVE TypeOK'
  <2>1. del' \in [Deliveries -> Delivery]
    BY <1>10, EndedTyped DEF Duplicate
  <2> QED
    BY <1>10, <2>1 DEF Duplicate, Unlock
<1>11. ASSUME NEW d \in Deliveries, BeginUntagged(d) PROVE TypeOK'
  <2>1. monthly[KeyOf[d[1]]][del[d].period] \in Nat
    BY DeliveryOfRequest DEF Delivery
  <2>2. \A n \in Nat : [del[d] EXCEPT !.pc = "commit", !.base = n] \in Delivery
    BY StatementTyped
  <2>3. PICK n \in Nat : del' = [del EXCEPT ![d].pc = "commit", ![d].base = n]
    BY <1>11, <2>1 DEF BeginUntagged
  <2>4. del' = [del EXCEPT ![d] = [del[d] EXCEPT !.pc = "commit", !.base = n]]
    BY <2>3
  <2>5. del' \in [Deliveries -> Delivery]
    BY <2>2, <2>4
  <2> QED
    BY <1>11, <2>5 DEF BeginUntagged
<1>12. ASSUME NEW d \in Deliveries, Write(d) PROVE TypeOK'
  <2>1. del' = [del EXCEPT ![d] = [del[d] EXCEPT !.pc = "commit"]]
    BY <1>12 DEF Write
  <2>2. [del[d] EXCEPT !.pc = "commit"] \in Delivery
    BY StatementTyped
  <2>3. del' \in [Deliveries -> Delivery]
    BY <2>1, <2>2
  <2> QED
    BY <1>12, <2>3 DEF Write
<1>13. ASSUME NEW d \in Deliveries, WriteBusy(d) PROVE TypeOK'
  <2>1. del' \in [Deliveries -> Delivery]
    BY <1>13, EndedTyped DEF WriteBusy, ReturnError
  <2> QED
    BY <1>13, <2>1 DEF WriteBusy, ReturnError, Unlock
<1>14. ASSUME NEW d \in Deliveries, Commit(d) PROVE TypeOK'
  <2>1. NewTotal(d) \in Nat
    BY DeliveryOfRequest DEF NewTotal, Delivery
  <2>2. monthly' \in [Keys -> [Periods -> Nat]]
    BY <1>14, <2>1 DEF Commit
  <2>3. del' \in [Deliveries -> Delivery]
    BY <1>14, EndedTyped, OutdateFlags DEF Commit
  <2> QED
    BY <1>14, <2>2, <2>3 DEF Commit, Unlock
<1>15. ASSUME NEW d \in Deliveries, Closed(d) PROVE TypeOK'
  <2>1. del' \in [Deliveries -> Delivery]
    BY <1>15, EndedTyped DEF Closed, ReturnError
  <2> QED
    BY <1>15, <2>1 DEF Closed, ReturnError, Unlock
<1>16. ASSUME NEW d \in Deliveries, Prune(d) PROVE TypeOK'
  <2>1. Ended(del[d], del[d].result) \in Delivery
    BY EndedTyped DEF Delivery
  <2>2. del' \in [Deliveries -> Delivery]
    BY <1>16, <2>1, EndedTyped, OutdateFlags DEF Prune, Delivery
  <2> QED
    BY <1>16, <2>2 DEF Prune
<1>17. ASSUME NEW d \in Deliveries, PruneFails(d) PROVE TypeOK'
  <2>1. Ended(del[d], del[d].result) \in Delivery
    BY EndedTyped DEF Delivery
  <2>2. del' \in [Deliveries -> Delivery]
    BY <1>17, <2>1 DEF PruneFails
  <2> QED
    BY <1>17, <2>2 DEF PruneFails
<1>18. CASE ResetBegin
  <2>1. reset' \in Reset
    BY <1>18 DEF ResetBegin, Reset
  <2> QED
    BY <1>18, <2>1 DEF ResetBegin
<1>19. CASE ResetDelete
  <2>1. reset' \in Reset
    BY <1>19 DEF ResetDelete, Reset
  <2>2. monthly' \in [Keys -> [Periods -> Nat]]
    BY <1>19 DEF ResetDelete, Reset
  <2> QED
    BY <1>19, <2>1, <2>2, OutdateFlags DEF ResetDelete
<1>20. CASE ResetFails
  <2>1. reset' \in Reset
    BY <1>20 DEF ResetFails, Reset
  <2> QED
    BY <1>20, <2>1 DEF ResetFails
<1>21. CASE Reconfigure
  BY <1>21 DEF Reconfigure
<1>22. CASE CloseOld
  BY <1>22 DEF CloseOld
<1>23. CASE Crash
  <2>1. \A d \in Deliveries : del'[d] \in Delivery
    <3> SUFFICES ASSUME NEW d \in Deliveries PROVE del'[d] \in Delivery
      OBVIOUS
    <3>1. Ended(del[d], del[d].result) \in Delivery /\ Ended(del[d], "lost") \in Delivery
      BY EndedTyped DEF Delivery
    <3> QED
      BY <1>23, <3>1 DEF Crash
  <2>2. del' \in [Deliveries -> Delivery]
    BY <1>23, <2>1 DEF Crash
  <2>3. reset' \in Reset
    BY <1>23 DEF Crash, Reset
  <2> QED
    BY <1>23, <2>2, <2>3 DEF Crash
<1>24. ASSUME NEW d \in Deliveries, CommitFails(d) PROVE TypeOK'
  <2>1. del' \in [Deliveries -> Delivery]
    BY <1>24, EndedTyped DEF CommitFails, ReturnError
  <2> QED
    BY <1>24, <2>1 DEF CommitFails, ReturnError, Unlock
<1> QED
  BY <1>1, <1>2, <1>3, <1>4, <1>5, <1>6, <1>7, <1>8, <1>9, <1>10, <1>11, <1>12,
     <1>13, <1>14, <1>15, <1>16, <1>17, <1>18, <1>19, <1>20, <1>21, <1>22, <1>23,
     <1>24
     DEF Next, Step

\* Whatever handlers, Stores and crashes do, every variable of UsageLedger
\* stays in its domain: no total is negative and no period unknown.
THEOREM LedgerTyped == Spec => []TypeOK
BY InitTyped, TypeStep, PTL DEF Spec

-----------------------------------------------------------------------------
(* The invariant.                                                          *)

LEMMA LInvInit == Init => LInv
<1> SUFFICES ASSUME Init PROVE LInv
  OBVIOUS
<1>1. \A d \in Deliveries : del[d].pc = "idle" /\ del[d].result = "none" /\ writer # d
  BY DeliveryOfRequest DEF Init, Idle
<1>2. WriterCommits /\ FreshSnapshots
  BY <1>1 DEF WriterCommits, FreshSnapshots, Fresh
<1>3. Stamped
  BY <1>1, UsageLedgerAssumption DEF Init, Stamped
<1>4. EventsKept
  BY <1>1 DEF Init, EventsKept
<1> QED
  BY <1>2, <1>3, <1>4, InitTyped DEF LInv

\* Somebody else's commit, which may change any total.
LEMMA ForeignCommit ==
    ASSUME LInv, TypeOK', writer = Null, writer' = Null, del' = Outdate(del),
           UNCHANGED <<day, requestedAt, events>>
    PROVE  LInv'
<1> USE DEF LInv
<1>1. \A d \in Deliveries :
        /\ del'[d].pc = del[d].pc /\ del'[d].result = del[d].result
        /\ del'[d].now = del[d].now /\ del'[d].stamp = del[d].stamp
        /\ del[d].pc = "write" => del'[d].stale
  BY OutdateFlags DEF TypeOK
<1>2. \A d \in Deliveries : del[d].pc # "commit"
  BY DeliveryOfRequest DEF WriterCommits
<1>3. WriterCommits' /\ FreshSnapshots'
  BY <1>1, <1>2, DeliveryOfRequest DEF WriterCommits, FreshSnapshots, Fresh
<1>4. Stamped'
  BY <1>1 DEF Stamped
<1>5. EventsKept'
  BY <1>1 DEF EventsKept, TypeOK
<1> QED
  BY <1>3, <1>4, <1>5

\* A step of one running delivery that commits nothing.
LEMMA LocalStep ==
    ASSUME LInv, TypeOK', NEW d \in Deliveries,
           UNCHANGED <<day, requestedAt, events, monthly>>,
           \A e \in Deliveries : e # d => del'[e] = del[e],
           del[d].pc \in Running, del'[d].pc # "idle",
           del'[d].pc \in Running \ {"prune"} => del[d].pc \in Running \ {"prune"},
           del'[d].stamp = del[d].stamp, del'[d].now <= del[d].now,
           del'[d].result = "counted" <=> del[d].result = "counted",
           \/ del[d].pc # "commit" /\ writer' = writer /\ del'[d].pc # "commit"
           \/ del[d].pc # "commit" /\ writer = Null /\ writer' = d /\ del'[d].pc = "commit"
           \/ del[d].pc = "commit" /\ writer' = Null /\ del'[d].pc # "commit",
           Fresh(d)' => /\ del'[d].base = monthly[KeyOf[d[1]]][del'[d].period]
                        /\ d[1] \in Tagged => ~EventExists(d)
    PROVE  LInv'
<1> USE DEF LInv
<1>1. WriterCommits'
  BY DeliveryOfRequest DEF WriterCommits
<1>2. FreshSnapshots'
  <2> SUFFICES ASSUME NEW e \in Deliveries, Fresh(e)'
               PROVE  /\ del'[e].base = monthly[KeyOf[e[1]]][del'[e].period]
                      /\ e[1] \in Tagged => ~EventExists(e)
    BY DEF FreshSnapshots, EventExists
  <2>1. CASE e = d
    BY <2>1
  <2>2. CASE e # d
    BY <2>2 DEF FreshSnapshots, Fresh
  <2> QED
    BY <2>1, <2>2
<1>3. Stamped'
  BY DEF Stamped, TypeOK, Delivery, Running
<1>4. EventsKept'
  BY DEF EventsKept, TypeOK
<1> QED
  BY <1>1, <1>2, <1>3, <1>4

\* Every step keeps the invariant.
LEMMA LInvStep == LInv /\ [Next]_vars => LInv'
<1> SUFFICES ASSUME LInv, [Next]_vars PROVE LInv'
  OBVIOUS
<1>0. TypeOK'
  BY TypeStep DEF LInv
<1> USE <1>0 DEF LInv, TypeOK
<1>1. CASE UNCHANGED vars
  BY <1>1 DEF vars, WriterCommits, FreshSnapshots, Fresh, EventExists, Stamped, EventsKept
<1>2. CASE OtherWrite
  BY <1>2, ForeignCommit DEF OtherWrite
<1>3. CASE Rollover
  BY <1>3, ForeignCommit DEF Rollover
<1>4. CASE Tick
  <2>1. WriterCommits' /\ FreshSnapshots'
    BY <1>4 DEF Tick, WriterCommits, FreshSnapshots, Fresh, EventExists
  <2>2. Stamped'
    BY <1>4 DEF Tick, Stamped, Delivery
  <2>3. EventsKept'
    <3> SUFFICES ASSUME NEW d \in Deliveries, del[d].result = "counted", d \notin events
                 PROVE  requestedAt[d[1]] + Retention < day + 1
      BY <1>4 DEF Tick, EventsKept
    <3>1. requestedAt[d[1]] + Retention < day /\ del[d].pc # "idle"
      BY DEF EventsKept
    <3>2. requestedAt[d[1]] \in Nat /\ Retention \in Nat
      BY <3>1, DeliveryOfRequest, UsageLedgerAssumption DEF Stamped
    <3> QED
      BY <3>1, <3>2
  <2> QED
    BY <2>1, <2>2, <2>3
<1>5. ASSUME NEW q \in Requests, Request(q) PROVE LInv'
  <2>1. WriterCommits' /\ FreshSnapshots'
    BY <1>5 DEF Request, WriterCommits, FreshSnapshots, Fresh, EventExists
  <2>2. \A d \in Deliveries : del[d].pc # "idle" => requestedAt'[d[1]] = requestedAt[d[1]]
    BY <1>5, DeliveryOfRequest DEF Request, Stamped
  <2>3. Stamped'
    BY <1>5, <2>2, UsageLedgerAssumption DEF Request, Stamped
  <2>4. EventsKept'
    BY <1>5, <2>2 DEF Request, EventsKept
  <2> QED
    BY <2>1, <2>3, <2>4
<1>6. ASSUME NEW d \in Deliveries, Start(d) PROVE LInv'
  <2>1. /\ del'[d].pc = "lock" /\ del'[d].now = day /\ del'[d].stamp = Stamp(d)
        /\ del'[d].result = del[d].result
        /\ \A e \in Deliveries : e # d => del'[e] = del[e]
        /\ del[d].pc = "idle"
    BY <1>6 DEF Start, Delivery
  <2>2. WriterCommits' /\ FreshSnapshots'
    BY <1>6, <2>1 DEF Start, WriterCommits, FreshSnapshots, Fresh, EventExists
  <2>3. requestedAt[d[1]] # Null /\ requestedAt[d[1]] <= Stamp(d)
    BY <1>6, DeliveryOfRequest DEF Start, Stamp, Stamped
  <2>4. Stamped'
    BY <1>6, <2>1, <2>3 DEF Start, Stamped
  <2>5. EventsKept'
    BY <1>6, <2>1 DEF Start, EventsKept, Running
  <2> QED
    BY <2>2, <2>4, <2>5
<1>7. ASSUME NEW d \in Deliveries, Lock(d) PROVE LInv'
  <2>1. /\ \A e \in Deliveries : e # d => del'[e] = del[e]
        /\ del[d].pc \in Running /\ del[d].pc # "commit"
    BY <1>7 DEF Lock, Running
  <2>2. del'[d] = [del[d] EXCEPT !.pc = "resolve"]
    BY <1>7 DEF Lock
  <2>3. /\ del'[d].pc = "resolve" /\ del'[d].stamp = del[d].stamp
        /\ del'[d].now <= del[d].now /\ del'[d].result = del[d].result
        /\ del[d].pc = "lock" /\ ~Fresh(d)'
    BY <1>7, <2>2 DEF Lock, Fresh, Delivery
  <2> HIDE DEF LInv, TypeOK
  <2> QED
    BY <1>7, <2>1, <2>3, <1>0, LocalStep DEF Lock, Running
<1>8. ASSUME NEW d \in Deliveries, Resolve(d) PROVE LInv'
  <2>1. /\ \A e \in Deliveries : e # d => del'[e] = del[e]
        /\ del[d].pc \in Running /\ del[d].pc # "commit"
    BY <1>8 DEF Resolve, Running
  <2>2. PICK p \in Periods : del' = [del EXCEPT ![d].pc = "begin", ![d].period = p]
    BY <1>8 DEF Resolve
  <2>3. del'[d] = [del[d] EXCEPT !.pc = "begin", !.period = p]
    BY <2>2
  <2>4. /\ del'[d].pc = "begin" /\ del'[d].stamp = del[d].stamp
        /\ del'[d].now <= del[d].now /\ del'[d].result = del[d].result
        /\ del[d].pc = "resolve" /\ ~Fresh(d)'
    BY <1>8, <2>3 DEF Resolve, Fresh, Delivery
  <2> HIDE DEF LInv, TypeOK
  <2> QED
    BY <1>8, <2>1, <2>4, <1>0, LocalStep DEF Resolve, Running
<1>9. ASSUME NEW d \in Deliveries, BeginTagged(d) PROVE LInv'
  <2>1. /\ \A e \in Deliveries : e # d => del'[e] = del[e]
        /\ del[d].pc \in Running /\ del[d].pc # "commit"
    BY <1>9 DEF BeginTagged, Running
  <2>2. del'[d] = [del[d] EXCEPT !.pc = "write", !.stale = FALSE,
                                 !.base = monthly[KeyOf[d[1]]][del[d].period]]
    BY <1>9 DEF BeginTagged
  <2>3. /\ del'[d].pc = "write" /\ del'[d].stamp = del[d].stamp
        /\ del'[d].now <= del[d].now /\ del'[d].result = del[d].result
        /\ del'[d].period = del[d].period
        /\ del'[d].base = monthly[KeyOf[d[1]]][del[d].period]
    <3>1. del[d] \in Delivery
      OBVIOUS
    <3> QED
      BY <2>2, <3>1 DEF Delivery
  <2>4. del[d].pc = "begin" /\ ~EventExists(d)
    BY <1>9 DEF BeginTagged
  <2> HIDE DEF LInv, TypeOK
  <2> QED
    BY <1>9, <2>1, <2>3, <2>4, <1>0, LocalStep DEF BeginTagged, Running
<1>10. ASSUME NEW d \in Deliveries, Duplicate(d) PROVE LInv'
  <2>1. /\ \A e \in Deliveries : e # d => del'[e] = del[e]
        /\ del[d].pc \in Running /\ del[d].pc # "commit"
    BY <1>10 DEF Duplicate, Running
  <2>2. del'[d] = Recorded(del[d], "duplicate")
    BY <1>10 DEF Duplicate
  <2>3. del[d].pc = "begin" /\ del[d].result # "counted"
    BY <1>10 DEF Duplicate, EventsKept, Running
  <2>4. /\ del'[d].pc = "prune" /\ del'[d].stamp = del[d].stamp
        /\ del'[d].now <= del[d].now /\ del'[d].result = "duplicate"
        /\ ~Fresh(d)'
    BY <2>2, EndedTyped DEF Fresh, Delivery
  <2> HIDE DEF LInv, TypeOK
  <2> QED
    BY <1>10, <2>1, <2>3, <2>4, <1>0, LocalStep DEF Duplicate, Running
<1>11. ASSUME NEW d \in Deliveries, BeginUntagged(d) PROVE LInv'
  <2>1. /\ \A e \in Deliveries : e # d => del'[e] = del[e]
        /\ del[d].pc \in Running /\ del[d].pc # "commit"
    BY <1>11 DEF BeginUntagged, Running
  <2>2. del'[d] = [del[d] EXCEPT !.pc = "commit",
                                 !.base = monthly[KeyOf[d[1]]][del[d].period]]
    BY <1>11 DEF BeginUntagged
  <2>3. /\ del'[d].pc = "commit" /\ del'[d].stamp = del[d].stamp
        /\ del'[d].now <= del[d].now /\ del'[d].result = del[d].result
        /\ del'[d].period = del[d].period
        /\ del'[d].base = monthly[KeyOf[d[1]]][del[d].period]
        /\ del[d].pc = "begin" /\ d[1] \notin Tagged
    BY <1>11, <2>2 DEF BeginUntagged, Delivery
  <2> HIDE DEF LInv, TypeOK
  <2> QED
    BY <1>11, <2>1, <2>3, <1>0, LocalStep DEF BeginUntagged, Running
<1>12. ASSUME NEW d \in Deliveries, Write(d) PROVE LInv'
  <2>1. /\ \A e \in Deliveries : e # d => del'[e] = del[e]
        /\ del[d].pc \in Running /\ del[d].pc # "commit"
    BY <1>12 DEF Write, Running
  <2>2. del'[d] = [del[d] EXCEPT !.pc = "commit"]
    BY <1>12 DEF Write
  <2>3. /\ del[d].base = monthly[KeyOf[d[1]]][del[d].period]
        /\ d[1] \in Tagged => ~EventExists(d)
    BY <1>12 DEF Write, MayWrite, FreshSnapshots, Fresh
  <2>4. /\ del'[d].pc = "commit" /\ del'[d].stamp = del[d].stamp
        /\ del'[d].now <= del[d].now /\ del'[d].result = del[d].result
        /\ del'[d].base = del[d].base /\ del'[d].period = del[d].period
        /\ del[d].pc = "write" /\ writer = Null
    BY <1>12, <2>2 DEF Write, MayWrite, Delivery
  <2> HIDE DEF LInv, TypeOK
  <2> QED
    BY <1>12, <2>1, <2>3, <2>4, <1>0, LocalStep DEF Write, Running
<1>13. ASSUME NEW d \in Deliveries, WriteBusy(d) PROVE LInv'
  <2>1. /\ \A e \in Deliveries : e # d => del'[e] = del[e]
        /\ del[d].pc \in Running /\ del[d].pc # "commit"
    BY <1>13 DEF WriteBusy, ReturnError, Running
  <2>2. del'[d] = Ended(del[d], "error")
    BY <1>13 DEF WriteBusy, ReturnError
  <2>3. del[d].pc = "write" /\ del[d].result # "counted"
    BY <1>13 DEF WriteBusy, EventsKept, Running
  <2>4. /\ del'[d].pc = "done" /\ del'[d].stamp = del[d].stamp
        /\ del'[d].now <= del[d].now /\ del'[d].result = "error"
        /\ ~Fresh(d)'
    BY <2>2, EndedTyped DEF Fresh, Delivery
  <2>5. UNCHANGED <<day, requestedAt, events, monthly, writer>>
    BY <1>13 DEF WriteBusy
  <2>6. del[d].pc \in Running /\ del'[d].pc \notin Running
    BY <2>3, <2>4 DEF Running
  <2> HIDE DEF LInv, TypeOK
  <2> QED
    BY <2>1, <2>3, <2>4, <2>5, <2>6, <1>0, LocalStep
<1>14. ASSUME NEW d \in Deliveries, Commit(d) PROVE LInv'
  <2>1. /\ del[d].pc = "commit" /\ writer = d
        /\ del'[d] = Recorded(del[d], "counted")
        /\ \A e \in Deliveries : e # d => del'[e] = Outdate(del)[e]
    BY <1>14 DEF Commit, WriterCommits, Outdate
  <2>2. /\ del'[d].pc = "prune" /\ del'[d].result = "counted"
        /\ del'[d].stamp = del[d].stamp /\ del'[d].now = del[d].now
    BY <2>1, EndedTyped
  <2>3. \A e \in Deliveries : e # d =>
          /\ del'[e].pc = del[e].pc /\ del'[e].result = del[e].result
          /\ del'[e].stamp = del[e].stamp /\ del'[e].now = del[e].now
          /\ del[e].pc = "write" => del'[e].stale
          /\ del[e].pc # "commit"
    <3>1. \A e \in Deliveries : e # d => del[e].pc # "commit"
      BY <2>1 DEF WriterCommits
    <3>2. \A e \in Deliveries : e # d => del'[e] = Outdate(del)[e]
      BY <2>1
    <3>3. del \in [Deliveries -> Delivery]
      OBVIOUS
    <3> HIDE DEF LInv, TypeOK
    <3> QED
      BY <3>1, <3>2, <3>3, OutdateFlags
  <2>4. WriterCommits' /\ FreshSnapshots'
    BY <1>14, <2>2, <2>3, DeliveryOfRequest
       DEF Commit, WriterCommits, FreshSnapshots, Fresh
  <2>5. Stamped'
    BY <1>14, <2>1, <2>2, <2>3 DEF Commit, Stamped
  <2>6. d[1] \in Tagged => \A e \in events : e[1] # d[1]
    BY <2>1 DEF FreshSnapshots, Fresh, EventExists
  <2>7. EventsKept'
    <3>1. /\ events' = events \cup {d} /\ day' = day /\ requestedAt' = requestedAt
          /\ del'[d].result = "counted" /\ del'[d].pc = "prune"
          /\ \A e \in Deliveries : e # d =>
               del'[e].pc = del[e].pc /\ del'[e].result = del[e].result
      BY <1>14, <2>2, <2>3 DEF Commit
    <3>2. \A e \in events' : del'[e].result = "counted"
      BY <3>1 DEF EventsKept
    <3>3. \A e \in Deliveries :
            del'[e].pc \in {"idle"} \cup (Running \ {"prune"}) => del'[e].result # "counted"
      BY <3>1 DEF EventsKept
    <3>4. \A e \in Deliveries :
            del'[e].result = "counted" /\ e \notin events'
              => requestedAt'[e[1]] + Retention < day'
      BY <3>1 DEF EventsKept
    <3>5. \A e, f \in events' : e[1] = f[1] /\ e[1] \in Tagged => e = f
      BY <2>6, <3>1 DEF EventsKept
    <3> QED
      BY <3>2, <3>3, <3>4, <3>5 DEF EventsKept
  <2> QED
    BY <2>4, <2>5, <2>7
<1>15. ASSUME NEW d \in Deliveries, Closed(d) PROVE LInv'
  <2>1. /\ \A e \in Deliveries : e # d => del'[e] = del[e]
        /\ del[d].pc \in Running /\ del[d].pc # "commit"
    BY <1>15 DEF Closed, ReturnError, Running
  <2>2. del'[d] = Ended(del[d], "error")
    BY <1>15 DEF Closed, ReturnError
  <2>3. del[d].pc \in {"resolve", "begin"} /\ del[d].result # "counted"
    BY <1>15 DEF Closed, EventsKept, Running
  <2>4. /\ del'[d].pc = "done" /\ del'[d].stamp = del[d].stamp
        /\ del'[d].now <= del[d].now /\ del'[d].result = "error"
        /\ ~Fresh(d)'
    BY <2>2, EndedTyped DEF Fresh, Delivery
  <2>5. UNCHANGED <<day, requestedAt, events, monthly, writer>>
    BY <1>15 DEF Closed
  <2>6. del[d].pc \in Running /\ del'[d].pc \notin Running
    BY <2>3, <2>4 DEF Running
  <2> HIDE DEF LInv, TypeOK
  <2> QED
    BY <2>1, <2>3, <2>4, <2>5, <2>6, <1>0, LocalStep
<1>16. ASSUME NEW d \in Deliveries, Prune(d) PROVE LInv'
  <2>1. /\ del[d].pc = "prune" /\ writer = Null /\ writer' = Null
        /\ del'[d] = Ended(del[d], del[d].result)
        /\ \A e \in Deliveries : e # d => \/ del'[e] = del[e]
                                          \/ del'[e] = Outdate(del)[e]
    BY <1>16 DEF Prune, Outdate
  <2>2. /\ del'[d].pc = "done" /\ del'[d].result = del[d].result
        /\ del'[d].stamp = del[d].stamp /\ del'[d].now = 0
    <3>1. /\ del[d] \in Delivery
          /\ del[d].result \in {"counted", "duplicate", "error", "lost", "none"}
      BY DEF Delivery
    <3> HIDE DEF LInv, TypeOK
    <3> QED
      BY <2>1, <3>1, EndedTyped
  <2>3. \A e \in Deliveries : e # d =>
          /\ del'[e].pc = del[e].pc /\ del'[e].result = del[e].result
          /\ del'[e].stamp = del[e].stamp /\ del'[e].now = del[e].now
          /\ del'[e].base = del[e].base /\ del'[e].period = del[e].period
          /\ Fresh(e)' => Fresh(e)
    <3> SUFFICES ASSUME NEW e \in Deliveries, e # d
                 PROVE  /\ del'[e].pc = del[e].pc /\ del'[e].result = del[e].result
                        /\ del'[e].stamp = del[e].stamp /\ del'[e].now = del[e].now
                        /\ del'[e].base = del[e].base /\ del'[e].period = del[e].period
                        /\ Fresh(e)' => Fresh(e)
      OBVIOUS
    <3>1. CASE del'[e] = del[e]
      BY <3>1 DEF Fresh
    <3>2. CASE del'[e] = Outdate(del)[e]
      BY <3>2, OutdateFlags DEF Fresh
    <3> QED
      BY <2>1, <3>1, <3>2
  <2>4. WriterCommits'
    BY <2>1, <2>2, <2>3, DeliveryOfRequest DEF WriterCommits
  <2>5. FreshSnapshots'
    <3>1. ~Fresh(d)' /\ monthly' = monthly /\ events' \subseteq events
      BY <1>16, <2>2 DEF Prune, Fresh
    <3> QED
      BY <2>3, <3>1 DEF FreshSnapshots, EventExists
  <2>6. Stamped'
    BY <1>16, <2>1, <2>2, <2>3 DEF Prune, Stamped
  <2>7. \A e \in Expired(d) : requestedAt[e[1]] + Retention < day
    <3> SUFFICES ASSUME NEW e \in Expired(d) PROVE requestedAt[e[1]] + Retention < day
      OBVIOUS
    <3>1. e \in Deliveries /\ del[e].stamp < del[d].now - Retention /\ del[e].pc # "idle"
      BY DEF Expired, EventsKept
    <3>2. requestedAt[e[1]] <= del[e].stamp /\ del[d].now <= day /\ requestedAt[e[1]] \in Nat
      BY <2>1, <3>1, DeliveryOfRequest DEF Stamped
    <3>3. del[e].stamp \in Nat /\ del[d].now \in Nat /\ Retention \in Nat
      BY <3>1, UsageLedgerAssumption DEF Delivery
    <3> QED
      BY <3>1, <3>2, <3>3
  <2>8. EventsKept'
    <3>1. /\ events' = events \ Expired(d) /\ day' = day /\ requestedAt' = requestedAt
          /\ \A e \in Deliveries : del'[e].result = del[e].result
      BY <1>16, <2>2, <2>3 DEF Prune
    <3>2. \A e \in events' : del'[e].result = "counted"
      BY <3>1 DEF EventsKept
    <3>3. \A e \in Deliveries :
            del'[e].pc \in {"idle"} \cup (Running \ {"prune"}) => del'[e].result # "counted"
      BY <2>2, <2>3 DEF EventsKept, Running
    <3>4. \A e \in Deliveries :
            del'[e].result = "counted" /\ e \notin events'
              => requestedAt'[e[1]] + Retention < day'
      BY <2>7, <3>1 DEF EventsKept
    <3>5. \A e, f \in events' : e[1] = f[1] /\ e[1] \in Tagged => e = f
      BY <3>1 DEF EventsKept
    <3> QED
      BY <3>2, <3>3, <3>4, <3>5 DEF EventsKept
  <2> QED
    BY <2>4, <2>5, <2>6, <2>8
<1>17. ASSUME NEW d \in Deliveries, PruneFails(d) PROVE LInv'
  <2>1. /\ \A e \in Deliveries : e # d => del'[e] = del[e]
        /\ del[d].pc \in Running /\ del[d].pc # "commit"
    BY <1>17 DEF PruneFails, Running
  <2>2. del'[d] = Ended(del[d], del[d].result)
    BY <1>17 DEF PruneFails
  <2>3. del[d].pc = "prune" /\ del[d].result \in {"none", "counted", "duplicate", "error", "lost"}
    BY <1>17 DEF PruneFails, Delivery
  <2>4. /\ del'[d].pc = "done" /\ del'[d].stamp = del[d].stamp
        /\ del'[d].now <= del[d].now /\ del'[d].result = del[d].result
        /\ ~Fresh(d)'
    BY <2>2, <2>3, EndedTyped DEF Fresh, Delivery
  <2> HIDE DEF LInv, TypeOK
  <2> QED
    BY <1>17, <2>1, <2>3, <2>4, <1>0, LocalStep DEF PruneFails, Running
<1>18. CASE ResetBegin
  BY <1>18 DEF ResetBegin, WriterCommits, FreshSnapshots, Fresh, EventExists,
               Stamped, EventsKept
<1>19. CASE ResetDelete
  BY <1>19, ForeignCommit DEF ResetDelete
<1>20. CASE ResetFails
  BY <1>20 DEF ResetFails, WriterCommits, FreshSnapshots, Fresh, EventExists,
               Stamped, EventsKept
<1>21. CASE Reconfigure
  BY <1>21 DEF Reconfigure, WriterCommits, FreshSnapshots, Fresh, EventExists,
               Stamped, EventsKept
<1>22. CASE CloseOld
  BY <1>22 DEF CloseOld, WriterCommits, FreshSnapshots, Fresh, EventExists,
               Stamped, EventsKept
<1>23. CASE Crash
  <2>1. \A d \in Deliveries :
          /\ del'[d].pc \in {"idle", "done"}
          /\ del'[d].pc = "idle" => del'[d] = del[d]
          /\ del[d].pc = "idle" => del'[d] = del[d]
          /\ del'[d].stamp = del[d].stamp
          /\ del'[d].now <= day \/ del'[d] = del[d]
          /\ del'[d].result = "counted" <=> del[d].result = "counted"
    <3> SUFFICES ASSUME NEW d \in Deliveries
                 PROVE  /\ del'[d].pc \in {"idle", "done"}
                        /\ del'[d].pc = "idle" => del'[d] = del[d]
                        /\ del[d].pc = "idle" => del'[d] = del[d]
                        /\ del'[d].stamp = del[d].stamp
                        /\ del'[d].now <= day \/ del'[d] = del[d]
                        /\ del'[d].result = "counted" <=> del[d].result = "counted"
      OBVIOUS
    <3>1. CASE del[d].pc = "prune"
      <4>1. del'[d] = Ended(del[d], del[d].result)
        BY <1>23, <3>1 DEF Crash
      <4>2. /\ del[d] \in Delivery /\ 0 <= day
            /\ del[d].result \in {"counted", "duplicate", "error", "lost", "none"}
        BY DEF Delivery
      <4> HIDE DEF LInv, TypeOK
      <4> QED
        BY <3>1, <4>1, <4>2, EndedTyped
    <3>2. CASE del[d].pc \in Running \ {"prune"}
      <4>1. del'[d] = Ended(del[d], "lost")
        BY <1>23, <3>2 DEF Crash, Running
      <4> QED
        BY <3>2, <4>1, EndedTyped DEF EventsKept, Running
    <3>3. CASE del[d].pc \in {"idle", "done"}
      BY <1>23, <3>3 DEF Crash, Running
    <3> QED
      BY <3>1, <3>2, <3>3 DEF Delivery
  <2>2. WriterCommits' /\ FreshSnapshots'
    BY <1>23, <2>1, DeliveryOfRequest DEF Crash, WriterCommits, FreshSnapshots, Fresh
  <2>3. Stamped'
    BY <1>23, <2>1 DEF Crash, Stamped
  <2>4. EventsKept'
    BY <1>23, <2>1 DEF Crash, EventsKept, Running
  <2> QED
    BY <2>2, <2>3, <2>4
<1>24. ASSUME NEW d \in Deliveries, CommitFails(d) PROVE LInv'
  <2>1. /\ \A e \in Deliveries : e # d => del'[e] = del[e]
        /\ del[d].pc = "commit" /\ writer' = Null
        /\ UNCHANGED <<day, requestedAt, events, monthly>>
    BY <1>24 DEF CommitFails, ReturnError
  <2>2. del'[d] = Ended(del[d], "lost")
    BY <1>24 DEF CommitFails, ReturnError
  <2>3. del[d].pc \in Running /\ del[d].result # "counted"
    BY <2>1 DEF EventsKept, Running
  <2>4. /\ del'[d].pc = "done" /\ del'[d].stamp = del[d].stamp
        /\ del'[d].now <= del[d].now /\ del'[d].result = "lost"
        /\ ~Fresh(d)'
    BY <2>2, EndedTyped DEF Fresh, Delivery
  <2>5. del'[d].pc \notin Running
    BY <2>4 DEF Running
  <2> HIDE DEF LInv, TypeOK
  <2> QED
    BY <2>1, <2>3, <2>4, <2>5, <1>0, LocalStep
<1> QED
  BY <1>1, <1>2, <1>3, <1>4, <1>5, <1>6, <1>7, <1>8, <1>9, <1>10, <1>11, <1>12,
     <1>13, <1>14, <1>15, <1>16, <1>17, <1>18, <1>19, <1>20, <1>21, <1>22, <1>23,
     <1>24
     DEF Next, Step

LEMMA LedgerInvariant == Spec => []LInv
BY LInvInit, LInvStep, PTL DEF Spec

-----------------------------------------------------------------------------
(* What follows from it.                                                   *)

\* A set with more than one element has two that differ.
LEMMA TwoMembers ==
    ASSUME NEW S, Cardinality(S) > 1
    PROVE  \E x, y \in S : x # y
<1> SUFFICES ASSUME \A x, y \in S : x = y PROVE FALSE
  OBVIOUS
<1>1. CASE S = {}
  BY <1>1, FS_EmptySet
<1>2. CASE S # {}
  <2>1. PICK x : S = {x}
    BY <1>2
  <2>2. Cardinality(S) = 1
    BY <2>1, FS_Singleton
  <2> QED
    BY <2>2
<1> QED
  BY <1>1, <1>2

\* A request whose response carries an ID is counted a second time only when
\* it is older than the retention, for any number of Stores, crashes and
\* concurrent deliveries: the SELECT on (request_id, key_hash) at
\* store.go:464 does not miss an event that is still there.
THEOREM RecountedLate == Spec => []RecountNeedsExpiry
<1>1. LInv => RecountNeedsExpiry
  <2> SUFFICES ASSUME LInv, NEW q \in Tagged, Cardinality(Counted(q)) > 1
               PROVE  requestedAt[q] + Retention < day
    BY DEF RecountNeedsExpiry
  <2>1. PICK d, e \in Counted(q) : d # e
    BY TwoMembers
  <2>2. /\ d \in Deliveries /\ d[1] = q /\ del[d].result = "counted"
        /\ e \in Deliveries /\ e[1] = q /\ del[e].result = "counted"
    BY DEF Counted
  <2>3. d \notin events \/ e \notin events
    BY <2>1, <2>2 DEF LInv, EventsKept
  <2> QED
    BY <2>2, <2>3 DEF LInv, EventsKept
<1> QED
  BY <1>1, LedgerInvariant, PTL

\* The initial database is that of UsageAccount.
LEMMA AccountInit == Init => Account!Init
BY DEF Init, Account!Init

\* Every statement is a step of UsageAccount or changes nothing it sees.
LEMMA AccountStep ==
    LInv /\ [Next]_vars => [Account!Next]_<<monthly, {e[1] : e \in events}>>
<1> SUFFICES ASSUME LInv, [Next]_vars
             PROVE  Account!Next \/ UNCHANGED <<monthly, {e[1] : e \in events}>>
  OBVIOUS
<1>1. ASSUME NEW d \in Deliveries, Commit(d) PROVE Account!Next
  <2>1. del[d].pc = "commit" /\ d[1] \in Requests /\ del[d].period \in Periods
    BY <1>1, DeliveryOfRequest DEF Commit, LInv, TypeOK, Delivery
  <2>2. /\ del[d].base = monthly[KeyOf[d[1]]][del[d].period]
        /\ d[1] \in Tagged => d[1] \notin {e[1] : e \in events}
    BY <2>1 DEF LInv, FreshSnapshots, Fresh, EventExists
  <2>3. monthly' = [monthly EXCEPT ![KeyOf[d[1]]][del[d].period] = @ + Cost[d[1]]]
    BY <1>1, <2>2 DEF Commit, NewTotal
  <2>4. {e[1] : e \in events}' = {e[1] : e \in events} \cup {d[1]}
    BY <1>1 DEF Commit
  <2>5. \E q \in Requests, p \in Periods :
          /\ q \in Tagged => q \notin {e[1] : e \in events}
          /\ monthly' = [monthly EXCEPT ![KeyOf[q]][p] = @ + Cost[q]]
          /\ {e[1] : e \in events}' = {e[1] : e \in events} \cup {q}
    BY <2>1, <2>2, <2>3, <2>4
  <2> QED
    BY <2>5 DEF Account!Next, Account!Count
<1>2. ASSUME NEW d \in Deliveries, Prune(d) PROVE Account!Next
  <2>1. Account!Forget
    BY <1>2 DEF Prune, Account!Forget
  <2> QED
    BY <2>1 DEF Account!Next
<1>3. CASE ResetDelete
  <2>1. Account!Clear(reset.key, reset.period)
    BY <1>3 DEF ResetDelete, Account!Clear
  <2>2. reset.key \in Keys /\ reset.period \in Periods
    BY DEF LInv, TypeOK, Reset
  <2> QED
    BY <2>1, <2>2 DEF Account!Next
<1>4. CASE UNCHANGED <<monthly, events>>
  BY <1>4
<1>5. \/ \E d \in Deliveries : Commit(d) \/ Prune(d)
      \/ ResetDelete
      \/ UNCHANGED <<monthly, events>>
  BY DEF Next, vars, Step, OtherWrite, Rollover, Tick, Request, Start, Lock, Resolve,
         BeginTagged, Duplicate, BeginUntagged, Write, WriteBusy, CommitFails, Closed,
         PruneFails,
         ResetBegin, ResetFails, Reconfigure, CloseOld, Crash
<1> QED
  BY <1>1, <1>2, <1>3, <1>4, <1>5

\* The ledger implements UsageAccount: however the statements of concurrent
\* recordings, resets and other writers interleave, and wherever the process
\* stops, totals change by one request's tokens at a time and no update is lost.
THEOREM LedgerImplementsAccount == Spec => ImplementsAccount
BY LedgerInvariant, AccountInit, AccountStep, PTL
   DEF Spec, ImplementsAccount, Account!Spec
=============================================================================
