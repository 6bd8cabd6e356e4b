-------------------------- MODULE KeyRegistryProofs --------------------------
(***************************************************************************)
(* Proofs about KeyRegistry, for any keys, requesters, operators, bodies   *)
(* and limits: what authentications answer, that they never change a row   *)
(* that is on file, and that listings are complete.                        *)
(*                                                                         *)
(* An answer is explained by what the call has seen; the invariant says    *)
(* what a requester has seen when it stands before a statement (Informed): *)
(* the row and the total as they are, before the INSERT that there was no  *)
(* row, and before the comparison an active row with the limit it keeps.   *)
(* A listing keeps what it has yet to fetch apart from what it holds, and  *)
(* the two together are what it began with (Listing).                      *)
(***************************************************************************)
EXTENDS KeyRegistry, TLAPS

InformedCall(c) ==
    /\ call[c].op = "auth"
    /\ call[c].pc \in {"idle", "read", "insert", "totals"}
    /\ call[c].pc # "idle" =>
         /\ call[c].key = KeyOf[c]
         /\ row[call[c].key] \in seen[c].rows
         /\ used[call[c].key] \in seen[c].totals
    /\ call[c].pc = "insert" => cfg.registration /\ Null \in seen[c].rows
    /\ call[c].pc = "totals" =>
         \E r \in seen[c].rows : Active(r) /\ r.limit = call[c].limit

\* What the calls of operators carry.
Shaped(x) ==
    /\ x.pc # "idle" => x.op \in Operations
    /\ x.op \in {"add", "update", "delete", "reset"} => x.key \in Keys
    /\ x.op \in {"add", "update"} => x.args \in Bodies

Informed ==
    /\ \A c \in Requesters : InformedCall(c)
    /\ \A c \in Operators : Shaped(call[c])

RInv == TypeOK /\ ActiveByApproval /\ Informed

-----------------------------------------------------------------------------
(* Types.                                                                  *)

LEMMA KeysOfCalls ==
    ASSUME TypeOK, NEW c \in Requesters
    PROVE  c \in Calls /\ KeyOf[c] \in Keys /\ c \notin Operators
BY KeyRegistryAssumption DEF Calls

LEMMA NullIsNoRow == Null \notin Row /\ Null \notin Limits /\ Null \notin Nat
BY KeyRegistryAssumption

LEMMA RowsHaveFields ==
    ASSUME TypeOK, NEW k \in Keys, row[k] # Null
    PROVE  row[k] \in Row /\ row[k].limit \in Limits \cup {Null} /\ row[k].status \in Status
BY DEF TypeOK, Row

LEMMA IdleTyped == Idle \in Call
BY DEF Idle, Call

\* The answers of Reply.
Answered == Status \cup {"ok", "unknown_key", "over_quota", "conflict",
                         "already_exists", "not_found", "no_rows", "failed"}

LEMMA AnswerTyped ==
    ASSUME TypeOK, NEW c \in Calls, NEW answer \in Answered,
           NEW items \in SUBSET Keys, AnswerWith(c, answer, items)
    PROVE  call' \in [Calls -> Call] /\ reply' \in Reply
BY IdleTyped DEF TypeOK, AnswerWith, Reply, Answered

LEMMA AnswerAlone ==
    ASSUME TypeOK, NEW c \in Calls, NEW answer \in Answered, Answer(c, answer)
    PROVE  call' \in [Calls -> Call] /\ reply' \in Reply
BY AnswerTyped DEF Answer

LEMMA GotoTyped ==
    ASSUME TypeOK, NEW c \in Calls,
           NEW pc \in {"read", "insert", "totals", "write", "get", "items"},
           Goto(c, pc)
    PROVE  call' \in [Calls -> Call] /\ reply' = Null
BY DEF TypeOK, Goto, Call

\* What the calls carry.
LEMMA CallsTyped ==
    ASSUME TypeOK, NEW c \in Calls
    PROVE  /\ call[c] \in Call
           /\ call[c].key \in Keys \cup {Null}
           /\ call[c].limit \in Limits \cup {Null}
           /\ call[c].todo \in SUBSET Keys
           /\ call[c].items \in SUBSET Keys
           /\ call[c].args \in Bodies \cup {Null}
BY DEF TypeOK, Call

LEMMA AuthTyped ==
    ASSUME TypeOK, NEW c \in Requesters,
           BeginAuth(c) \/ ReadKey(c) \/ InsertUnknown(c) \/ CheckTotals(c)
             \/ Spend(KeyOf[c]),
           Informed
    PROVE  TypeOK'
<1> c \in Calls /\ KeyOf[c] \in Keys
  BY KeysOfCalls
<1> call[c].pc # "idle" => call[c].key = KeyOf[c]
  BY DEF Informed, InformedCall
<1> "ok" \in Answered /\ "unknown_key" \in Answered /\ "over_quota" \in Answered
      /\ "conflict" \in Answered /\ Status \subseteq Answered
  BY DEF Answered
<1> Unknown \in Answered
  BY DEF Unknown
<1>1. CASE BeginAuth(c)
  <2> [Idle EXCEPT !.pc = "read", !.key = KeyOf[c]] \in Call
    BY DEF Idle, Call
  <2> QED
    BY <1>1 DEF BeginAuth, TypeOK
<1>2. CASE ReadKey(c)
  <2> DEFINE found == row[KeyOf[c]]
  <2> call[c].key = KeyOf[c]
    BY <1>2 DEF ReadKey, At
  <2>1. found # Null => found.status \in Answered /\ found.limit \in Limits \cup {Null}
    BY RowsHaveFields
  <2>2. call' \in [Calls -> Call] /\ reply' \in Reply \cup {Null}
    <3>1. CASE found = Null /\ cfg.registration
      BY <1>2, <3>1, GotoTyped DEF ReadKey
    <3>2. CASE found = Null /\ ~cfg.registration
      BY <1>2, <3>2, AnswerAlone DEF ReadKey
    <3>3. CASE found # Null /\ found.status # "active"
      BY <1>2, <3>3, <2>1, AnswerAlone DEF ReadKey
    <3>4. CASE found # Null /\ found.status = "active"
      <4> DEFINE x == [call[c] EXCEPT !.pc = "totals", !.limit = found.limit]
      <4>1. call' = [call EXCEPT ![c] = x] /\ reply' = Null
        BY <1>2, <3>4 DEF ReadKey
      <4>2. x \in Call
        BY <2>1, <3>4, CallsTyped DEF Call
      <4> HIDE DEF x
      <4> QED
        BY <4>1, <4>2 DEF TypeOK
    <3> QED
      BY <3>1, <3>2, <3>3, <3>4
  <2> QED
    BY <1>2, <2>2 DEF ReadKey, TypeOK
<1>3. CASE InsertUnknown(c)
  <2> call[c].key = KeyOf[c]
    BY <1>3 DEF InsertUnknown, At
  <2> Registered \in Row
    BY KeyRegistryAssumption DEF Registered, Row, Status
  <2>1. row' \in [Keys -> Row \cup {Null}]
    BY <1>3 DEF InsertUnknown, TypeOK
  <2>2. call' \in [Calls -> Call] /\ reply' \in Reply
    BY <1>3, AnswerAlone DEF InsertUnknown
  <2> QED
    BY <1>3, <2>1, <2>2 DEF InsertUnknown, TypeOK
<1>4. CASE CheckTotals(c)
  <2>1. call' \in [Calls -> Call] /\ reply' \in Reply
    BY <1>4, AnswerAlone DEF CheckTotals
  <2> QED
    BY <1>4, <2>1 DEF CheckTotals, TypeOK
<1>5. CASE Spend(KeyOf[c])
  <2> MaxUsed \in Nat
    BY KeyRegistryAssumption
  <2> used[KeyOf[c]] \in 0 .. MaxUsed
    BY DEF TypeOK
  <2>1. used[KeyOf[c]] + 1 \in 0 .. MaxUsed
    BY <1>5 DEF Spend
  <2>2. used' \in [Keys -> 0 .. MaxUsed]
    BY <1>5, <2>1 DEF Spend, TypeOK
  <2> QED
    BY <1>5, <2>2 DEF Spend, TypeOK
<1> QED
  BY <1>1, <1>2, <1>3, <1>4, <1>5

\* An operator's call that goes on, or ends, keeps its types and its shape.
LEMMA OperatorGoes ==
    ASSUME TypeOK, Informed, NEW c \in Operators, NEW x \in Call, Shaped(x),
           call' = [call EXCEPT ![c] = x]
    PROVE  call' \in [Calls -> Call] /\ \A d \in Operators : Shaped(call'[d])
<1>1. c \in Calls /\ Operators \subseteq Calls
  BY DEF Calls
<1>2. call' \in [Calls -> Call]
  BY <1>1 DEF TypeOK
<1>3. ASSUME NEW d \in Operators
      PROVE  Shaped(call'[d])
  <2>1. call'[d] = IF d = c THEN x ELSE call[d]
    BY <1>1 DEF TypeOK
  <2>2. Shaped(call[d])
    BY DEF Informed
  <2> QED
    BY <2>1, <2>2
<1> QED
  BY <1>2, <1>3

LEMMA OperatorAnswers ==
    ASSUME TypeOK, Informed, NEW c \in Operators, NEW answer \in Answered,
           NEW items \in SUBSET Keys, AnswerWith(c, answer, items)
    PROVE  /\ call' \in [Calls -> Call] /\ reply' \in Reply
           /\ \A d \in Operators : Shaped(call'[d])
<1>1. c \in Calls
  BY DEF Calls
<1>2. Shaped(Idle)
  BY DEF Shaped, Idle
<1>3. call' = [call EXCEPT ![c] = Idle]
  BY DEF AnswerWith
<1> QED
  BY <1>1, <1>2, <1>3, IdleTyped, OperatorGoes, AnswerTyped

LEMMA OperatorAnswersAlone ==
    ASSUME TypeOK, Informed, NEW c \in Operators, NEW answer \in Answered,
           Answer(c, answer)
    PROVE  /\ call' \in [Calls -> Call] /\ reply' \in Reply
           /\ \A d \in Operators : Shaped(call'[d])
BY OperatorAnswers DEF Answer

LEMMA OperatorGoto ==
    ASSUME TypeOK, Informed, NEW c \in Operators,
           NEW pc \in {"read", "insert", "totals", "write", "get", "items"},
           call[c].pc # "idle", Goto(c, pc)
    PROVE  /\ call' \in [Calls -> Call] /\ reply' = Null
           /\ \A d \in Operators : Shaped(call'[d])
<1> DEFINE x == [call[c] EXCEPT !.pc = pc]
<1> c \in Calls
  BY DEF Calls
<1>1. x \in Call /\ call' = [call EXCEPT ![c] = x] /\ reply' = Null
  BY CallsTyped DEF Goto, Call
<1>2. Shaped(call[c]) /\ call[c] \in Call
  BY CallsTyped DEF Informed
<1>3. x.op = call[c].op /\ x.key = call[c].key /\ x.args = call[c].args
  BY <1>2 DEF Call
<1>4. Shaped(x)
  BY <1>2, <1>3 DEF Shaped
<1> HIDE DEF x
<1> QED
  BY <1>1, <1>4, OperatorGoes

\* The rows and the calls of operators after a step of an operator.
OperatorStep(c) ==
    \/ \E op \in Operations : Begin(c, op)
    \/ Add(c) \/ Update(c) \/ Get(c) \/ Delete(c)
    \/ List(c) \/ ListItem(c) \/ ListEnd(c) \/ ResetRead(c) \/ ResetDelete(c)

LEMMA OperatorTyped ==
    ASSUME TypeOK, Informed, NEW c \in Operators, OperatorStep(c)
    PROVE  TypeOK' /\ \A d \in Operators : Shaped(call'[d])
<1> DEFINE x == call[c]
<1> c \in Calls
  BY DEF Calls
<1> x \in Call /\ Shaped(x)
  BY CallsTyped DEF Informed
<1> "ok" \in Answered /\ "already_exists" \in Answered /\ "no_rows" \in Answered
      /\ "not_found" \in Answered
  BY DEF Answered
<1> DEFINE Calling == /\ call' \in [Calls -> Call] /\ reply' \in Reply \cup {Null}
                      /\ \A d \in Operators : Shaped(call'[d])
<1> HIDE DEF x
<1>1. ASSUME NEW op \in Operations, Begin(c, op)
      PROVE  TypeOK' /\ Calling
  <2>1. PICK k \in Keys, body \in Bodies :
          call' = [call EXCEPT ![c] =
             [Idle EXCEPT !.op = op,
                          !.pc = IF op = "reset" THEN "read" ELSE "write",
                          !.key = IF op = "list" THEN Null ELSE k,
                          !.args = IF op \in {"add", "update"} THEN body ELSE Null]]
    BY <1>1 DEF Begin
  <2> DEFINE y == [Idle EXCEPT !.op = op,
                          !.pc = IF op = "reset" THEN "read" ELSE "write",
                          !.key = IF op = "list" THEN Null ELSE k,
                          !.args = IF op \in {"add", "update"} THEN body ELSE Null]
  <2>2. y \in Call
    BY DEF Idle, Call
  <2>3. /\ y.op = op /\ y.key = IF op = "list" THEN Null ELSE k
        /\ y.args = IF op \in {"add", "update"} THEN body ELSE Null
    BY DEF Idle
  <2>4. Shaped(y)
    BY <2>3 DEF Shaped
  <2> HIDE DEF y
  <2>5. Calling
    BY <1>1, <2>1, <2>2, <2>4, OperatorGoes DEF Begin, y
  <2>6. calls' \in 0 .. MaxCalls
    <3> MaxCalls \in Nat /\ calls \in 0 .. MaxCalls
      BY KeyRegistryAssumption DEF TypeOK
    <3> QED
      BY <1>1 DEF Begin
  <2> QED
    BY <1>1, <2>5, <2>6 DEF Begin, TypeOK
<1>2. CASE Add(c)
  <2> DEFINE args == x.args
             status == IF args.status = "" THEN "active" ELSE args.status
             new == [limit |-> args.limit, status |-> status]
  <2>1. x.pc = "write" /\ x.op = "add"
    BY <1>2 DEF Add, At, x
  <2>2. x.key \in Keys /\ args \in Bodies
    BY <2>1 DEF Shaped
  <2>3. args.limit \in Limits \cup {Null} /\ args.status \in Status \cup {""}
    BY <2>2, KeyRegistryAssumption
  <2>4. new \in Row
    BY <2>3 DEF Row, Status
  <2>5. CASE row[x.key] = Null
    <3>1. row' = [row EXCEPT ![x.key] = new] /\ Approve(x.key, status) /\ Goto(c, "get")
      BY <1>2, <2>5 DEF Add, x
    <3>2. Calling
      BY <3>1, <2>1, OperatorGoto DEF x
    <3>3. row' \in [Keys -> Row \cup {Null}] /\ approved' \subseteq Keys
      BY <3>1, <2>2, <2>4 DEF TypeOK, Approve
    <3> QED
      BY <1>2, <3>2, <3>3 DEF Add, TypeOK
  <2>6. CASE row[x.key] # Null
    <3>1. Answer(c, "already_exists") /\ UNCHANGED <<row, approved>>
      BY <1>2, <2>6 DEF Add, x
    <3>2. Calling
      BY <3>1, OperatorAnswersAlone
    <3> QED
      BY <1>2, <3>1, <3>2 DEF Add, TypeOK
  <2> QED
    BY <2>5, <2>6
<1>3. CASE Update(c)
  <2> DEFINE args == x.args
             new == [limit |-> args.limit,
                     status |-> NewStatus(row[x.key].status, args.status)]
  <2>1. x.pc = "write" /\ x.op = "update"
    BY <1>3 DEF Update, At, x
  <2>2. x.key \in Keys /\ args \in Bodies
    BY <2>1 DEF Shaped
  <2>3. args.limit \in Limits \cup {Null} /\ args.status \in Status \cup {""}
    BY <2>2, KeyRegistryAssumption
  <2>4. Goto(c, "get")
    BY <1>3 DEF Update
  <2>5. Calling
    BY <2>1, <2>4, OperatorGoto DEF x
  <2>6. row' \in [Keys -> Row \cup {Null}] /\ approved' \subseteq Keys
    <3>1. CASE row[x.key] = Null
      BY <1>3, <3>1 DEF Update, TypeOK, x
    <3>2. CASE row[x.key] # Null
      <4>1. /\ row' = [row EXCEPT ![x.key] = [limit |-> args.limit,
                                     status |-> NewStatus(@.status, args.status)]]
            /\ IF args.status = "" THEN UNCHANGED approved ELSE Approve(x.key, args.status)
        BY <1>3, <3>2 DEF Update, x
      <4>2. row[x.key].status \in Status
        BY <2>2, <3>2, RowsHaveFields
      <4>3. new \in Row
        BY <2>3, <4>2 DEF Row, NewStatus
      <4>4. row' = [row EXCEPT ![x.key] = new]
        BY <4>1
      <4> HIDE DEF new
      <4>5. row' \in [Keys -> Row \cup {Null}]
        BY <4>3, <4>4, <2>2 DEF TypeOK
      <4> QED
        BY <4>1, <4>5, <2>2 DEF TypeOK, Approve
    <3> QED
      BY <3>1, <3>2
  <2> QED
    BY <1>3, <2>5, <2>6 DEF Update, TypeOK
<1>4. CASE Get(c)
  <2>1. Calling
    BY <1>4, OperatorAnswersAlone DEF Get
  <2> QED
    BY <1>4, <2>1 DEF Get, TypeOK
<1>5. CASE Delete(c)
  <2>1. Calling
    BY <1>5, OperatorAnswersAlone DEF Delete
  <2>2. row' \in [Keys -> Row \cup {Null}] /\ approved' \subseteq Keys
    BY <1>5 DEF Delete, TypeOK
  <2> QED
    BY <1>5, <2>1, <2>2 DEF Delete, TypeOK
<1>6. CASE List(c)
  <2> DEFINE y == [call[c] EXCEPT !.pc = "items", !.todo = Present(row)]
  <2>1. call[c].pc = "write" /\ call[c].op = "list" /\ call' = [call EXCEPT ![c] = y]
    BY <1>6 DEF List, At
  <2>2. y \in Call
    BY CallsTyped DEF Call, Present
  <2>3. Shaped(y)
    BY <2>1, CallsTyped DEF Shaped, Call, Operations
  <2> HIDE DEF y
  <2>4. Calling
    BY <1>6, <2>1, <2>2, <2>3, OperatorGoes DEF List
  <2> QED
    BY <1>6, <2>4 DEF List, TypeOK
<1>7. CASE ListItem(c)
  <2>1. PICK k \in call[c].todo :
          IF row[k] = Null THEN Answer(c, "no_rows")
          ELSE /\ call' = [call EXCEPT ![c] =
                             [@ EXCEPT !.todo = call[c].todo \ {k},
                                       !.items = call[c].items \cup {k}]]
               /\ reply' = Null
    BY <1>7 DEF ListItem
  <2> k \in Keys
    BY CallsTyped
  <2>2. CASE row[k] = Null
    <3>1. Calling
      BY <2>1, <2>2, OperatorAnswersAlone
    <3> QED
      BY <1>7, <3>1 DEF ListItem, TypeOK
  <2>3. CASE row[k] # Null
    <3> DEFINE y == [call[c] EXCEPT !.todo = call[c].todo \ {k},
                                     !.items = call[c].items \cup {k}]
    <3>1. call' = [call EXCEPT ![c] = y] /\ reply' = Null
      BY <2>1, <2>3
    <3>2. y \in Call
      BY CallsTyped DEF Call
    <3>3. y.pc = call[c].pc /\ y.op = call[c].op /\ y.key = call[c].key
            /\ y.args = call[c].args
      BY CallsTyped DEF Call
    <3>4. Shaped(y)
      BY <3>3 DEF Shaped, x
    <3> HIDE DEF y
    <3>5. Calling
      BY <3>1, <3>2, <3>4, OperatorGoes
    <3> QED
      BY <1>7, <3>5 DEF ListItem, TypeOK
  <2> QED
    BY <2>2, <2>3
<1>8. CASE ListEnd(c)
  <2>1. Calling
    BY <1>8, CallsTyped, OperatorAnswers DEF ListEnd
  <2> QED
    BY <1>8, <2>1 DEF ListEnd, TypeOK
<1>9. CASE ResetRead(c)
  <2>1. Calling
    <3>1. CASE Answer(c, "not_found")
      BY <3>1, OperatorAnswersAlone
    <3>2. CASE Goto(c, "write")
      BY <1>9, <3>2, OperatorGoto DEF ResetRead, At
    <3> QED
      BY <1>9, <3>1, <3>2 DEF ResetRead
  <2> QED
    BY <1>9, <2>1 DEF ResetRead, TypeOK
<1>10. CASE ResetDelete(c)
  <2>1. Calling
    BY <1>10, OperatorAnswersAlone DEF ResetDelete
  <2>2. used' \in [Keys -> 0 .. MaxUsed]
    <3> MaxUsed \in Nat
      BY KeyRegistryAssumption
    <3>1. 0 \in 0 .. MaxUsed
      OBVIOUS
    <3> QED
      BY <1>10, <3>1 DEF ResetDelete, TypeOK
  <2> QED
    BY <1>10, <2>1, <2>2 DEF ResetDelete, TypeOK
<1> QED
  BY <1>1, <1>2, <1>3, <1>4, <1>5, <1>6, <1>7, <1>8, <1>9, <1>10 DEF OperatorStep

-----------------------------------------------------------------------------
(* What the requesters have seen.                                          *)

AuthStep(c) ==
    BeginAuth(c) \/ ReadKey(c) \/ InsertUnknown(c) \/ CheckTotals(c) \/ Spend(KeyOf[c])

LEMMA NextCases ==
    ASSUME Next
    PROVE  /\ Watch
           /\ \/ \E c \in Requesters : AuthStep(c)
              \/ \E c \in Operators : OperatorStep(c)
              \/ \E c \in Calls : Fail(c)
BY DEF Next, AuthStep, OperatorStep

\* A step of one call leaves the others alone.
LEMMA OthersStay ==
    ASSUME TypeOK, NEW c \in Calls, NEW d \in Calls, d # c,
           AuthStep(c) \/ OperatorStep(c) \/ Fail(c)
    PROVE  call'[d] = call[d]
<1>1. CASE AuthStep(c)
  BY <1>1 DEF AuthStep, BeginAuth, ReadKey, InsertUnknown, CheckTotals, Spend,
              Goto, Answer, AnswerWith, TypeOK
<1>2. CASE OperatorStep(c)
  BY <1>2 DEF OperatorStep, Begin, Add, Update, Get, Delete, List, ListItem, ListEnd,
              ResetRead, ResetDelete, Goto, Answer, AnswerWith, TypeOK
<1>3. CASE Fail(c)
  BY <1>3 DEF Fail, Answer, AnswerWith, TypeOK
<1> QED
  BY <1>1, <1>2, <1>3

LEMMA CfgStays ==
    ASSUME NEW c, AuthStep(c) \/ OperatorStep(c) \/ Fail(c)
    PROVE  cfg' = cfg
BY DEF AuthStep, BeginAuth, ReadKey, InsertUnknown, CheckTotals, Spend, OperatorStep,
       Begin, Add, Update, Get, Delete, List, ListItem, ListEnd, ResetRead,
       ResetDelete, Fail

LEMMA SeenGrows ==
    ASSUME Watch, NEW c \in Calls, call'[c].op = "auth", call'[c].pc # "idle"
    PROVE  /\ seen'[c].rows = seen[c].rows \cup {row'[call'[c].key]}
           /\ seen'[c].totals = seen[c].totals \cup {used'[call'[c].key]}
BY DEF Watch, Witness

\* What a requester has seen it goes on having seen.
LEMMA InformedStays ==
    ASSUME TypeOK, NEW c \in Requesters, InformedCall(c), Watch,
           call'[c] = call[c], cfg' = cfg
    PROVE  InformedCall(c)'
<1> c \in Calls
  BY KeysOfCalls
<1>1. CASE call[c].pc = "idle"
  BY <1>1 DEF InformedCall
<1>2. CASE call[c].pc # "idle"
  <2>1. /\ seen'[c].rows = seen[c].rows \cup {row'[call[c].key]}
        /\ seen'[c].totals = seen[c].totals \cup {used'[call[c].key]}
    BY <1>2, SeenGrows DEF InformedCall
  <2> QED
    BY <1>2, <2>1 DEF InformedCall, Active
<1> QED
  BY <1>1, <1>2

LEMMA InformedByStep ==
    ASSUME TypeOK, Informed, NEW c \in Requesters, AuthStep(c), Watch
    PROVE  InformedCall(c)'
<1> c \in Calls /\ KeyOf[c] \in Keys
  BY KeysOfCalls
<1> InformedCall(c)
  BY DEF Informed
<1> cfg' = cfg
  BY CfgStays
<1>0. ASSUME call'[c].pc = "idle", call'[c].op = "auth"
      PROVE  InformedCall(c)'
  BY <1>0 DEF InformedCall
<1>a. ASSUME NEW answer, Answer(c, answer)
      PROVE  InformedCall(c)'
  <2> call'[c] = Idle
    BY <1>a DEF Answer, AnswerWith, TypeOK
  <2> QED
    BY <1>0 DEF Idle
<1>1. CASE BeginAuth(c)
  <2>1. call'[c] = [Idle EXCEPT !.pc = "read", !.key = KeyOf[c]]
    BY <1>1 DEF BeginAuth, TypeOK
  <2>2. call'[c].op = "auth" /\ call'[c].pc = "read" /\ call'[c].key = KeyOf[c]
    BY <2>1 DEF Idle
  <2>3. /\ seen'[c].rows = seen[c].rows \cup {row'[call'[c].key]}
        /\ seen'[c].totals = seen[c].totals \cup {used'[call'[c].key]}
    BY <2>2, SeenGrows
  <2> QED
    BY <2>2, <2>3 DEF InformedCall
<1>2. CASE ReadKey(c)
  <2> DEFINE found == row[KeyOf[c]]
  <2>1. call[c].pc = "read" /\ call[c].key = KeyOf[c] /\ row' = row /\ call[c].op = "auth"
    BY <1>2 DEF ReadKey, At, InformedCall
  <2>2. CASE found = Null /\ cfg.registration
    <3>1. call'[c] = [call[c] EXCEPT !.pc = "insert"]
      BY <1>2, <2>1, <2>2 DEF ReadKey, Goto, Answer, TypeOK
    <3>2. call'[c].op = "auth" /\ call'[c].pc = "insert" /\ call'[c].key = KeyOf[c]
      BY <3>1, <2>1, CallsTyped DEF Call
    <3>3. /\ seen'[c].rows = seen[c].rows \cup {row'[call'[c].key]}
          /\ seen'[c].totals = seen[c].totals \cup {used'[call'[c].key]}
      BY <3>2, SeenGrows
    <3> QED
      BY <2>1, <2>2, <3>2, <3>3 DEF InformedCall
  <2>3. CASE found = Null /\ ~cfg.registration
    BY <1>2, <1>a, <2>1, <2>3 DEF ReadKey
  <2>4. CASE found # Null /\ found.status # "active"
    BY <1>2, <1>a, <2>1, <2>4 DEF ReadKey
  <2>5. CASE found # Null /\ found.status = "active"
    <3>1. call'[c] = [call[c] EXCEPT !.pc = "totals", !.limit = found.limit]
      BY <1>2, <2>1, <2>5 DEF ReadKey, TypeOK
    <3>2. /\ call'[c].op = "auth" /\ call'[c].pc = "totals" /\ call'[c].key = KeyOf[c]
          /\ call'[c].limit = found.limit
      BY <3>1, <2>1, CallsTyped DEF Call
    <3>3. /\ seen'[c].rows = seen[c].rows \cup {row'[call'[c].key]}
          /\ seen'[c].totals = seen[c].totals \cup {used'[call'[c].key]}
      BY <3>2, SeenGrows
    <3> QED
      BY <2>1, <2>5, <3>2, <3>3 DEF InformedCall, Active
  <2> QED
    BY <2>2, <2>3, <2>4, <2>5
<1>3. CASE InsertUnknown(c)
  BY <1>3, <1>a DEF InsertUnknown
<1>4. CASE CheckTotals(c)
  BY <1>4, <1>a DEF CheckTotals
<1>5. CASE Spend(KeyOf[c])
  BY <1>5, InformedStays DEF Spend
<1> QED
  BY <1>1, <1>2, <1>3, <1>4, <1>5 DEF AuthStep

-----------------------------------------------------------------------------
(* The invariant.                                                          *)

LEMMA ApprovalStays ==
    ASSUME TypeOK, Informed, ActiveByApproval, Next
    PROVE  ActiveByApproval'
<1> SUFFICES ASSUME cfg'.access = "deny", NEW k \in Keys, row'[k] # Null,
                    row'[k].status = "active"
             PROVE  k \in approved'
  BY DEF ActiveByApproval
<1> cfg' = cfg
  BY NextCases, CfgStays
<1>0. row[k] # Null /\ row[k].status = "active" => k \in approved
  BY DEF ActiveByApproval
<1>a. ASSUME row' = row, approved' = approved
      PROVE  k \in approved'
  BY <1>a, <1>0
<1>1. ASSUME NEW c \in Requesters, AuthStep(c)
      PROVE  k \in approved'
  <2>1. CASE InsertUnknown(c)
    <3>1. Registered.status = "pending"
      BY DEF Registered
    <3> QED
      BY <2>1, <3>1, <1>0 DEF InsertUnknown, TypeOK
  <2>2. CASE BeginAuth(c) \/ ReadKey(c) \/ CheckTotals(c) \/ Spend(KeyOf[c])
    BY <2>2, <1>a DEF BeginAuth, ReadKey, CheckTotals, Spend
  <2> QED
    BY <1>1, <2>1, <2>2 DEF AuthStep
<1>2. ASSUME NEW c \in Operators, OperatorStep(c)
      PROVE  k \in approved'
  <2> DEFINE key == call[c].key
             args == call[c].args
  <2>1. CASE Add(c)
    <3> DEFINE status == IF args.status = "" THEN "active" ELSE args.status
    <3>1. CASE row[key] = Null
      <4>1. /\ row' = [row EXCEPT ![key] = [limit |-> args.limit, status |-> status]]
            /\ Approve(key, status)
        BY <2>1, <3>1 DEF Add
      <4> QED
        BY <4>1, <1>0 DEF TypeOK, Approve
    <3>2. CASE row[key] # Null
      BY <2>1, <3>2, <1>a DEF Add
    <3> QED
      BY <3>1, <3>2
  <2>2. CASE Update(c)
    <3>1. CASE row[key] = Null
      BY <2>2, <3>1, <1>a DEF Update
    <3>2. CASE row[key] # Null
      <4>1. /\ row' = [row EXCEPT ![key] = [limit |-> args.limit,
                                     status |-> NewStatus(@.status, args.status)]]
            /\ IF args.status = "" THEN UNCHANGED approved ELSE Approve(key, args.status)
        BY <2>2, <3>2 DEF Update
      <4>2. CASE k = key
        <5>1. row'[k].status = NewStatus(row[k].status, args.status)
          BY <4>1, <4>2 DEF TypeOK
        <5> QED
          BY <4>1, <4>2, <5>1, <3>2, <1>0 DEF NewStatus, Approve
      <4>3. CASE k # key
        BY <4>1, <4>3, <1>0 DEF TypeOK, Approve
      <4> QED
        BY <4>2, <4>3
    <3> QED
      BY <3>1, <3>2
  <2>3. CASE Delete(c)
    BY <2>3, <1>0 DEF Delete, TypeOK
  <2>4. CASE \/ \E op \in Operations : Begin(c, op)
             \/ Get(c) \/ List(c) \/ ListItem(c) \/ ListEnd(c)
             \/ ResetRead(c) \/ ResetDelete(c)
    BY <2>4, <1>a DEF Begin, Get, List, ListItem, ListEnd, ResetRead, ResetDelete
  <2> QED
    BY <1>2, <2>1, <2>2, <2>3, <2>4 DEF OperatorStep
<1>3. ASSUME NEW c \in Calls, Fail(c)
      PROVE  k \in approved'
  BY <1>3, <1>a DEF Fail
<1> QED
  BY <1>1, <1>2, <1>3, NextCases

LEMMA InitRInv ==
    ASSUME Init
    PROVE  RInv
<1> MaxUsed \in Nat /\ MaxCalls \in Nat
  BY KeyRegistryAssumption
<1> 0 \in 0 .. MaxUsed /\ 0 \in 0 .. MaxCalls
  OBVIOUS
<1>1. [limit |-> Null, status |-> "pending"] \in Row
  BY DEF Row, Status
<1>2. TypeOK
  BY <1>1, IdleTyped DEF Init, TypeOK
<1>3. ActiveByApproval
  BY DEF Init, ActiveByApproval
<1>4. Informed
  BY KeyRegistryAssumption DEF Init, Informed, InformedCall, Shaped, Idle, Calls
<1> QED
  BY <1>2, <1>3, <1>4 DEF RInv

LEMMA NextRInv ==
    ASSUME RInv, Next
    PROVE  RInv'
<1> TypeOK /\ ActiveByApproval /\ Informed
  BY DEF RInv
<1> Watch
  BY NextCases
<1>1. ASSUME NEW c \in Requesters, AuthStep(c)
      PROVE  TypeOK' /\ Informed'
  <2> c \in Calls /\ Requesters \subseteq Calls /\ Operators \subseteq Calls
        /\ c \notin Operators
    BY KeysOfCalls DEF Calls
  <2>1. TypeOK'
    BY <1>1, AuthTyped DEF AuthStep
  <2>2. \A d \in Operators : Shaped(call'[d])
    BY <1>1, OthersStay DEF Informed
  <2>3. \A d \in Requesters : InformedCall(d)'
    BY <1>1, OthersStay, InformedStays, InformedByStep, CfgStays DEF Informed
  <2> QED
    BY <2>1, <2>2, <2>3 DEF Informed
<1>2. ASSUME NEW c \in Operators, OperatorStep(c)
      PROVE  TypeOK' /\ Informed'
  <2> c \in Calls /\ Requesters \subseteq Calls
    BY DEF Calls
  <2>1. TypeOK' /\ \A d \in Operators : Shaped(call'[d])
    BY <1>2, OperatorTyped
  <2>2. \A d \in Requesters : InformedCall(d)'
    BY <1>2, OthersStay, InformedStays, CfgStays, KeysOfCalls DEF Informed
  <2> QED
    BY <2>1, <2>2 DEF Informed
<1>3. ASSUME NEW c \in Calls, Fail(c)
      PROVE  TypeOK' /\ Informed'
  <2> Requesters \subseteq Calls /\ Operators \subseteq Calls
    BY DEF Calls
  <2> "failed" \in Answered
    BY DEF Answered
  <2>1. call' \in [Calls -> Call] /\ reply' \in Reply
    BY <1>3, AnswerAlone DEF Fail
  <2>2. TypeOK'
    BY <1>3, <2>1 DEF Fail, TypeOK
  <2>3. call'[c] = Idle
    BY <1>3 DEF Fail, Answer, AnswerWith, TypeOK
  <2>4. \A d \in Operators : Shaped(call'[d])
    BY <1>3, <2>3, OthersStay DEF Informed, Shaped, Idle
  <2>5. ASSUME NEW d \in Requesters
        PROVE  InformedCall(d)'
    <3>1. CASE d = c
      BY <3>1, <2>3 DEF InformedCall, Idle
    <3>2. CASE d # c
      BY <1>3, <3>2, OthersStay, InformedStays, CfgStays DEF Informed
    <3> QED
      BY <3>1, <3>2
  <2> QED
    BY <2>2, <2>4, <2>5 DEF Informed
<1>4. TypeOK' /\ Informed'
  BY <1>1, <1>2, <1>3, NextCases
<1> QED
  BY <1>4, ApprovalStays DEF RInv

LEMMA StutterRInv ==
    ASSUME RInv, UNCHANGED vars
    PROVE  RInv'
BY DEF RInv, TypeOK, ActiveByApproval, Informed, InformedCall, Shaped, Active, vars

\* Every variable keeps its type, and every requester has seen what the
\* statement before it relies on.
THEOREM RegistryInvariant == Spec => []RInv
<1>1. Init => RInv
  BY InitRInv
<1>2. RInv /\ [Next]_vars => RInv'
  BY NextRInv, StutterRInv
<1> QED
  BY <1>1, <1>2, PTL DEF Spec

\* The rows, totals and calls stay within their types (TypeOK).
THEOREM TypeCorrect == Spec => []TypeOK
<1>1. RInv => TypeOK
  BY DEF RInv
<1> QED
  BY <1>1, RegistryInvariant, PTL

\* Where unknown keys are denied, only an operator's call makes a key active.
THEOREM ActiveOnlyByApproval == Spec => []ActiveByApproval
<1>1. RInv => ActiveByApproval
  BY DEF RInv
<1> QED
  BY <1>1, RegistryInvariant, PTL

-----------------------------------------------------------------------------
(* What steps change and answer.                                           *)

LEMMA OnlyOperatorsChange ==
    ASSUME RInv, Next, NEW k \in Keys, row[k] # Null, row'[k] # row[k]
    PROVE  \E c \in Operators :
             /\ call[c].key = k /\ call[c].op \in {"update", "delete"}
             /\ call[c].pc = "write" /\ call'[c].pc # "write"
<1> TypeOK
  BY DEF RInv
<1>1. ASSUME NEW c \in Requesters, AuthStep(c)
      PROVE  FALSE
  BY <1>1 DEF AuthStep, BeginAuth, ReadKey, InsertUnknown, CheckTotals, Spend, TypeOK
<1>2. ASSUME NEW c \in Calls, Fail(c)
      PROVE  FALSE
  BY <1>2 DEF Fail
<1>3. PICK c \in Operators : OperatorStep(c)
  BY <1>1, <1>2, NextCases
<1> c \in Calls
  BY DEF Calls
<1>4. CASE Update(c)
  <2>1. call[c].pc = "write" /\ call[c].op = "update" /\ call[c].key = k
    BY <1>4 DEF Update, At, TypeOK
  <2>2. call'[c].pc = "get"
    BY <1>4, CallsTyped DEF Update, Goto, TypeOK, Call
  <2> QED
    BY <2>1, <2>2
<1>5. CASE Delete(c)
  <2>1. call[c].pc = "write" /\ call[c].op = "delete" /\ call[c].key = k
    BY <1>5 DEF Delete, At, TypeOK
  <2>2. call'[c].pc = "idle"
    BY <1>5 DEF Delete, Answer, AnswerWith, TypeOK, Idle
  <2> QED
    BY <2>1, <2>2
<1>6. CASE Add(c)
  BY <1>6 DEF Add, TypeOK
<1>7. CASE \/ \E op \in Operations : Begin(c, op)
           \/ Get(c) \/ List(c) \/ ListItem(c) \/ ListEnd(c)
           \/ ResetRead(c) \/ ResetDelete(c)
  BY <1>7 DEF Begin, Get, List, ListItem, ListEnd, ResetRead, ResetDelete
<1> QED
  BY <1>3, <1>4, <1>5, <1>6, <1>7 DEF OperatorStep

\* A key on file is changed by an update or a delete of an operator only
\* (OperatorsDecide).
THEOREM OnFileOperatorsDecide == Spec => OperatorsDecide
<1>1. RInv /\ [Next]_vars =>
        [\A k \in Keys :
           row[k] # Null /\ row'[k] # row[k] =>
             \E c \in Operators :
                 /\ call[c].key = k /\ call[c].op \in {"update", "delete"}
                 /\ call[c].pc = "write" /\ call'[c].pc # "write"]_vars
  BY OnlyOperatorsChange
<1> QED
  BY <1>1, RegistryInvariant, PTL DEF Spec, OperatorsDecide

\* What AuthExplained says of the answer of requester c.
Explained(c) ==
    LET answer == reply'.answer
        rows == Witnessed(c).rows
        totals == Witnessed(c).totals
    IN  /\ answer = "ok" =>
             \/ cfg.access = "allow" /\ Null \in rows
             \/ \E r \in rows : Active(r)
                   /\ (r.limit = Null \/ \E n \in totals : n < r.limit)
        /\ answer \in Status => \E r \in rows : r # Null /\ r.status = answer
        /\ answer = "over_quota" =>
             \E r \in rows : Active(r) /\ r.limit # Null
                   /\ \E n \in totals : n >= r.limit
        /\ answer = "unknown_key" =>
             /\ cfg.access = "deny" /\ Null \in rows
             /\ cfg.registration => rows # {Null}
        /\ answer = "conflict" => Null \in rows /\ rows # {Null}

\* Only a statement of the call itself answers it.
LEMMA OwnStatementAnswers ==
    ASSUME RInv, Next, NEW c \in Requesters, Answers(c, "auth")
    PROVE  ReadKey(c) \/ InsertUnknown(c) \/ CheckTotals(c) \/ Fail(c)
<1>1. ASSUME NEW d \in Requesters, AuthStep(d)
      PROVE  ReadKey(c) \/ InsertUnknown(c) \/ CheckTotals(c)
  BY <1>1 DEF AuthStep, BeginAuth, ReadKey, InsertUnknown, CheckTotals, Spend, Goto,
              Answer, AnswerWith, Answers
<1>2. ASSUME NEW d \in Operators, OperatorStep(d)
      PROVE  FALSE
  <2> c # d
    BY KeyRegistryAssumption
  <2>1. reply' # Null /\ reply'.to = c
    BY DEF Answers
  <2>2. ASSUME NEW answer, NEW items, AnswerWith(d, answer, items)
        PROVE  FALSE
    BY <2>1, <2>2 DEF AnswerWith
  <2> QED
    BY <1>2, <2>1, <2>2 DEF OperatorStep, Begin, Add, Update, Get, Delete, List,
          ListItem, ListEnd, ResetRead, ResetDelete, Goto, Answer
<1>3. ASSUME NEW d \in Calls, Fail(d)
      PROVE  Fail(c)
  BY <1>3 DEF Fail, Answer, AnswerWith, Answers
<1> QED
  BY <1>1, <1>2, <1>3, NextCases

LEMMA AnswerExplained ==
    ASSUME RInv, Next, NEW c \in Requesters, Answers(c, "auth")
    PROVE  Explained(c)
<1> DEFINE k == KeyOf[c]
           answer == reply'.answer
           rows == Witnessed(c).rows
           totals == Witnessed(c).totals
<1> TypeOK /\ InformedCall(c)
  BY DEF RInv, Informed
<1> c \in Calls /\ k \in Keys
  BY KeysOfCalls
<1>1. /\ rows = seen[c].rows \cup {row'[call[c].key]}
      /\ totals = seen[c].totals \cup {used'[call[c].key]}
  BY DEF Witnessed, Witness, Answers
<1>2. cfg.access = "deny" \/ cfg.access = "allow"
  BY DEF TypeOK
<1> HIDE DEF rows, totals
<1>3. CASE ReadKey(c)
  <2> DEFINE found == row[k]
  <2>1. call[c].key = k /\ row' = row
    BY <1>3 DEF ReadKey, At, InformedCall
  <2>2. found \in rows
    BY <1>1, <2>1
  <2>3. CASE found = Null /\ ~cfg.registration
    <3>1. answer = Unknown
      BY <1>3, <2>1, <2>3 DEF ReadKey, Answer, AnswerWith
    <3> QED
      BY <1>2, <2>2, <2>3, <3>1 DEF Explained, Unknown, Status, rows
  <2>4. CASE found # Null /\ found.status # "active"
    <3>1. answer = found.status /\ found.status \in {"pending", "disabled"}
      BY <1>3, <2>1, <2>4, RowsHaveFields DEF ReadKey, Answer, AnswerWith, Status
    <3> QED
      BY <2>2, <2>4, <3>1 DEF Explained, rows
  <2>5. CASE found = Null /\ cfg.registration
    BY <1>3, <2>1, <2>5 DEF ReadKey, Goto, Answers
  <2>6. CASE found # Null /\ found.status = "active"
    BY <1>3, <2>1, <2>6 DEF ReadKey, Answers
  <2> QED
    BY <2>3, <2>4, <2>5, <2>6
<1>4. CASE InsertUnknown(c)
  <2>1. call[c].key = k /\ Null \in rows
    BY <1>1, <1>4 DEF InsertUnknown, At, InformedCall
  <2>2. CASE row[k] = Null
    <3>1. answer = Unknown /\ row'[k] = Registered
      BY <1>4, <2>1, <2>2 DEF InsertUnknown, Answer, AnswerWith, TypeOK
    <3>2. Registered # Null
      <4>1. Registered \in Row
        BY KeyRegistryAssumption DEF Registered, Row, Status
      <4> QED
        BY <4>1, NullIsNoRow
    <3>3. rows # {Null}
      BY <1>1, <2>1, <3>1, <3>2
    <3> QED
      BY <1>2, <2>1, <3>1, <3>3 DEF Explained, Unknown, Status, rows
  <2>3. CASE row[k] # Null
    <3>1. answer = "conflict" /\ row' = row
      BY <1>4, <2>1, <2>3 DEF InsertUnknown, Answer, AnswerWith
    <3>2. rows # {Null}
      BY <1>1, <2>1, <2>3, <3>1
    <3> QED
      BY <2>1, <3>1, <3>2 DEF Explained, Status, rows
  <2> QED
    BY <2>2, <2>3
<1>5. CASE CheckTotals(c)
  <2> DEFINE limit == call[c].limit
             total == used[call[c].key]
  <2>1. answer = IF limit # Null /\ total >= limit THEN "over_quota" ELSE "ok"
    BY <1>5 DEF CheckTotals, Answer, AnswerWith
  <2>2. PICK r \in rows : Active(r) /\ r.limit = limit
    BY <1>1, <1>5 DEF CheckTotals, At, InformedCall
  <2>3. total \in totals
    BY <1>1, <1>5 DEF CheckTotals
  <2>4. total \in Nat /\ limit \in Nat \cup {Null}
    <3>1. call[c].key = k
      BY <1>5 DEF CheckTotals, At, InformedCall
    <3>2. used[k] \in 0 .. MaxUsed /\ limit \in Limits \cup {Null}
      BY CallsTyped DEF TypeOK
    <3>3. MaxUsed \in Nat /\ Limits \subseteq Nat
      BY KeyRegistryAssumption
    <3>4. used[k] \in Nat
      BY <3>2, <3>3
    <3> QED
      BY <3>1, <3>2, <3>3, <3>4
  <2>5. CASE limit # Null /\ total >= limit
    BY <2>1, <2>2, <2>3, <2>5 DEF Explained, Status, rows, totals
  <2>6. CASE ~(limit # Null /\ total >= limit)
    <3>1. limit = Null \/ total < limit
      BY <2>4, <2>6
    <3> QED
      BY <2>1, <2>2, <2>3, <2>6, <3>1 DEF Explained, Status, rows, totals
  <2> QED
    BY <2>5, <2>6
<1>6. CASE Fail(c)
  BY <1>6 DEF Fail, Answer, AnswerWith, Explained, Status
<1> QED
  BY <1>3, <1>4, <1>5, <1>6, OwnStatementAnswers

\* Every answer to an authentication was right at some moment of the call
\* (AuthExplained).
THEOREM AnswersExplained == Spec => AuthExplained
<1>1. RInv /\ [Next]_vars =>
        [\A c \in Requesters : Answers(c, "auth") => Explained(c)]_vars
  BY AnswerExplained
<1> QED
  BY <1>1, RegistryInvariant, PTL DEF Spec, AuthExplained, Explained

-----------------------------------------------------------------------------
(* Listings.                                                               *)

\* A listing under way has seen the set of rows it goes through (the SELECT's),
\* and every row it has fetched or is to fetch.
Listing(c) ==
    /\ seen[c] \in [rows : SUBSET SUBSET Keys, totals : {{}}]
    /\ call[c].op = "list" => call[c].pc \in {"write", "items"}
    /\ call[c].op = "list" /\ call[c].pc = "write" => call[c].todo \cup call[c].items = {}
    /\ call[c].op = "list" /\ call[c].pc = "items" =>
         /\ \E w \in seen[c].rows : w \subseteq call[c].todo \cup call[c].items
         /\ \A k \in call[c].todo \cup call[c].items : \E w \in seen[c].rows : k \in w

LInv == RInv /\ \A c \in Operators : Listing(c)

\* What an operator's call has seen after a step.
LEMMA SeenByOperator ==
    ASSUME RInv', Watch, NEW c \in Operators, Listing(c)
    PROVE  /\ seen'[c] \in [rows : SUBSET SUBSET Keys, totals : {{}}]
           /\ call'[c].op = "list" /\ call'[c].pc # "idle" =>
                seen'[c].rows = seen[c].rows \cup {Present(row')}
<1> DEFINE Seen == [rows : SUBSET SUBSET Keys, totals : {{}}]
           x == call'[c]
<1> c \in Calls
  BY DEF Calls
<1>1. seen'[c] = IF x.pc = "idle" THEN Unseen ELSE Witness(seen[c], x, row', used')
  BY DEF Watch
<1>2. seen[c] \in Seen /\ Unseen \in Seen /\ Present(row') \in SUBSET Keys
  BY DEF Listing, Unseen, Present
<1>3. x.pc # "idle" => x.op # "auth"
  BY DEF RInv, Informed, Shaped, Operations
<1> HIDE DEF x
<1>4. CASE x.pc = "idle"
  BY <1>1, <1>2, <1>4 DEF x
<1>5. CASE x.pc # "idle" /\ x.op = "list"
  <2>1. seen'[c] = [seen[c] EXCEPT !.rows = @ \cup {Present(row')}]
    BY <1>1, <1>5 DEF Witness
  <2>2. seen[c].rows \cup {Present(row')} \in SUBSET SUBSET Keys
    BY <1>2
  <2> QED
    BY <1>2, <2>1, <2>2
<1>6. CASE x.pc # "idle" /\ x.op # "list"
  <2>1. seen'[c] = seen[c]
    BY <1>1, <1>3, <1>6 DEF Witness
  <2> QED
    BY <1>2, <1>6, <2>1 DEF x
<1> QED
  BY <1>4, <1>5, <1>6

\* A listing that goes on stays sound when it has no more to fetch and no more
\* fetched than before, and no row is forgotten.
LEMMA ListingGoesOn ==
    ASSUME RInv', Watch, NEW c \in Operators, Listing(c),
           call'[c].op = "list" => /\ call[c].op = "list"
                                   /\ call'[c].pc = call[c].pc
                                   /\ call'[c].todo \cup call'[c].items
                                        = call[c].todo \cup call[c].items
    PROVE  Listing(c)'
<1>1. seen'[c] \in [rows : SUBSET SUBSET Keys, totals : {{}}]
  BY SeenByOperator
<1>2. CASE call'[c].op = "list"
  <2>1. call'[c].pc \in {"write", "items"}
    BY <1>2 DEF Listing
  <2>2. seen'[c].rows = seen[c].rows \cup {Present(row')}
    BY <1>2, <2>1, SeenByOperator
  <2> QED
    BY <1>1, <1>2, <2>1, <2>2 DEF Listing
<1>3. CASE call'[c].op # "list"
  BY <1>1, <1>3 DEF Listing
<1> QED
  BY <1>2, <1>3

LEMMA ListingByStep ==
    ASSUME RInv, RInv', Watch, NEW c \in Operators, Listing(c), OperatorStep(c)
    PROVE  Listing(c)'
<1> c \in Calls
  BY DEF Calls
<1> TypeOK
  BY DEF RInv
<1>0. seen'[c] \in [rows : SUBSET SUBSET Keys, totals : {{}}]
  BY SeenByOperator
<1>a. ASSUME NEW answer, NEW items, AnswerWith(c, answer, items)
      PROVE  Listing(c)'
  <2>1. call'[c] = Idle
    BY <1>a DEF AnswerWith, TypeOK
  <2> QED
    BY <2>1, ListingGoesOn DEF Idle
<1>g. ASSUME NEW pc, Goto(c, pc), call[c].op # "list"
      PROVE  Listing(c)'
  <2>1. call'[c].op = call[c].op
    BY <1>g, CallsTyped DEF Goto, TypeOK, Call
  <2> QED
    BY <1>g, <2>1, ListingGoesOn
<1>1. ASSUME NEW op \in Operations, Begin(c, op)
      PROVE  Listing(c)'
  <2>1. /\ call'[c].op = op /\ (op = "list" => call'[c].pc = "write")
        /\ call'[c].todo = {} /\ call'[c].items = {}
    BY <1>1 DEF Begin, TypeOK, Idle
  <2> QED
    BY <1>0, <2>1 DEF Listing
<1>2. CASE Add(c) \/ Update(c) \/ ResetRead(c)
  <2>1. call[c].op # "list"
    BY <1>2 DEF Add, Update, ResetRead
  <2> QED
    BY <1>2, <1>a, <1>g, <2>1 DEF Add, Update, ResetRead, Answer
<1>3. CASE Get(c) \/ Delete(c) \/ ListEnd(c) \/ ResetDelete(c)
  BY <1>3, <1>a DEF Get, Delete, ListEnd, ResetDelete, Answer
<1>4. CASE List(c)
  <2>1. call[c].op = "list" /\ row' = row
          /\ call'[c] = [call[c] EXCEPT !.pc = "items", !.todo = Present(row)]
    BY <1>4 DEF List, At, TypeOK
  <2>2. call'[c].op = "list" /\ call'[c].pc = "items" /\ call'[c].todo = Present(row')
          /\ call'[c].items = call[c].items
    BY <2>1, CallsTyped DEF Call
  <2>3. seen'[c].rows = seen[c].rows \cup {Present(row')}
    BY <2>2, SeenByOperator
  <2>4. call[c].items = {}
    BY <1>4 DEF List, At, Listing
  <2> QED
    BY <1>0, <2>2, <2>3, <2>4 DEF Listing
<1>5. CASE ListItem(c)
  <2>1. PICK k \in call[c].todo :
          IF row[k] = Null THEN Answer(c, "no_rows")
          ELSE /\ call' = [call EXCEPT ![c] =
                             [@ EXCEPT !.todo = call[c].todo \ {k},
                                       !.items = call[c].items \cup {k}]]
               /\ reply' = Null
    BY <1>5 DEF ListItem
  <2>2. CASE row[k] = Null
    BY <2>1, <2>2, <1>a DEF Answer
  <2>3. CASE row[k] # Null
    <3>1. call'[c] = [call[c] EXCEPT !.todo = call[c].todo \ {k},
                                     !.items = call[c].items \cup {k}]
      BY <2>1, <2>3 DEF TypeOK
    <3>2. call'[c].op = call[c].op /\ call'[c].pc = call[c].pc
            /\ call'[c].todo = call[c].todo \ {k}
            /\ call'[c].items = call[c].items \cup {k}
      BY <3>1, CallsTyped DEF Call
    <3>3. call'[c].todo \cup call'[c].items = call[c].todo \cup call[c].items
      BY <3>2
    <3> QED
      BY <3>2, <3>3, ListingGoesOn
  <2> QED
    BY <2>2, <2>3
<1> QED
  BY <1>1, <1>2, <1>3, <1>4, <1>5 DEF OperatorStep

LEMMA NextLInv ==
    ASSUME LInv, Next
    PROVE  LInv'
<1> RInv /\ TypeOK /\ Watch
  BY NextCases DEF LInv, RInv
<1>1. RInv'
  BY NextRInv
<1>2. ASSUME NEW d \in Operators
      PROVE  Listing(d)'
  <2> d \in Calls /\ Listing(d)
    BY DEF Calls, LInv
  <2>a. ASSUME call'[d] = call[d]
        PROVE  Listing(d)'
    BY <1>1, <2>a, ListingGoesOn
  <2>1. ASSUME NEW c \in Requesters, AuthStep(c)
        PROVE  Listing(d)'
    BY <2>1, <2>a, OthersStay, KeysOfCalls
  <2>2. ASSUME NEW c \in Operators, OperatorStep(c)
        PROVE  Listing(d)'
    <3> c \in Calls
      BY DEF Calls
    <3> QED
      BY <1>1, <2>2, <2>a, OthersStay, ListingByStep
  <2>3. ASSUME NEW c \in Calls, Fail(c)
        PROVE  Listing(d)'
    <3>1. CASE c = d
      <4>1. call'[d] = Idle
        BY <2>3, <3>1 DEF Fail, Answer, AnswerWith, TypeOK
      <4> QED
        BY <1>1, <4>1, ListingGoesOn DEF Idle
    <3>2. CASE c # d
      BY <2>3, <2>a, <3>2, OthersStay
    <3> QED
      BY <3>1, <3>2
  <2> QED
    BY <2>1, <2>2, <2>3, NextCases
<1> QED
  BY <1>1, <1>2 DEF LInv

LEMMA ListingInvariant == Spec => []LInv
<1>1. Init => LInv
  <2> SUFFICES ASSUME Init
               PROVE  LInv
    OBVIOUS
  <2>1. ASSUME NEW c \in Operators
        PROVE  Listing(c)
    BY DEF Calls, Init, Listing, Idle, Unseen
  <2> QED
    BY <2>1, InitRInv DEF LInv
<1>2. LInv /\ [Next]_vars => LInv'
  <2>1. ASSUME LInv, UNCHANGED vars
        PROVE  LInv'
    BY <2>1, StutterRInv DEF LInv, Listing, vars
  <2> QED
    BY <2>1, NextLInv
<1> QED
  BY <1>1, <1>2, PTL DEF Spec

\* What ListWhole says of the answer of operator c.
Whole(c) ==
    LET W == Witnessed(c).rows
        always == {k \in Keys : \A w \in W : k \in w}
        ever == {k \in Keys : \E w \in W : k \in w}
    IN  /\ reply'.answer = "ok" =>
             always \subseteq reply'.items /\ reply'.items \subseteq ever
        /\ reply'.answer = "no_rows" => always # ever

LEMMA ListingAnswers ==
    ASSUME LInv, Next, NEW c \in Operators, Answers(c, "list")
    PROVE  Whole(c)
<1> TypeOK /\ Listing(c) /\ c \in Calls
  BY DEF LInv, RInv, Calls
<1> DEFINE W == seen[c].rows \cup {Present(row')}
           x == call[c]
<1>1. Witnessed(c).rows = W
  BY DEF Answers, Witnessed, Witness, Listing
<1>2. reply' # Null /\ reply'.to = c /\ x.op = "list"
  BY DEF Answers
<1>3. ListItem(c) \/ ListEnd(c) \/ Fail(c)
  <2>0. ASSUME NEW d, d # c, NEW answer, NEW items, AnswerWith(d, answer, items)
        PROVE  FALSE
    BY <1>2, <2>0 DEF AnswerWith
  <2>1. ASSUME NEW d \in Requesters, AuthStep(d)
        PROVE  FALSE
    <3> d # c
      BY KeysOfCalls
    <3> QED
      BY <1>2, <2>0, <2>1 DEF AuthStep, BeginAuth, ReadKey, InsertUnknown, CheckTotals,
                              Spend, Goto, Answer
  <2>2. ASSUME NEW d \in Operators, OperatorStep(d)
        PROVE  ListItem(c) \/ ListEnd(c)
    <3>1. CASE d # c
      BY <1>2, <2>0, <2>2, <3>1 DEF OperatorStep, Begin, Add, Update, Get, Delete, List,
            ListItem, ListEnd, ResetRead, ResetDelete, Goto, Answer
    <3>2. CASE d = c
      BY <1>2, <2>2, <3>2 DEF OperatorStep, Begin, Add, Update, Get, Delete, List,
            ResetRead, ResetDelete, At, Listing
    <3> QED
      BY <3>1, <3>2
  <2>3. ASSUME NEW d \in Calls, Fail(d)
        PROVE  Fail(c)
    BY <2>0, <2>3 DEF Fail, Answer
  <2> QED
    BY <2>1, <2>2, <2>3, NextCases
<1> HIDE DEF W
<1>4. CASE ListItem(c)
  <2>1. PICK k \in x.todo :
          IF row[k] = Null THEN Answer(c, "no_rows") ELSE reply' = Null
    BY <1>4 DEF ListItem
  <2>2. row[k] = Null /\ reply'.answer = "no_rows" /\ row' = row /\ x.pc = "items"
    BY <1>2, <1>4, <2>1 DEF ListItem, Answer, AnswerWith, At
  <2>3. k \in Keys /\ k \notin Present(row')
    BY <2>2, CallsTyped DEF Present
  <2>4. \E w \in seen[c].rows : k \in w
    BY <1>2, <2>2 DEF Listing
  <2> QED
    BY <1>1, <2>2, <2>3, <2>4 DEF Whole, W
<1>5. CASE ListEnd(c)
  <2>1. /\ x.pc = "items" /\ x.todo = {}
        /\ reply'.answer = "ok" /\ reply'.items = x.items
    BY <1>5 DEF ListEnd, AnswerWith, At
  <2>2. PICK w \in seen[c].rows : w \subseteq x.items
    BY <1>2, <2>1 DEF Listing
  <2>3. \A k \in x.items : k \in Keys /\ \E v \in seen[c].rows : k \in v
    BY <1>2, <2>1, CallsTyped DEF Listing
  <2> QED
    BY <1>1, <2>1, <2>2, <2>3 DEF Whole, W
<1>6. CASE Fail(c)
  BY <1>6 DEF Fail, Answer, AnswerWith, Whole
<1> QED
  BY <1>3, <1>4, <1>5, <1>6

\* A listing is complete, or fails because a key it had seen is gone
\* (ListWhole).
THEOREM ListingsWhole == Spec => ListWhole
<1>1. LInv /\ [Next]_vars =>
        [\A c \in Operators : Answers(c, "list") => Whole(c)]_vars
  BY ListingAnswers
<1> QED
  BY <1>1, ListingInvariant, PTL DEF Spec, ListWhole, Whole

=============================================================================
