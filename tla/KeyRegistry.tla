----------------------------- MODULE KeyRegistry -----------------------------
(***************************************************************************)
(* The registry of downstream keys, api_keys.  Requests authenticate, and  *)
(* register the keys nobody has seen before; operators add, update, delete *)
(* and list keys and reset their usage through the management routes.      *)
(* Each call is several statements with no lock around them, so any two    *)
(* calls interleave between statements.                                    *)
(*                                                                         *)
(* There is one quota period here (QuotaGuard and QuotaCycle are about its *)
(* change), and the totals a management answer shows beside the key are    *)
(* left out.                                                               *)
(***************************************************************************)
EXTENDS Integers, FiniteSets

CONSTANTS
    Keys,          \* downstream keys, by their hash
    Requesters,    \* goroutines that authenticate requests
    KeyOf,         \* the key a requester presents
    Operators,     \* goroutines of the management routes
    Limits,        \* the limits operators set
    Bodies,        \* monthly_token_limit and status of POST and PATCH bodies
    DefaultLimit,  \* cfg.DefaultMonthlyTokenLimit
    MaxUsed,       \* bound on the totals
    MaxCalls,      \* bound on the calls of operators
    Null           \* SQL NULL, or no row

Status == {"pending", "active", "disabled"}

Row == [limit : Limits \cup {Null}, status : Status]

ASSUME KeyRegistryAssumption ==
    /\ Limits \subseteq Nat
    /\ Bodies \subseteq [limit : Limits \cup {Null}, status : Status \cup {""}]
    /\ DefaultLimit \in Limits \cup {Null}
    /\ MaxUsed \in Nat
    /\ MaxCalls \in Nat
    /\ KeyOf \in [Requesters -> Keys]
    /\ Requesters \cap Operators = {}
    /\ Null \notin Nat
    /\ Null \notin Row

VARIABLES
    cfg,           \* unknown_key_registration and unknown_key_access
    row,           \* api_keys
    used,          \* monthly_usage of the period; no call deletes it with a key
    call,          \* the handlers
    calls,         \* the number of calls operators have begun
    reply,         \* what the last step returned to the host, Null for nothing
    approved,      \* history: the keys an operator made active
    seen           \* history: what a running call might have read so far

vars == <<cfg, row, used, call, calls, reply, approved, seen>>

Calls == Requesters \cup Operators

Operations == {"add", "update", "delete", "list", "reset"}

Call ==
    [op     : Operations \cup {"auth"},
     key    : Keys \cup {Null},
     pc     : {"idle", "read", "insert", "totals", "write", "get", "items"},
     args   : Bodies \cup {Null},
     limit  : Limits \cup {Null},      \* as AuthenticateKey read it
     todo   : SUBSET Keys,             \* rows a listing has yet to fetch
     items  : SUBSET Keys]             \* the keys a listing holds

Reply ==
    [to     : Calls,
     answer : Status \cup {"ok", "unknown_key", "over_quota", "conflict",
                           "already_exists", "not_found", "no_rows", "failed"},
     items  : SUBSET Keys]             \* the keys the answer lists

TypeOK ==
    /\ cfg \in [registration : BOOLEAN, access : {"deny", "allow"}]
    /\ row \in [Keys -> Row \cup {Null}]
    /\ used \in [Keys -> 0 .. MaxUsed]
    /\ call \in [Calls -> Call]
    /\ calls \in 0 .. MaxCalls
    /\ reply \in Reply \cup {Null}
    /\ approved \subseteq Keys

Idle == [op |-> "auth", key |-> Null, pc |-> "idle", args |-> Null, limit |-> Null,
         todo |-> {}, items |-> {}]

Unseen == [rows |-> {}, totals |-> {}]

Init ==
    /\ cfg \in [registration : BOOLEAN, access : {"deny", "allow"}]
    /\ row \in [Keys -> {Null, [limit |-> Null, status |-> "pending"]}]
    /\ used = [k \in Keys |-> 0]
    /\ call = [c \in Calls |-> Idle]
    /\ calls = 0
    /\ reply = Null
    /\ approved = {}
    /\ seen = [c \in Calls |-> Unseen]

Present(rows) == {k \in Keys : rows[k] # Null}

\* What a call has seen, and the database as far as it concerns the call.
Witness(w, x, rows, totals) ==
    CASE x.op = "auth" -> [rows   |-> w.rows \cup {rows[x.key]},
                           totals |-> w.totals \cup {totals[x.key]}]
      [] x.op = "list" -> [w EXCEPT !.rows = @ \cup {Present(rows)}]
      [] OTHER -> w

Watch ==
    seen' = [c \in Calls |->
                IF call'[c].pc = "idle" THEN Unseen
                ELSE Witness(seen[c], call'[c], row', used')]

At(c, pc) == call[c].pc = pc

Goto(c, pc) == call' = [call EXCEPT ![c].pc = pc] /\ reply' = Null

AnswerWith(c, answer, items) ==
    /\ call' = [call EXCEPT ![c] = Idle]
    /\ reply' = [to |-> c, answer |-> answer, items |-> items]

Answer(c, answer) == AnswerWith(c, answer, {})

-----------------------------------------------------------------------------
(* AuthenticateKey.                                                        *)

BeginAuth(c) ==
    /\ At(c, "idle")
    /\ call' = [call EXCEPT ![c] = [Idle EXCEPT !.pc = "read", !.key = KeyOf[c]]]
    /\ reply' = Null
    /\ UNCHANGED <<cfg, calls, row, used, approved>>

\* The answer to a key that has no row.
Unknown == IF cfg.access = "allow" THEN "ok" ELSE "unknown_key"

ReadKey(c) ==
    LET found == row[call[c].key]
    IN  /\ At(c, "read")
        /\ \/ found = Null /\ cfg.registration /\ Goto(c, "insert")
           \/ found = Null /\ ~cfg.registration /\ Answer(c, Unknown)
           \/ found # Null /\ found.status # "active" /\ Answer(c, found.status)
           \/ /\ found # Null /\ found.status = "active"
              /\ call' = [call EXCEPT ![c] = [@ EXCEPT !.pc = "totals",
                                                       !.limit = found.limit]]
              /\ reply' = Null
        /\ UNCHANGED <<cfg, calls, row, used, approved>>

Registered == [limit  |-> DefaultLimit,
               status |-> IF cfg.access = "allow" THEN "active" ELSE "pending"]

\* Mutated form: INSERT OR REPLACE.
InsertUnknown_Mutant(c) ==
    /\ At(c, "insert")
    /\ row' = [row EXCEPT ![call[c].key] = Registered]
    /\ Answer(c, Unknown)
    /\ UNCHANGED <<cfg, calls, used, approved>>

\* A row that has appeared since the SELECT fails the INSERT, and the call.
InsertUnknown(c) ==
    LET k == call[c].key
    IN  /\ At(c, "insert")
        /\ IF row[k] = Null
           THEN row' = [row EXCEPT ![k] = Registered] /\ Answer(c, Unknown)
           ELSE UNCHANGED row /\ Answer(c, "conflict")
        /\ UNCHANGED <<cfg, calls, used, approved>>

\* Mutated form: the limit of the row that was read is not the one compared.
CheckTotals_Mutant(c) ==
    LET limit == DefaultLimit
    IN  /\ At(c, "totals")
        /\ Answer(c, IF limit # Null /\ used[call[c].key] >= limit
                     THEN "over_quota" ELSE "ok")
        /\ UNCHANGED <<cfg, calls, row, used, approved>>

\* PeriodTotals, against the limit read before.
CheckTotals(c) ==
    LET limit == call[c].limit
    IN  /\ At(c, "totals")
        /\ Answer(c, IF limit # Null /\ used[call[c].key] >= limit
                     THEN "over_quota" ELSE "ok")
        /\ UNCHANGED <<cfg, calls, row, used, approved>>

\* RecordUsage, for a request that was admitted; it needs no row.
Spend(k) ==
    /\ used[k] < MaxUsed
    /\ used' = [used EXCEPT ![k] = @ + 1]
    /\ reply' = Null
    /\ UNCHANGED <<cfg, calls, row, call, approved>>

-----------------------------------------------------------------------------
(* The management routes.                                                  *)

Begin(c, op) ==
    /\ At(c, "idle")
    /\ calls < MaxCalls
    /\ calls' = calls + 1
    /\ \E k \in Keys, body \in Bodies :
         call' = [call EXCEPT ![c] =
             [Idle EXCEPT !.op = op,
                          !.pc = IF op = "reset" THEN "read" ELSE "write",
                          !.key = IF op = "list" THEN Null ELSE k,
                          !.args = IF op \in {"add", "update"} THEN body ELSE Null]]
    /\ reply' = Null
    /\ UNCHANGED <<cfg, row, used, approved>>

Approve(k, status) ==
    approved' = IF status = "active" THEN approved \cup {k} ELSE approved \ {k}

\* AddAPIKey: INSERT ... ON CONFLICT DO NOTHING.
Add(c) ==
    LET k == call[c].key
        status == IF call[c].args.status = "" THEN "active" ELSE call[c].args.status
    IN  /\ At(c, "write") /\ call[c].op = "add"
        /\ IF row[k] = Null
           THEN /\ row' = [row EXCEPT ![k] = [limit |-> call[c].args.limit, status |-> status]]
                /\ Approve(k, status)
                /\ Goto(c, "get")
           ELSE /\ Answer(c, "already_exists")
                /\ UNCHANGED <<row, approved>>
        /\ UNCHANGED <<cfg, calls, used>>

\* Mutated form: an empty status is active, as in AddAPIKey.
NewStatus_Mutant(old, status) == IF status = "" THEN "active" ELSE status

\* Mutated form: an empty status is written as it is.
NewStatus_EmptyMutant(old, status) == status

NewStatus(old, status) == IF status = "" THEN old ELSE status

\* UpdateAPIKey: the limit is always set, to NULL when the body has none; no
\* row is no error yet.
Update(c) ==
    LET k == call[c].key
        args == call[c].args
    IN  /\ At(c, "write") /\ call[c].op = "update"
        /\ IF row[k] = Null THEN UNCHANGED <<row, approved>>
           ELSE /\ row' = [row EXCEPT ![k] = [limit |-> args.limit,
                                              status |-> NewStatus(@.status, args.status)]]
                /\ IF args.status = "" THEN UNCHANGED approved ELSE Approve(k, args.status)
        /\ Goto(c, "get")
        /\ UNCHANGED <<cfg, calls, used>>

\* GetAPIKey, after CurrentPeriod: the row as it is by now.
Get(c) ==
    LET found == row[call[c].key]
    IN  /\ At(c, "get")
        /\ Answer(c, IF found = Null THEN "no_rows" ELSE "ok")
        /\ UNCHANGED <<cfg, calls, row, used, approved>>

Delete(c) ==
    LET k == call[c].key
    IN  /\ At(c, "write") /\ call[c].op = "delete"
        /\ row' = [row EXCEPT ![k] = Null]
        /\ approved' = approved \ {k}
        /\ Answer(c, IF row[k] = Null THEN "not_found" ELSE "ok")
        /\ UNCHANGED <<cfg, calls, used>>

\* ListAPIKeys: the rows of one SELECT, then GetAPIKey for one after another.
List(c) ==
    /\ At(c, "write") /\ call[c].op = "list"
    /\ call' = [call EXCEPT ![c] = [@ EXCEPT !.pc = "items", !.todo = Present(row)]]
    /\ reply' = Null
    /\ UNCHANGED <<cfg, calls, row, used, approved>>

\* Mutated form: a row that is gone is skipped, and the rest with it.
ListItem_Mutant(c) ==
    /\ At(c, "items")
    /\ \E k \in call[c].todo :
         call' = [call EXCEPT ![c] =
             IF row[k] = Null THEN [@ EXCEPT !.todo = {}]
             ELSE [@ EXCEPT !.todo = @ \ {k}, !.items = @ \cup {k}]]
    /\ reply' = Null
    /\ UNCHANGED <<cfg, calls, row, used, approved>>

\* A row deleted since the SELECT fails the whole listing.
ListItem(c) ==
    /\ At(c, "items")
    /\ \E k \in call[c].todo :
         IF row[k] = Null THEN Answer(c, "no_rows")
         ELSE /\ call' = [call EXCEPT ![c] = [@ EXCEPT !.todo = call[c].todo \ {k},
                                                        !.items = call[c].items \cup {k}]]
              /\ reply' = Null
    /\ UNCHANGED <<cfg, calls, row, used, approved>>

ListEnd(c) ==
    /\ At(c, "items")
    /\ call[c].todo = {}
    /\ AnswerWith(c, "ok", call[c].items)
    /\ UNCHANGED <<cfg, calls, row, used, approved>>

\* ResetKeyUsage: SELECT 1, CurrentPeriod, DELETE.
ResetRead(c) ==
    /\ At(c, "read") /\ call[c].op = "reset"
    /\ IF row[call[c].key] = Null THEN Answer(c, "not_found") ELSE Goto(c, "write")
    /\ UNCHANGED <<cfg, calls, row, used, approved>>

ResetDelete(c) ==
    /\ At(c, "write") /\ call[c].op = "reset"
    /\ used' = [used EXCEPT ![call[c].key] = 0]
    /\ Answer(c, "ok")
    /\ UNCHANGED <<cfg, calls, row, approved>>

\* Any statement of a call may fail.
Fail(c) ==
    /\ ~At(c, "idle")
    /\ Answer(c, "failed")
    /\ UNCHANGED <<cfg, calls, row, used, approved>>

Next ==
    /\ \/ \E c \in Requesters :
             BeginAuth(c) \/ ReadKey(c) \/ InsertUnknown(c) \/ CheckTotals(c)
               \/ Spend(KeyOf[c])
       \/ \E c \in Operators :
             \/ \E op \in Operations : Begin(c, op)
             \/ Add(c) \/ Update(c) \/ Get(c) \/ Delete(c)
             \/ List(c) \/ ListItem(c) \/ ListEnd(c) \/ ResetRead(c) \/ ResetDelete(c)
       \/ \E c \in Calls : Fail(c)
    /\ Watch

Spec == Init /\ [][Next]_vars

-----------------------------------------------------------------------------
(* Properties.                                                             *)

Answers(c, op) == reply' # Null /\ reply'.to = c /\ call[c].op = op

\* What the call could have read from its first statement to its last.
Witnessed(c) == Witness(seen[c], call[c], row', used')

Active(r) == r # Null /\ r.status = "active"

\* Whatever interleaves, an authentication answers something that was so during
\* the call: it admits a key that was active, or unknown while unknown keys are
\* allowed, and that was below a limit it had; it refuses by a status the key
\* had, or a limit the total had reached; an unknown key is on file afterwards
\* for the operator to see; and it fails on the primary key only if somebody
\* else registered the key meanwhile (store.go:177-224).
AuthExplained ==
    [][\A c \in Requesters : Answers(c, "auth") =>
         LET answer == reply'.answer
             rows == Witnessed(c).rows
             totals == Witnessed(c).totals
         IN  /\ answer = "ok" =>
                  \/ cfg.access = "allow" /\ Null \in rows
                  \/ \E r \in rows : Active(r)
                        /\ (r.limit = Null \/ \E n \in totals : n < r.limit)
             /\ answer \in Status => \E r \in rows : r # Null /\ r.status = answer
             /\ answer = "over_quota" =>
                  \E r \in rows : Active(r) /\ r.limit # Null
                        /\ \E n \in totals : n >= r.limit
             /\ answer = "unknown_key" =>
                  /\ cfg.access = "deny" /\ Null \in rows
                  /\ cfg.registration => rows # {Null}
             /\ answer = "conflict" => Null \in rows /\ rows # {Null}]_vars

\* A key that is on file is changed by the calls of operators only: a first
\* request that lost the race against an operator, or against another first
\* request, leaves the row as it is (store.go:194-204).
OperatorsDecide ==
    [][\A k \in Keys :
         row[k] # Null /\ row'[k] # row[k] =>
             \E c \in Operators :
                 /\ call[c].key = k /\ call[c].op \in {"update", "delete"}
                 /\ call[c].pc = "write" /\ call'[c].pc # "write"]_vars

\* "Unknown keys default to pending and are rejected": where unknown keys are
\* denied, a key is active only if an operator made it so, by name, after the
\* last time it was deleted or disabled.
ActiveByApproval ==
    cfg.access = "deny" =>
        \A k \in Keys : row[k] # Null /\ row[k].status = "active" => k \in approved

\* A listing that succeeds holds every key that was there all the time and none
\* that was not there at any time; one that finds no row for a key it has seen
\* was overtaken by a deletion (store.go:415-434).
ListWhole ==
    [][\A c \in Operators : Answers(c, "list") =>
         LET W == Witnessed(c).rows
             always == {k \in Keys : \A w \in W : k \in w}
             ever == {k \in Keys : \E w \in W : k \in w}
         IN  /\ reply'.answer = "ok" =>
                  always \subseteq reply'.items /\ reply'.items \subseteq ever
             /\ reply'.answer = "no_rows" => always # ever]_vars
=============================================================================
