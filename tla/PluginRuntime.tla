---------------------------- MODULE PluginRuntime ----------------------------
(***************************************************************************)
(* The life of the plugin's Stores: configure loads the secret, opens a    *)
(* new Store on the same database and puts it in place of the old one,     *)
(* which it closes under handlers that still hold it; Shutdown takes the   *)
(* Store away; the process may stop anywhere and start again.  Meanwhile   *)
(* handlers run CurrentPeriod and ObserveUpstreamWeeklyReset on the Store  *)
(* of their snapshot: a SELECT and an UPDATE of the one cycle row, under   *)
(* the quotaMu of that Store, which says nothing to the other Store.       *)
(*                                                                         *)
(* Both configurations have weekly quotas, one database and one secret     *)
(* file.  The stream map configure empties is in StreamUsage.              *)
(***************************************************************************)
EXTENDS Integers, FiniteSets

CONSTANTS
    Stores, Admins, Callers,
    Secrets,       \* what loadSecret may draw, and the environment may hold
    ResetTimes,    \* the weekly boundaries the upstream may announce
    CalendarLen,   \* length of a calendar period
    MaxTime,       \* bound on the clock
    MaxLag,        \* bound on the age of a handler's `now` when it is used
    MaxConfigures, \* bound on the calls of configure
    Null

ASSUME PluginRuntimeAssumption ==
    /\ ResetTimes \subseteq Nat
    /\ MaxTime \in Nat /\ MaxLag \in Nat /\ MaxConfigures \in Nat
    /\ \A a, b \in ResetTimes : a < b => b - a > MaxLag
    /\ CalendarLen \in Nat \ {0}
    /\ Null \notin Stores \cup Callers \cup Secrets
    /\ Null \notin Nat

VARIABLES
    cycle,         \* the row of quota_cycle_state
    clock,         \* time.Now()
    env,           \* the secret in the environment
    file,          \* the secret in the file; Null when missing or empty
    current,       \* Runtime.store
    open,          \* Stores whose database handle is not closed
    quotaMu,       \* the holder of each Store's quotaMu
    admin,         \* the calls of configure and Shutdown
    caller,        \* the handlers
    configures,    \* the calls of configure so far
    secrets,       \* history: the secrets keys have been hashed with
    clean,         \* history: no unreadable file, no two secrets drawn at once
    overlap        \* history: callers of two Stores hold their quotaMu, or did
                   \* when one that still holds it began

database == <<cycle, clock>>
stores   == <<env, file, current, open, secrets, clean>>
locks    == <<quotaMu, overlap>>
vars     == <<database, stores, locks, admin, caller, configures>>

\* The cycle row as the SELECT of a handler saw it.
Seen(c) == INSTANCE WeeklyCycle WITH
    cycle <- caller[c].seen, Weekly <- TRUE, ZoneOffset <- 0

Cycle == INSTANCE WeeklyCycle WITH Weekly <- TRUE, ZoneOffset <- 0

ASSUME NullIsNoRow == Null \notin Cycle!Row

Admin == [pc     : {"idle", "load", "write", "fill", "open", "swap", "close"},
          secret : Secrets \cup {Null},
          store  : Stores \cup {Null}]    \* the new one, then the old one

Caller == [pc    : {"idle", "lock", "read", "update"},
           store : Stores \cup {Null},
           now   : 0 .. MaxTime,
           reset : ResetTimes \cup {Null},   \* the header; Null for a lookup
           seen  : Cycle!Row \cup {Null}]

TypeOK ==
    /\ cycle \in Cycle!Row \cup {Null}
    /\ clock \in 0 .. MaxTime
    /\ env \in Secrets \cup {Null} /\ file \in Secrets \cup {Null}
    /\ current \in Stores \cup {Null}
    /\ open \subseteq Stores
    /\ quotaMu \in [Stores -> Callers \cup {Null}]
    /\ admin \in [Admins -> Admin]
    /\ caller \in [Callers -> Caller]
    /\ configures \in 0 .. MaxConfigures
    /\ secrets \subseteq Secrets
    /\ clean \in BOOLEAN /\ overlap \in BOOLEAN

NoAdmin == [pc |-> "idle", secret |-> Null, store |-> Null]

NoCaller == [pc |-> "idle", store |-> Null, now |-> 0, reset |-> Null, seen |-> Null]

Init ==
    /\ cycle = Null
    /\ clock = 0
    /\ env \in Secrets \cup {Null}
    /\ file = Null
    /\ current = Null
    /\ open = {}
    /\ quotaMu = [s \in Stores |-> Null]
    /\ admin = [a \in Admins |-> NoAdmin]
    /\ caller = [c \in Callers |-> NoCaller]
    /\ configures = 0
    /\ secrets = {}
    /\ clean = TRUE
    /\ overlap = FALSE

-----------------------------------------------------------------------------
(* configure, Shutdown and the end of the process.                         *)

Doing(a, pc) == admin[a].pc = pc

\* Load has accepted the YAML; otherwise configure returns at once.
BeginConfigure(a) ==
    /\ Doing(a, "idle")
    /\ configures < MaxConfigures
    /\ configures' = configures + 1
    /\ admin' = [admin EXCEPT ![a].pc = "load"]
    /\ UNCHANGED <<database, stores, locks, caller>>

\* loadSecret: the environment, then the file.
LoadSecret(a) ==
    LET found == IF env # Null THEN env ELSE file
    IN  /\ Doing(a, "load")
        /\ found # Null
        /\ admin' = [admin EXCEPT ![a] = [@ EXCEPT !.pc = "open", !.secret = found]]
        /\ UNCHANGED <<database, stores, locks, caller, configures>>

Drawn == secrets \cup {file} \cup {admin[a].secret : a \in Admins}

\* The file is empty or cannot be read, for whatever reason: a new secret.
DrawSecret(a) ==
    /\ Doing(a, "load")
    /\ env = Null
    /\ \E secret \in Secrets \ Drawn :
         admin' = [admin EXCEPT ![a] = [@ EXCEPT !.pc = "write", !.secret = secret]]
    /\ clean' = (clean /\ file = Null
                   /\ \A b \in Admins : admin[b].pc \notin {"write", "fill"})
    /\ UNCHANGED <<database, env, file, current, open, secrets,
                   locks, caller, configures>>

\* os.WriteFile: the file is truncated, then filled.
TruncateFile(a) ==
    /\ Doing(a, "write")
    /\ file' = Null
    /\ admin' = [admin EXCEPT ![a].pc = "fill"]
    /\ UNCHANGED <<database, env, current, open, secrets, clean,
                   locks, caller, configures>>

\* Mutated form: an error of WriteFile is ignored.
FillFile_Mutant(a) ==
    /\ Doing(a, "fill")
    /\ file' \in {admin[a].secret, file}
    /\ admin' = [admin EXCEPT ![a].pc = "open"]
    /\ UNCHANGED <<database, env, current, open, secrets, clean,
                   locks, caller, configures>>

FillFile(a) ==
    /\ Doing(a, "fill")
    /\ file' = admin[a].secret
    /\ admin' = [admin EXCEPT ![a].pc = "open"]
    /\ UNCHANGED <<database, env, current, open, secrets, clean,
                   locks, caller, configures>>

Held == {admin[a].store : a \in Admins} \cup {caller[c].store : c \in Callers}

\* store.Open.  (A Store nobody holds stands for a new one.)
OpenStore(a) ==
    /\ Doing(a, "open")
    /\ \E s \in Stores \ (open \cup Held) :
         /\ open' = open \cup {s}
         /\ admin' = [admin EXCEPT ![a] = [NoAdmin EXCEPT !.pc = "swap", !.store = s]]
    /\ secrets' = secrets \cup {admin[a].secret}
    /\ UNCHANGED <<database, env, file, current, clean, locks, caller, configures>>

\* Mutated form: the old Store is dropped without being closed.
Swap_Mutant(a) ==
    /\ Doing(a, "swap")
    /\ current' = admin[a].store
    /\ admin' = [admin EXCEPT ![a] = NoAdmin]
    /\ UNCHANGED <<database, env, file, open, secrets, clean, locks,
                   caller, configures>>

\* Under r.mu: the new Store in, the old one out.
Swap(a) ==
    /\ Doing(a, "swap")
    /\ current' = admin[a].store
    /\ admin' = [admin EXCEPT ![a] = [@ EXCEPT !.pc = "close", !.store = current]]
    /\ UNCHANGED <<database, env, file, open, secrets, clean, locks,
                   caller, configures>>

CloseOld(a) ==
    /\ Doing(a, "close")
    /\ open' = open \ {admin[a].store}
    /\ admin' = [admin EXCEPT ![a] = NoAdmin]
    /\ UNCHANGED <<database, env, file, current, secrets, clean,
                   locks, caller, configures>>

\* The file or the database cannot be written: the old Store stays.
ConfigureFails(a) ==
    /\ admin[a].pc \in {"load", "write", "fill", "open"}
    /\ admin' = [admin EXCEPT ![a] = NoAdmin]
    /\ UNCHANGED <<database, stores, locks, caller, configures>>

\* A short write leaves the beginning of the secret, which is a secret to the
\* next configure.
ShortWrite(a) ==
    /\ Doing(a, "fill")
    /\ file' \in Secrets \ Drawn
    /\ admin' = [admin EXCEPT ![a] = NoAdmin]
    /\ UNCHANGED <<database, env, current, open, secrets, clean,
                   locks, caller, configures>>

Shutdown(a) ==
    /\ Doing(a, "idle")
    /\ current # Null
    /\ current' = Null
    /\ admin' = [admin EXCEPT ![a] = [@ EXCEPT !.pc = "close", !.store = current]]
    /\ UNCHANGED <<database, env, file, open, secrets, clean, locks,
                   caller, configures>>

\* The process stops; the database and the file are what is left.
Crash ==
    /\ current' = Null
    /\ open' = {}
    /\ quotaMu' = [s \in Stores |-> Null] /\ overlap' = FALSE
    /\ admin' = [a \in Admins |-> NoAdmin]
    /\ caller' = [c \in Callers |-> NoCaller]
    /\ UNCHANGED <<database, env, file, configures, secrets, clean>>

-----------------------------------------------------------------------------
(* Handlers on the cycle row.                                              *)

Tick ==
    /\ clock < MaxTime
    /\ \A c \in Callers : caller[c].pc # "idle" => clock - caller[c].now < MaxLag
    /\ clock' = clock + 1
    /\ UNCHANGED <<cycle, stores, locks, admin, caller, configures>>

\* snapshot() and time.Now(); a boundary that is not ahead is ignored at once.
Snapshot(c) ==
    /\ caller[c].pc = "idle"
    /\ current # Null
    /\ \E reset \in {b \in ResetTimes : b > clock} \cup {Null} :
         caller' = [caller EXCEPT ![c] =
             [pc |-> "lock", store |-> current, now |-> clock, reset |-> reset,
              seen |-> Null]]
    /\ UNCHANGED <<database, stores, locks, admin, configures>>

\* Mutated form: each call has a mutex of its own.
MayLock_Mutant(s) == TRUE

MayLock(s) == quotaMu[s] = Null

Lock(c) ==
    /\ caller[c].pc = "lock"
    /\ MayLock(caller[c].store)
    /\ quotaMu' = [quotaMu EXCEPT ![caller[c].store] = c]
    /\ overlap' = (overlap \/ \E s \in Stores \ {caller[c].store} : quotaMu[s] # Null)
    /\ caller' = [caller EXCEPT ![c].pc = "read"]
    /\ UNCHANGED <<database, stores, admin, configures>>

Return(c) ==
    /\ quotaMu' = [quotaMu EXCEPT ![caller[c].store] = Null]
    /\ overlap' = (overlap /\ \E d \in Callers \ {c} : caller[d].pc \in {"read", "update"})
    /\ caller' = [caller EXCEPT ![c] = NoCaller]

Usable(c) == caller[c].store \in open

\* Whether the row that was read calls for a write.
Writes(c) ==
    LET x == caller[c]
    IN  IF x.reset = Null THEN Seen(c)!Due(x.now)
        ELSE IF x.seen = Null THEN TRUE
        ELSE x.seen.next # Null => Seen(c)!LaterBoundary(x.reset)

Read(c) ==
    /\ caller[c].pc = "read"
    /\ Usable(c)
    /\ caller' = [caller EXCEPT ![c] = [@ EXCEPT !.pc = "update", !.seen = cycle]]
    /\ UNCHANGED <<database, stores, locks, admin, configures>>

NoWrite(c) ==
    /\ caller[c].pc = "update"
    /\ ~Writes(c)
    /\ Return(c)
    /\ UNCHANGED <<database, stores, admin, configures>>

\* Mutated form: the whole row is written from what was read.
Boundary_Mutant(c) == [caller[c].seen EXCEPT !.next = caller[c].reset]

\* The UPDATE of next_reset_at alone.
Boundary(c) == [cycle EXCEPT !.next = caller[c].reset]

\* The INSERT or UPDATE, of the columns each branch names.
Update(c) ==
    LET x == caller[c]
        applies == x.seen # Null /\ Seen(c)!Due(x.now)
    IN  /\ x.pc = "update"
        /\ Usable(c)
        /\ Writes(c)
        /\ cycle' =
             CASE x.seen = Null /\ cycle = Null ->
                     [period |-> Cycle!ConfigPeriod(x.now), next |-> x.reset,
                      prev |-> Null, started |-> Null]
               [] x.seen = Null /\ cycle # Null -> cycle    \* the key is taken
               [] applies -> [Seen(c)!Rolled EXCEPT !.next = x.reset]
               [] OTHER -> Boundary(c)
        /\ Return(c)
        /\ UNCHANGED <<clock, stores, admin, configures>>

\* A statement on a closed handle, or one that fails.
Closed(c) ==
    /\ caller[c].pc \in {"read", "update"}
    /\ ~Usable(c)
    /\ Return(c)
    /\ UNCHANGED <<database, stores, admin, configures>>

Configure(a) ==
    \/ LoadSecret(a) \/ DrawSecret(a) \/ TruncateFile(a) \/ FillFile(a)
    \/ OpenStore(a) \/ Swap(a) \/ CloseOld(a)
    \/ ConfigureFails(a) \/ ShortWrite(a)

Call(c) == Lock(c) \/ Read(c) \/ NoWrite(c) \/ Update(c) \/ Closed(c)

Next ==
    \/ \E a \in Admins : BeginConfigure(a) \/ Configure(a) \/ Shutdown(a)
    \/ \E c \in Callers : Snapshot(c) \/ Call(c)
    \/ Tick \/ Crash

Spec == Init /\ [][Next]_vars

-----------------------------------------------------------------------------
(* Properties.                                                             *)

\* No handle is leaked and none is closed in place: the open Stores are the one
\* in place and those an unfinished configure or Shutdown has yet to install
\* or to close, whatever failed and however the calls overlapped
\* (runtime.go:86-128).
StoresOwned ==
    /\ open = ({current} \cup {admin[a].store : a \in Admins}) \ {Null}
    /\ \A a \in Admins : admin[a].store # Null => admin[a].store # current
    /\ \A a, b \in Admins :
         a # b /\ admin[a].store # Null => admin[a].store # admin[b].store

\* Keys are hashed with one secret for ever, through failed writes of its file
\* and crashes in the middle of one: a key on file stays known.  Two things do
\* draw a second secret, a file that is there and cannot be read, and two first
\* configures at once (store.go:595-619).
SecretKept == clean => Cardinality(secrets) <= 1

\* "The store serializes reads and transitions of this singleton state with one
\* mutex": a boundary that was learned is not forgotten before it is applied,
\* nor replaced by an earlier one, unless callers of two Stores met.
LearnedBoundaryKept ==
    [][cycle # Null /\ cycle.next # Null /\ ~overlap
         => \/ cycle'.next # Null /\ cycle'.next >= cycle.next
            \/ cycle'.started = cycle.next]_vars

\* The current period never moves back, unless callers of two Stores met; and
\* even those never take an applied boundary away altogether.
StartNotLost ==
    [][cycle # Null /\ cycle.started # Null
         => /\ cycle'.started # Null
            /\ ~overlap => cycle'.started >= cycle.started]_vars
=============================================================================
