------------------------- MODULE PluginRuntimeProofs -------------------------
(***************************************************************************)
(* Proofs about PluginRuntime, for any number of Stores, configures and    *)
(* crashes: no database handle is leaked, keys are hashed with one secret, *)
(* and what quotaMu protects of the cycle row.                             *)
(*                                                                         *)
(* Only configure, Shutdown and Crash touch Stores and secrets; a handler  *)
(* reads them (CallersApart).                                              *)
(*                                                                         *)
(* While callers of two Stores have not met, the row a caller read is the  *)
(* row it writes over (ReadAsItIs), and a section is one step of           *)
(* WeeklyCycle.  When they have, only the order within the row is left     *)
(* (RowInOrder), and that is a matter of time, not of the mutex: an        *)
(* applied boundary has passed, one that is stored was ahead of a reading  *)
(* of the clock at most MaxLag old.                                        *)
(***************************************************************************)
EXTENDS PluginRuntime, FiniteSetTheorems, TLAPS

AdminsTyped ==
    /\ admin \in [Admins -> Admin]
    /\ current \in Stores \cup {Null}
    /\ env \in Secrets \cup {Null}
    /\ file \in Secrets \cup {Null}

\* A call holds a Store from OpenStore on, and the old one after Swap.
HoldsLate ==
    \A a \in Admins :
        /\ admin[a].pc \in {"idle", "load", "write", "fill", "open"} => admin[a].store = Null
        /\ admin[a].pc = "swap" => admin[a].store # Null

OwnInv == AdminsTyped /\ HoldsLate /\ StoresOwned

\* A secret in the environment is the only one.
EnvironmentRules ==
    env # Null =>
        /\ secrets \subseteq {env}
        /\ \A a \in Admins : /\ admin[a].pc \notin {"write", "fill"}
                             /\ admin[a].pc = "open" => admin[a].secret = env

\* Otherwise the file's is, and while it is written nobody has used one.
FileRules ==
    env = Null /\ clean =>
        /\ secrets \subseteq {file}
        /\ file = Null => secrets = {}
        /\ \A a \in Admins :
             /\ admin[a].pc = "open" => file # Null /\ admin[a].secret = file
             /\ admin[a].pc \in {"write", "fill"} =>
                  /\ file = Null /\ admin[a].secret # Null
                  /\ \A b \in Admins : admin[b].pc \in {"write", "fill"} => b = a

SecretInv == AdminsTyped /\ EnvironmentRules /\ FileRules

-----------------------------------------------------------------------------
\* A step of configure or Shutdown.
AdminStep(a) == BeginConfigure(a) \/ Configure(a) \/ Shutdown(a)

LEMMA NextCases ==
    ASSUME Next
    PROVE  \/ \E a \in Admins : AdminStep(a)
           \/ Crash
           \/ UNCHANGED <<env, file, current, open, secrets, clean, admin>>
BY DEF Next, AdminStep, Snapshot, Call, Lock, Read, NoWrite, Update, Closed, Tick,
       stores, database

\* The call of a after the step: its fields, and that the others stay.
Becomes(a, pc, secret, store) ==
    /\ admin' \in [Admins -> Admin]
    /\ admin'[a].pc = pc /\ admin'[a].secret = secret /\ admin'[a].store = store
    /\ \A b \in Admins \ {a} : admin'[b] = admin[b]

LEMMA Becoming ==
    ASSUME AdminsTyped, NEW a \in Admins,
           NEW pc \in {"idle", "load", "write", "fill", "open", "swap", "close"},
           NEW secret \in Secrets \cup {Null}, NEW store \in Stores \cup {Null}
    PROVE  /\ admin' = [admin EXCEPT ![a] = NoAdmin] => Becomes(a, "idle", Null, Null)
           /\ admin' = [admin EXCEPT ![a] = [NoAdmin EXCEPT !.pc = pc, !.store = store]]
                => Becomes(a, pc, Null, store)
           /\ admin' = [admin EXCEPT ![a].pc = pc]
                => Becomes(a, pc, admin[a].secret, admin[a].store)
           /\ admin' = [admin EXCEPT ![a] = [@ EXCEPT !.pc = pc, !.secret = secret]]
                => Becomes(a, pc, secret, admin[a].store)
           /\ admin' = [admin EXCEPT ![a] = [@ EXCEPT !.pc = pc, !.store = store]]
                => Becomes(a, pc, admin[a].secret, store)
<1> DEFINE x1 == NoAdmin
           x2 == [NoAdmin EXCEPT !.pc = pc, !.store = store]
           x3 == [admin[a] EXCEPT !.pc = pc]
           x4 == [admin[a] EXCEPT !.pc = pc, !.secret = secret]
           x5 == [admin[a] EXCEPT !.pc = pc, !.store = store]
<1> admin[a] \in Admin
  BY DEF AdminsTyped
<1>1. x1 \in Admin /\ x1.pc = "idle" /\ x1.secret = Null /\ x1.store = Null
  BY DEF NoAdmin, Admin
<1>2. x2 \in Admin /\ x2.pc = pc /\ x2.secret = Null /\ x2.store = store
  BY DEF NoAdmin, Admin
<1>3. x3 \in Admin /\ x3.pc = pc /\ x3.secret = admin[a].secret
        /\ x3.store = admin[a].store
  BY DEF Admin
<1>4. x4 \in Admin /\ x4.pc = pc /\ x4.secret = secret /\ x4.store = admin[a].store
  BY DEF Admin
<1>5. x5 \in Admin /\ x5.pc = pc /\ x5.secret = admin[a].secret /\ x5.store = store
  BY DEF Admin
<1>6. ASSUME NEW x \in Admin, admin' = [admin EXCEPT ![a] = x]
      PROVE  Becomes(a, x.pc, x.secret, x.store)
  BY <1>6 DEF AdminsTyped, Becomes
<1>7. admin' = [admin EXCEPT ![a].pc = pc] => admin' = [admin EXCEPT ![a] = x3]
  OBVIOUS
<1>8. admin' = [admin EXCEPT ![a] = [@ EXCEPT !.pc = pc, !.secret = secret]]
        => admin' = [admin EXCEPT ![a] = x4]
  OBVIOUS
<1>9. admin' = [admin EXCEPT ![a] = [@ EXCEPT !.pc = pc, !.store = store]]
        => admin' = [admin EXCEPT ![a] = x5]
  OBVIOUS
<1> HIDE DEF x1, x2, x3, x4, x5
<1>10. admin' = [admin EXCEPT ![a] = x1] => Becomes(a, "idle", Null, Null)
  BY <1>1, <1>6
<1>11. admin' = [admin EXCEPT ![a] = x2] => Becomes(a, pc, Null, store)
  BY <1>2, <1>6
<1>12. admin' = [admin EXCEPT ![a] = x3] => Becomes(a, pc, admin[a].secret, admin[a].store)
  BY <1>3, <1>6
<1>13. admin' = [admin EXCEPT ![a] = x4] => Becomes(a, pc, secret, admin[a].store)
  BY <1>4, <1>6
<1>14. admin' = [admin EXCEPT ![a] = x5] => Becomes(a, pc, admin[a].secret, store)
  BY <1>5, <1>6
<1> QED
  BY <1>7, <1>8, <1>9, <1>10, <1>11, <1>12, <1>13, <1>14 DEF x1, x2

\* What each step does to Stores and secrets, in the order of the module.
Starts(a) ==
    /\ admin[a].pc = "idle" /\ Becomes(a, "load", admin[a].secret, admin[a].store)
    /\ UNCHANGED <<env, file, current, open, secrets, clean>>

Loads(a) ==
    /\ admin[a].pc = "load" /\ (IF env # Null THEN env ELSE file) # Null
    /\ Becomes(a, "open", IF env # Null THEN env ELSE file, admin[a].store)
    /\ UNCHANGED <<env, file, current, open, secrets, clean>>

Draws(a) ==
    /\ admin[a].pc = "load" /\ env = Null
    /\ \E drawn \in Secrets : Becomes(a, "write", drawn, admin[a].store)
    /\ clean' => clean /\ file = Null
                   /\ \A b \in Admins : admin[b].pc \notin {"write", "fill"}
    /\ UNCHANGED <<env, file, current, open, secrets>>

Truncates(a) ==
    /\ admin[a].pc = "write" /\ file' = Null /\ Becomes(a, "fill", admin[a].secret, admin[a].store)
    /\ UNCHANGED <<env, current, open, secrets, clean>>

Fills(a) ==
    /\ admin[a].pc = "fill" /\ file' = admin[a].secret
    /\ Becomes(a, "open", admin[a].secret, admin[a].store)
    /\ UNCHANGED <<env, current, open, secrets, clean>>

Opens(a) ==
    /\ admin[a].pc = "open" /\ secrets' = secrets \cup {admin[a].secret}
    /\ \E s \in Stores \ (open \cup {admin[b].store : b \in Admins}) :
         Becomes(a, "swap", Null, s) /\ open' = open \cup {s}
    /\ UNCHANGED <<env, file, current, clean>>

Swaps(a) ==
    /\ admin[a].pc = "swap" /\ current' = admin[a].store
    /\ Becomes(a, "close", admin[a].secret, current)
    /\ UNCHANGED <<env, file, open, secrets, clean>>

Closes(a) ==
    /\ admin[a].pc = "close" /\ open' = open \ {admin[a].store} /\ Becomes(a, "idle", Null, Null)
    /\ UNCHANGED <<env, file, current, secrets, clean>>

Fails(a) ==
    /\ admin[a].pc \in {"load", "write", "fill", "open"} /\ Becomes(a, "idle", Null, Null)
    /\ UNCHANGED <<env, file, current, open, secrets, clean>>

WritesShort(a) ==
    /\ admin[a].pc = "fill" /\ file' \in Secrets /\ Becomes(a, "idle", Null, Null)
    /\ UNCHANGED <<env, current, open, secrets, clean>>

ShutsDown(a) ==
    /\ admin[a].pc = "idle" /\ current' = Null /\ Becomes(a, "close", admin[a].secret, current)
    /\ UNCHANGED <<env, file, open, secrets, clean>>

Effect(a) ==
    \/ Starts(a) \/ Loads(a) \/ Draws(a) \/ Truncates(a)
    \/ Fills(a) \/ Opens(a) \/ Swaps(a) \/ Closes(a)
    \/ Fails(a) \/ WritesShort(a) \/ ShutsDown(a)

LEMMA StepEffect ==
    ASSUME AdminsTyped, NEW a \in Admins, AdminStep(a)
    PROVE  Effect(a)
<1> current \in Stores \cup {Null}
  BY DEF AdminsTyped
<1>1. CASE BeginConfigure(a)
  BY <1>1, Becoming DEF BeginConfigure, Doing, stores, Effect, Starts
<1>2. CASE LoadSecret(a)
  <2> DEFINE found == IF env # Null THEN env ELSE file
  <2> found \in Secrets \cup {Null}
    BY DEF AdminsTyped
  <2>1. admin' = [admin EXCEPT ![a] = [@ EXCEPT !.pc = "open", !.secret = found]]
    BY <1>2 DEF LoadSecret
  <2>2. Becomes(a, "open", found, admin[a].store)
    BY <2>1, Becoming
  <2> QED
    BY <1>2, <2>2 DEF LoadSecret, Doing, stores, Effect, Loads
<1>3. CASE DrawSecret(a)
  <2>1. PICK drawn \in Secrets :
          admin' = [admin EXCEPT ![a] = [@ EXCEPT !.pc = "write", !.secret = drawn]]
    BY <1>3 DEF DrawSecret
  <2>2. Becomes(a, "write", drawn, admin[a].store)
    BY <2>1, Becoming
  <2> QED
    BY <1>3, <2>2 DEF DrawSecret, Doing, Effect, Draws
<1>4. CASE TruncateFile(a)
  BY <1>4, Becoming DEF TruncateFile, Doing, Effect, Truncates
<1>5. CASE FillFile(a)
  BY <1>5, Becoming DEF FillFile, Doing, Effect, Fills
<1>6. CASE OpenStore(a)
  <2>1. PICK s \in Stores \ (open \cup Held) :
          /\ open' = open \cup {s}
          /\ admin' = [admin EXCEPT ![a] = [NoAdmin EXCEPT !.pc = "swap", !.store = s]]
    BY <1>6 DEF OpenStore
  <2>2. Becomes(a, "swap", Null, s)
    BY <2>1, Becoming
  <2>3. s \in Stores \ (open \cup {admin[b].store : b \in Admins})
    BY DEF Held
  <2> QED
    BY <1>6, <2>1, <2>2, <2>3 DEF OpenStore, Doing, Effect, Opens
<1>7. CASE Swap(a)
  BY <1>7, Becoming DEF Swap, Doing, Effect, Swaps
<1>8. CASE CloseOld(a)
  BY <1>8, Becoming DEF CloseOld, Doing, Effect, Closes
<1>9. CASE ConfigureFails(a)
  BY <1>9, Becoming DEF ConfigureFails, stores, Effect, Fails
<1>10. CASE ShortWrite(a)
  BY <1>10, Becoming DEF ShortWrite, Doing, Effect, WritesShort
<1>11. CASE Shutdown(a)
  BY <1>11, Becoming DEF Shutdown, Doing, Effect, ShutsDown
<1> QED
  BY <1>1, <1>2, <1>3, <1>4, <1>5, <1>6, <1>7, <1>8, <1>9, <1>10, <1>11
     DEF AdminStep, Configure

LEMMA CrashEffect ==
    ASSUME Crash
    PROVE  /\ admin' \in [Admins -> Admin] /\ current' = Null /\ open' = {}
           /\ \A a \in Admins : admin'[a].pc = "idle" /\ admin'[a].store = Null
           /\ UNCHANGED <<env, file, secrets, clean>>
<1>1. NoAdmin \in Admin /\ NoAdmin.pc = "idle" /\ NoAdmin.store = Null
  BY DEF NoAdmin, Admin
<1>2. admin' = [a \in Admins |-> NoAdmin]
  BY DEF Crash
<1> QED
  BY <1>1, <1>2 DEF Crash

LEMMA AdminsTypedStep ==
    ASSUME AdminsTyped, NEW a \in Admins, Effect(a)
    PROVE  AdminsTyped'
<1> admin[a].secret \in Secrets \cup {Null} /\ admin[a].store \in Stores \cup {Null}
  BY DEF AdminsTyped, Admin
<1> QED
  BY DEF Effect, Starts, Loads, Draws, Truncates, Fills, Opens,
          Swaps, Closes, Fails, WritesShort, ShutsDown, Becomes, AdminsTyped

-----------------------------------------------------------------------------
(* Stores.                                                                 *)

LEMMA OwnStep ==
    ASSUME OwnInv, NEW a \in Admins, Effect(a)
    PROVE  OwnInv'
<1> AdminsTyped /\ HoldsLate /\ StoresOwned
  BY DEF OwnInv
<1> AdminsTyped'
  BY AdminsTypedStep
<1> Null \notin Stores
  BY PluginRuntimeAssumption
<1> DEFINE x == admin[a]
           y == admin'[a]
<1>0. \A b \in Admins : b # a => admin'[b] = admin[b]
  BY DEF Effect, Starts, Loads, Draws, Truncates, Fills, Opens,
          Swaps, Closes, Fails, WritesShort, ShutsDown, Becomes
\* The Store of a stays, as it does in most steps.
<1>1. ASSUME y.store = x.store, UNCHANGED <<current, open>>,
             y.pc = "idle" \/ y.pc = "load" \/ y.pc = "write" \/ y.pc = "fill" \/ y.pc = "open",
             x.store = Null
      PROVE  OwnInv'
  <2>1. \A b \in Admins : admin'[b].store = admin[b].store
    BY <1>0, <1>1
  <2>2. HoldsLate'
    BY <1>0, <1>1 DEF HoldsLate
  <2>3. StoresOwned'
    BY <2>1, <1>1 DEF StoresOwned
  <2> QED
    BY <2>2, <2>3 DEF OwnInv
<1>2. ASSUME NEW s \in Stores \ (open \cup {admin[b].store : b \in Admins}),
             y.store = s, y.pc = "swap", x.store = Null, open' = open \cup {s},
             current' = current
      PROVE  OwnInv'
  <2>1. s # Null /\ s # current
    BY DEF StoresOwned, AdminsTyped
  <2>2. HoldsLate'
    BY <1>0, <1>2, <2>1 DEF HoldsLate
  <2>3. open' = ({current'} \cup {admin'[b].store : b \in Admins}) \ {Null}
    BY <1>0, <1>2, <2>1 DEF StoresOwned
  <2>4. /\ \A b \in Admins : admin'[b].store # Null => admin'[b].store # current'
        /\ \A b, d \in Admins :
             b # d /\ admin'[b].store # Null => admin'[b].store # admin'[d].store
    BY <1>0, <1>2, <2>1 DEF StoresOwned
  <2> QED
    BY <2>2, <2>3, <2>4 DEF OwnInv, StoresOwned
<1>3. ASSUME current' = x.store, y.store = current, y.pc = "close", open' = open
      PROVE  OwnInv'
  <2>2. HoldsLate'
    BY <1>0, <1>3 DEF HoldsLate
  <2>3. open' = ({current'} \cup {admin'[b].store : b \in Admins}) \ {Null}
    BY <1>0, <1>3 DEF StoresOwned
  <2>4. /\ \A b \in Admins : admin'[b].store # Null => admin'[b].store # current'
        /\ \A b, d \in Admins :
             b # d /\ admin'[b].store # Null => admin'[b].store # admin'[d].store
    BY <1>0, <1>3 DEF StoresOwned
  <2> QED
    BY <2>2, <2>3, <2>4 DEF OwnInv, StoresOwned
<1>4. ASSUME y.store = Null, y.pc = "idle", open' = open \ {x.store}, current' = current
      PROVE  OwnInv'
  <2>2. HoldsLate'
    BY <1>0, <1>4 DEF HoldsLate
  <2>3. open' = ({current'} \cup {admin'[b].store : b \in Admins}) \ {Null}
    BY <1>0, <1>4 DEF StoresOwned
  <2>4. /\ \A b \in Admins : admin'[b].store # Null => admin'[b].store # current'
        /\ \A b, d \in Admins :
             b # d /\ admin'[b].store # Null => admin'[b].store # admin'[d].store
    BY <1>0, <1>4 DEF StoresOwned
  <2> QED
    BY <2>2, <2>3, <2>4 DEF OwnInv, StoresOwned
<1>5. x.pc \in {"idle", "load", "write", "fill", "open"} => x.store = Null
  BY DEF HoldsLate
<1> QED
  BY <1>1, <1>2, <1>3, <1>4, <1>5 DEF Effect, Starts, Loads, Draws, Truncates, Fills, Opens,
          Swaps, Closes, Fails, WritesShort, ShutsDown, Becomes

\* Every database handle that is open belongs to the Store in place or to one
\* configure or Shutdown that will install or close it (StoresOwned).
THEOREM StoresAlwaysOwned == Spec => []StoresOwned
<1>1. Init => OwnInv
  BY DEF Init, OwnInv, AdminsTyped, HoldsLate, StoresOwned, NoAdmin, Admin
<1>2. OwnInv /\ [Next]_vars => OwnInv'
  <2> SUFFICES ASSUME OwnInv, [Next]_vars
               PROVE  OwnInv'
    OBVIOUS
  <2>1. ASSUME NEW a \in Admins, AdminStep(a)
        PROVE  OwnInv'
    BY <2>1, StepEffect, OwnStep DEF OwnInv
  <2>2. CASE Crash
    BY <2>2, CrashEffect DEF OwnInv, AdminsTyped, HoldsLate, StoresOwned
  <2>3. CASE UNCHANGED <<env, file, current, open, secrets, clean, admin>>
    BY <2>3 DEF OwnInv, AdminsTyped, HoldsLate, StoresOwned
  <2>4. CASE UNCHANGED vars
    BY <2>3, <2>4 DEF vars, stores
  <2> QED
    BY <2>1, <2>2, <2>3, <2>4, NextCases
<1>3. OwnInv => StoresOwned
  BY DEF OwnInv
<1> QED
  BY <1>1, <1>2, <1>3, PTL DEF Spec

-----------------------------------------------------------------------------
(* The secret.                                                             *)

LEMMA SecretStep ==
    ASSUME SecretInv, NEW a \in Admins, Effect(a)
    PROVE  SecretInv'
<1> AdminsTyped /\ EnvironmentRules /\ FileRules
  BY DEF SecretInv
<1>1. AdminsTyped'
  BY AdminsTypedStep
<1>2. env' = env
  BY DEF Effect, Starts, Loads, Draws, Truncates, Fills, Opens,
          Swaps, Closes, Fails, WritesShort, ShutsDown
<1>0. \A b \in Admins : b # a => admin'[b] = admin[b]
  BY DEF Effect, Starts, Loads, Draws, Truncates, Fills, Opens,
          Swaps, Closes, Fails, WritesShort, ShutsDown, Becomes
<1> DEFINE x == admin[a]
           y == admin'[a]
<1>3. EnvironmentRules'
  <2> SUFFICES ASSUME env # Null
               PROVE  /\ secrets' \subseteq {env}
                      /\ y.pc \notin {"write", "fill"}
                      /\ y.pc = "open" => y.secret = env
    BY <1>0, <1>2 DEF EnvironmentRules
  <2> QED
    BY DEF EnvironmentRules, Effect, Starts, Loads, Draws, Truncates, Fills, Opens,
          Swaps, Closes, Fails, WritesShort, ShutsDown, Becomes
<1>4. FileRules'
  <2> SUFFICES ASSUME env = Null, clean'
               PROVE  /\ secrets' \subseteq {file'}
                      /\ file' = Null => secrets' = {}
                      /\ \A b \in Admins :
                           /\ admin'[b].pc = "open" => file' # Null /\ admin'[b].secret = file'
                           /\ admin'[b].pc \in {"write", "fill"} =>
                                /\ file' = Null /\ admin'[b].secret # Null
                                /\ \A d \in Admins : admin'[d].pc \in {"write", "fill"} => d = b
    BY <1>2 DEF FileRules
  <2>1. clean /\ Null \notin Secrets
    BY PluginRuntimeAssumption DEF Effect, Starts, Loads, Draws, Truncates, Fills, Opens,
          Swaps, Closes, Fails, WritesShort, ShutsDown
  <2>2. /\ secrets \subseteq {file}
        /\ file = Null => secrets = {}
        /\ \A b \in Admins :
             /\ admin[b].pc = "open" => file # Null /\ admin[b].secret = file
             /\ admin[b].pc \in {"write", "fill"} =>
                  /\ file = Null /\ admin[b].secret # Null
                  /\ \A d \in Admins : admin[d].pc \in {"write", "fill"} => d = b
    BY <2>1 DEF FileRules
  <2>3. CASE Starts(a)
    BY <1>0, <2>2, <2>3 DEF Starts, Becomes
  <2>4. CASE Loads(a)
    BY <1>0, <2>2, <2>4 DEF Loads, Becomes
  <2>5. CASE Draws(a)
    BY <1>0, <2>1, <2>2, <2>5 DEF Draws, Becomes
  <2>6. CASE Truncates(a)
    BY <1>0, <2>2, <2>6 DEF Truncates, Becomes
  <2>7. CASE Fills(a)
    BY <1>0, <2>2, <2>7 DEF Fills, Becomes
  <2>8. CASE Opens(a)
    BY <1>0, <2>2, <2>8 DEF Opens, Becomes
  <2>9. CASE Swaps(a)
    BY <1>0, <2>2, <2>9 DEF Swaps, Becomes
  <2>10. CASE Closes(a)
    BY <1>0, <2>2, <2>10 DEF Closes, Becomes
  <2>11. CASE Fails(a)
    BY <1>0, <2>2, <2>11 DEF Fails, Becomes
  <2>12. CASE WritesShort(a)
    BY <1>0, <2>1, <2>2, <2>12 DEF WritesShort, Becomes
  <2>13. CASE ShutsDown(a)
    BY <1>0, <2>2, <2>13 DEF ShutsDown, Becomes
  <2> QED
    BY <2>3, <2>4, <2>5, <2>6, <2>7, <2>8, <2>9, <2>10, <2>11, <2>12, <2>13 DEF Effect
<1> QED
  BY <1>1, <1>3, <1>4 DEF SecretInv

\* Keys are hashed with one secret as long as the file can be read and no two
\* calls draw at once (SecretKept).
THEOREM OneSecret == Spec => []SecretKept
<1>1. Init => SecretInv
  BY DEF Init, SecretInv, AdminsTyped, EnvironmentRules, FileRules, NoAdmin, Admin
<1>2. SecretInv /\ [Next]_vars => SecretInv'
  <2> SUFFICES ASSUME SecretInv, [Next]_vars
               PROVE  SecretInv'
    OBVIOUS
  <2>1. ASSUME NEW a \in Admins, AdminStep(a)
        PROVE  SecretInv'
    BY <2>1, StepEffect, SecretStep DEF SecretInv
  <2>2. CASE Crash
    BY <2>2, CrashEffect DEF SecretInv, AdminsTyped, EnvironmentRules, FileRules
  <2>3. CASE UNCHANGED <<env, file, current, open, secrets, clean, admin>>
    BY <2>3 DEF SecretInv, AdminsTyped, EnvironmentRules, FileRules
  <2>4. CASE UNCHANGED vars
    BY <2>3, <2>4 DEF vars, stores
  <2> QED
    BY <2>1, <2>2, <2>3, <2>4, NextCases
<1>3. SecretInv => SecretKept
  <2> SUFFICES ASSUME SecretInv, clean
               PROVE  Cardinality(secrets) <= 1
    BY DEF SecretKept
  <2>1. PICK x : secrets \subseteq {x}
    BY DEF SecretInv, EnvironmentRules, FileRules
  <2>2. secrets = {} \/ secrets = {x}
    BY <2>1
  <2>3. CASE secrets = {}
    BY <2>3, FS_EmptySet
  <2>4. CASE secrets = {x}
    BY <2>4, FS_Singleton
  <2> QED
    BY <2>2, <2>3, <2>4
<1> QED
  BY <1>1, <1>2, <1>3, PTL DEF Spec

-----------------------------------------------------------------------------
(* The cycle row.                                                          *)

Section(c) == caller[c].pc \in {"read", "update"}

CycleTyped ==
    /\ cycle \in Cycle!Row \cup {Null}
    /\ clock \in 0 .. MaxTime
    /\ quotaMu \in [Stores -> Callers \cup {Null}]
    /\ caller \in [Callers -> Caller]
    /\ overlap \in BOOLEAN

\* A caller is in a section exactly if it holds the quotaMu of its Store.
SectionsHeld ==
    /\ \A c \in Callers : caller[c].pc # "idle" => caller[c].store \in Stores
    /\ \A s \in Stores, c \in Callers :
         quotaMu[s] = c <=> Section(c) /\ caller[c].store = s

\* Until callers of two Stores meet there is one section, and the row does not
\* change between its SELECT and its UPDATE.
ReadAsItIs ==
    ~overlap =>
        /\ \A c, d \in Callers : Section(c) /\ Section(d) => c = d
        /\ \A c \in Callers : caller[c].pc = "update" => caller[c].seen = cycle

FreshReadings ==
    \A c \in Callers : caller[c].pc # "idle" =>
        /\ caller[c].now <= clock /\ clock - caller[c].now <= MaxLag
        /\ caller[c].reset # Null => caller[c].reset > caller[c].now

\* The row, and the rows callers have read.
RowInOrder ==
    /\ cycle # Null =>
         /\ cycle.next # Null => cycle.next \in ResetTimes
         /\ cycle.started # Null => cycle.started \in ResetTimes /\ cycle.started <= clock
         /\ cycle.next # Null /\ cycle.started # Null => cycle.next >= cycle.started
    /\ \A c \in Callers : caller[c].pc = "update" /\ caller[c].seen # Null =>
         /\ cycle # Null
         /\ caller[c].seen.next # Null => caller[c].seen.next \in ResetTimes

CInv ==
    /\ CycleTyped /\ AdminsTyped
    /\ SectionsHeld /\ ReadAsItIs
    /\ FreshReadings /\ RowInOrder

-----------------------------------------------------------------------------
(* Who changes what.                                                       *)

LEMMA CallersApart ==
    ASSUME NEW a, AdminStep(a)
    PROVE  UNCHANGED <<cycle, clock, quotaMu, overlap, caller>>
BY DEF AdminStep, BeginConfigure, Configure, LoadSecret, DrawSecret, TruncateFile,
       FillFile, OpenStore, Swap, CloseOld, ConfigureFails, ShortWrite, Shutdown,
       database, locks

LEMMA AdminsApart ==
    ASSUME NEW c, Snapshot(c) \/ Call(c) \/ Tick
    PROVE  UNCHANGED <<admin, current, env, file>>
BY DEF Snapshot, Call, Lock, Read, NoWrite, Update, Closed, Tick, stores

LEMMA SameRow ==
    ASSUME CInv, UNCHANGED <<cycle, clock, quotaMu, overlap, caller>>, AdminsTyped'
    PROVE  CInv'
BY DEF CInv, CycleTyped, SectionsHeld, Section, ReadAsItIs, FreshReadings, RowInOrder

LEMMA SameAdmins ==
    ASSUME AdminsTyped, UNCHANGED <<admin, current, env, file>>
    PROVE  AdminsTyped'
BY DEF AdminsTyped

\* The step of one caller, when the row stays.
LEMMA CallerBecomes ==
    ASSUME CInv, NEW c \in Callers, NEW y \in Caller,
           caller' = [caller EXCEPT ![c] = y], UNCHANGED <<cycle, clock>>,
           y.pc # "idle" =>
             /\ y.now <= clock /\ clock - y.now <= MaxLag
             /\ y.reset # Null => y.reset > y.now,
           y.pc = "update" => y.seen = cycle
    PROVE  /\ caller' \in [Callers -> Caller]
           /\ \A d \in Callers : caller'[d] = IF d = c THEN y ELSE caller[d]
           /\ FreshReadings' /\ RowInOrder'
<1> CycleTyped /\ FreshReadings /\ RowInOrder
  BY DEF CInv
<1>1. /\ caller' \in [Callers -> Caller]
      /\ \A d \in Callers : caller'[d] = IF d = c THEN y ELSE caller[d]
  BY DEF CycleTyped
<1>2. FreshReadings'
  BY <1>1 DEF FreshReadings
<1>3. RowInOrder'
  BY <1>1 DEF RowInOrder
<1> QED
  BY <1>1, <1>2, <1>3

-----------------------------------------------------------------------------
(* The steps of a caller.                                                  *)

LEMMA SnapshotStep ==
    ASSUME CInv, NEW c \in Callers, Snapshot(c)
    PROVE  CInv'
<1> CycleTyped /\ AdminsTyped /\ SectionsHeld /\ ReadAsItIs
  BY DEF CInv
<1>1. PICK reset \in {b \in ResetTimes : b > clock} \cup {Null} :
        caller' = [caller EXCEPT ![c] =
             [pc |-> "lock", store |-> current, now |-> clock, reset |-> reset,
              seen |-> Null]]
  BY DEF Snapshot
<1> DEFINE y == [pc |-> "lock", store |-> current, now |-> clock, reset |-> reset,
                 seen |-> Null]
<1>2. /\ UNCHANGED <<cycle, clock, quotaMu, overlap>>
      /\ caller[c].pc = "idle" /\ current # Null /\ current \in Stores
  BY DEF Snapshot, database, locks, AdminsTyped
<1>3. clock \in 0 .. MaxTime /\ MaxLag \in Nat
  BY PluginRuntimeAssumption DEF CycleTyped
<1>4. y \in Caller
  BY <1>2, <1>3 DEF Caller
<1>5. /\ y.pc = "lock" /\ y.store = current /\ y.now = clock /\ y.reset = reset
      /\ y.now <= clock /\ clock - y.now <= MaxLag
      /\ y.reset # Null => y.reset > y.now
  BY <1>3
<1> HIDE DEF y
<1>6. caller' = [caller EXCEPT ![c] = y]
  BY <1>1 DEF y
<1>7. /\ caller' \in [Callers -> Caller]
      /\ \A d \in Callers : caller'[d] = IF d = c THEN y ELSE caller[d]
      /\ FreshReadings' /\ RowInOrder'
  BY <1>2, <1>4, <1>5, <1>6, CallerBecomes
<1>8. SectionsHeld'
  BY <1>2, <1>5, <1>7 DEF SectionsHeld, Section
<1>9. ReadAsItIs'
  BY <1>2, <1>5, <1>7 DEF ReadAsItIs, Section
<1>10. CycleTyped'
  BY <1>2, <1>7 DEF CycleTyped
<1> QED
  BY <1>7, <1>8, <1>9, <1>10, AdminsApart, SameAdmins DEF CInv

LEMMA LockStep ==
    ASSUME CInv, NEW c \in Callers, Lock(c)
    PROVE  CInv'
<1> CycleTyped /\ AdminsTyped /\ SectionsHeld /\ ReadAsItIs /\ FreshReadings
  BY DEF CInv
<1> DEFINE s == caller[c].store
           y == [caller[c] EXCEPT !.pc = "read"]
<1>1. /\ caller[c].pc = "lock" /\ s \in Stores /\ quotaMu[s] = Null
      /\ quotaMu' = [quotaMu EXCEPT ![s] = c]
      /\ overlap' = (overlap \/ \E t \in Stores \ {s} : quotaMu[t] # Null)
      /\ caller' = [caller EXCEPT ![c] = y]
      /\ UNCHANGED <<cycle, clock>>
  BY DEF Lock, MayLock, SectionsHeld, database
<1>2. caller[c] \in Caller
  BY DEF CycleTyped
<1>3. /\ y \in Caller /\ y.pc = "read" /\ y.store = s
      /\ y.now = caller[c].now /\ y.reset = caller[c].reset
  BY <1>2 DEF Caller
<1> HIDE DEF y
<1>4. /\ caller' \in [Callers -> Caller]
      /\ \A d \in Callers : caller'[d] = IF d = c THEN y ELSE caller[d]
      /\ FreshReadings' /\ RowInOrder'
  BY <1>1, <1>3, CallerBecomes DEF FreshReadings
<1>5. SectionsHeld'
  <2>1. \A t \in Stores : quotaMu'[t] = IF t = s THEN c ELSE quotaMu[t]
    BY <1>1 DEF CycleTyped
  <2>2. Null \notin Callers
    BY PluginRuntimeAssumption
  <2>3. ASSUME NEW d \in Callers
        PROVE  caller'[d].pc # "idle" => caller'[d].store \in Stores
    BY <1>1, <1>3, <1>4 DEF SectionsHeld
  <2>4. ASSUME NEW t \in Stores, NEW d \in Callers
        PROVE  quotaMu'[t] = d <=> Section(d)' /\ caller'[d].store = t
    <3>1. CASE d = c
      BY <1>1, <1>3, <1>4, <2>1, <3>1 DEF SectionsHeld, Section
    <3>2. CASE d # c
      <4>1. caller'[d] = caller[d]
        BY <1>4, <3>2
      <4>2. quotaMu[t] = d <=> Section(d) /\ caller[d].store = t
        BY DEF SectionsHeld
      <4>3. t = s => quotaMu[t] # d
        BY <1>1, <2>2
      <4> QED
        BY <2>1, <3>2, <4>1, <4>2, <4>3 DEF Section
    <3> QED
      BY <3>1, <3>2
  <2> QED
    BY <2>3, <2>4 DEF SectionsHeld
<1>6. ReadAsItIs'
  <2> SUFFICES ASSUME ~overlap'
               PROVE  \A d \in Callers : d # c => ~Section(d)
    BY <1>1, <1>3, <1>4 DEF ReadAsItIs, Section
  <2>1. \A t \in Stores : quotaMu[t] = Null
    BY <1>1
  <2>2. Null \notin Callers
    BY PluginRuntimeAssumption
  <2>3. ASSUME NEW d \in Callers, Section(d)
        PROVE  FALSE
    <3>1. caller[d].store \in Stores
      BY <2>3 DEF SectionsHeld, Section
    <3>2. quotaMu[caller[d].store] = d
      BY <2>3, <3>1 DEF SectionsHeld
    <3> QED
      BY <2>1, <2>2, <3>1, <3>2
  <2> QED
    BY <2>3
<1>7. CycleTyped'
  BY <1>1, <1>4 DEF CycleTyped
<1> QED
  BY <1>4, <1>5, <1>6, <1>7, AdminsApart, SameAdmins DEF CInv, Call

LEMMA ReadStep ==
    ASSUME CInv, NEW c \in Callers, Read(c)
    PROVE  CInv'
<1> CycleTyped /\ AdminsTyped /\ SectionsHeld /\ ReadAsItIs /\ FreshReadings
  BY DEF CInv
<1> DEFINE y == [caller[c] EXCEPT !.pc = "update", !.seen = cycle]
<1>1. /\ caller[c].pc = "read"
      /\ caller' = [caller EXCEPT ![c] = y]
      /\ UNCHANGED <<cycle, clock, quotaMu, overlap>>
  BY DEF Read, database, locks
<1>2. caller[c] \in Caller /\ cycle \in Cycle!Row \cup {Null}
  BY DEF CycleTyped
<1>3. /\ y \in Caller /\ y.pc = "update" /\ y.seen = cycle /\ y.store = caller[c].store
      /\ y.now = caller[c].now /\ y.reset = caller[c].reset
  BY <1>2 DEF Caller
<1> HIDE DEF y
<1>4. /\ caller' \in [Callers -> Caller]
      /\ \A d \in Callers : caller'[d] = IF d = c THEN y ELSE caller[d]
      /\ FreshReadings' /\ RowInOrder'
  BY <1>1, <1>3, CallerBecomes DEF FreshReadings
<1>5. SectionsHeld'
  BY <1>1, <1>3, <1>4 DEF SectionsHeld, Section
<1>6. ReadAsItIs'
  BY <1>1, <1>3, <1>4 DEF ReadAsItIs, Section
<1>7. CycleTyped'
  BY <1>1, <1>4 DEF CycleTyped
<1> QED
  BY <1>4, <1>5, <1>6, <1>7, AdminsApart, SameAdmins DEF CInv, Call

LEMMA NoCallerTyped ==
    /\ NoCaller \in Caller /\ NoCaller.pc = "idle"
<1> MaxTime \in Nat
  BY PluginRuntimeAssumption
<1> 0 \in 0 .. MaxTime
  OBVIOUS
<1> QED
  BY DEF NoCaller, Caller

\* Leaving a section, whatever happens to the row.
LEMMA Returning ==
    ASSUME CInv, NEW c \in Callers, Section(c), Return(c), clock' = clock
    PROVE  /\ caller' \in [Callers -> Caller] /\ quotaMu' \in [Stores -> Callers \cup {Null}]
           /\ overlap' \in BOOLEAN
           /\ \A d \in Callers : caller'[d] = IF d = c THEN NoCaller ELSE caller[d]
           /\ SectionsHeld' /\ ReadAsItIs' /\ FreshReadings'
<1> CycleTyped /\ SectionsHeld /\ ReadAsItIs /\ FreshReadings
  BY DEF CInv
<1> DEFINE s == caller[c].store
<1>1. /\ quotaMu' = [quotaMu EXCEPT ![s] = Null]
      /\ overlap' = (overlap /\ \E d \in Callers \ {c} : Section(d))
      /\ caller' = [caller EXCEPT ![c] = NoCaller]
  BY DEF Return, Section
<1>2. s \in Stores /\ quotaMu[s] = c
  BY DEF SectionsHeld, Section
<1>3. /\ caller' \in [Callers -> Caller]
      /\ \A d \in Callers : caller'[d] = IF d = c THEN NoCaller ELSE caller[d]
  BY <1>1, NoCallerTyped DEF CycleTyped
<1>4. quotaMu' \in [Stores -> Callers \cup {Null}] /\ overlap' \in BOOLEAN
  BY <1>1 DEF CycleTyped
<1>5. SectionsHeld'
  <2>1. \A t \in Stores : quotaMu'[t] = IF t = s THEN Null ELSE quotaMu[t]
    BY <1>1 DEF CycleTyped
  <2>2. Null \notin Callers
    BY PluginRuntimeAssumption
  <2>3. ASSUME NEW d \in Callers
        PROVE  caller'[d].pc # "idle" => caller'[d].store \in Stores
    BY <1>3, NoCallerTyped DEF SectionsHeld
  <2>4. ASSUME NEW t \in Stores, NEW d \in Callers
        PROVE  quotaMu'[t] = d <=> Section(d)' /\ caller'[d].store = t
    <3>1. CASE d = c
      <4>1. ~Section(d)'
        BY <1>3, <3>1, NoCallerTyped DEF Section
      <4>2. t # s => quotaMu[t] # c
        BY DEF SectionsHeld
      <4> QED
        BY <2>1, <2>2, <3>1, <4>1, <4>2
    <3>2. CASE d # c
      <4>1. caller'[d] = caller[d]
        BY <1>3, <3>2
      <4>2. quotaMu[t] = d <=> Section(d) /\ caller[d].store = t
        BY DEF SectionsHeld
      <4> QED
        BY <1>2, <2>1, <2>2, <3>2, <4>1, <4>2 DEF Section
    <3> QED
      BY <3>1, <3>2
  <2> QED
    BY <2>3, <2>4 DEF SectionsHeld
<1>6. ReadAsItIs'
  <2> SUFFICES ASSUME ~overlap'
               PROVE  \A d \in Callers : ~Section(d)'
    BY DEF ReadAsItIs, Section
  <2>1. ASSUME NEW d \in Callers, d # c
        PROVE  ~Section(d)
    BY <1>1, <2>1 DEF ReadAsItIs
  <2> QED
    BY <1>3, <2>1, NoCallerTyped DEF Section
<1>7. FreshReadings'
  BY <1>3, NoCallerTyped DEF FreshReadings
<1> QED
  BY <1>3, <1>4, <1>5, <1>6, <1>7

LEMMA ReturnStep ==
    ASSUME CInv, NEW c \in Callers, NoWrite(c) \/ Closed(c)
    PROVE  CInv'
<1>1. Section(c) /\ Return(c) /\ UNCHANGED <<cycle, clock>>
  BY DEF NoWrite, Closed, Section, database
<1>2. /\ caller' \in [Callers -> Caller] /\ quotaMu' \in [Stores -> Callers \cup {Null}]
      /\ overlap' \in BOOLEAN
      /\ \A d \in Callers : caller'[d] = IF d = c THEN NoCaller ELSE caller[d]
      /\ SectionsHeld' /\ ReadAsItIs' /\ FreshReadings'
  BY <1>1, Returning
<1>3. RowInOrder'
  BY <1>1, <1>2, NoCallerTyped DEF CInv, RowInOrder
<1>4. CycleTyped'
  BY <1>1, <1>2 DEF CInv, CycleTyped
<1> QED
  BY <1>2, <1>3, <1>4, AdminsApart, SameAdmins DEF CInv, Call

\* What an UPDATE writes: the first row, nothing, the boundary that has passed
\* applied, or a boundary stored.
LEMMA Written ==
    ASSUME CInv, NEW c \in Callers, Update(c)
    PROVE  LET seen == caller[c].seen
               reset == caller[c].reset
               now == caller[c].now
           IN  \/ /\ cycle = Null /\ reset # Null
                  /\ cycle' = [period |-> Cycle!ConfigPeriod(now), next |-> reset,
                               prev |-> Null, started |-> Null]
               \/ cycle' = cycle
               \/ /\ seen # Null /\ seen.next # Null /\ now >= seen.next
                  /\ reset # Null => reset > seen.next
                  /\ cycle' = [period |-> [kind |-> "codex", n |-> seen.next],
                               next |-> reset, prev |-> seen.period,
                               started |-> seen.next]
               \/ /\ seen # Null /\ reset # Null
                  /\ seen.next # Null => reset > seen.next
                  /\ cycle' = [cycle EXCEPT !.next = reset]
<1> DEFINE seen == caller[c].seen
           reset == caller[c].reset
           now == caller[c].now
           applies == seen # Null /\ seen.next # Null /\ now >= seen.next
<1>1. /\ Writes(c)
      /\ cycle' =
             CASE seen = Null /\ cycle = Null ->
                     [period |-> Cycle!ConfigPeriod(now), next |-> reset,
                      prev |-> Null, started |-> Null]
               [] seen = Null /\ cycle # Null -> cycle
               [] seen # Null /\ Seen(c)!Due(now) -> [Seen(c)!Rolled EXCEPT !.next = reset]
               [] OTHER -> Boundary(c)
  BY DEF Update
<1>2. Seen(c)!Due(now) <=> applies
  BY DEF Seen!Due
<1>3. /\ reset = Null => applies
      /\ reset # Null /\ seen # Null /\ seen.next # Null => reset > seen.next
  BY <1>1, <1>2 DEF Writes, Seen!LaterBoundary
<1>4. CASE seen = Null /\ cycle = Null
  BY <1>1, <1>3, <1>4
<1>5. CASE seen = Null /\ cycle # Null
  BY <1>1, <1>5
<1>6. CASE applies
  <2>1. cycle' = [Seen(c)!Rolled EXCEPT !.next = reset]
    BY <1>1, <1>2, <1>6
  <2>2. Seen(c)!Rolled = [period |-> [kind |-> "codex", n |-> seen.next], next |-> Null,
                          prev |-> seen.period, started |-> seen.next]
    BY DEF Seen!Rolled, Seen!upstreamWeeklyPeriod
  <2>3. cycle' = [period |-> [kind |-> "codex", n |-> seen.next], next |-> reset,
                  prev |-> seen.period, started |-> seen.next]
    BY <2>1, <2>2
  <2> QED
    BY <1>3, <1>6, <2>3
<1>7. CASE seen # Null /\ ~applies
  <2>1. cycle' = [cycle EXCEPT !.next = reset]
    BY <1>1, <1>2, <1>7 DEF Boundary
  <2> QED
    BY <1>3, <1>7, <2>1
<1> QED
  BY <1>4, <1>5, <1>6, <1>7

LEMMA Numbers ==
    /\ ResetTimes \subseteq Nat /\ MaxLag \in Nat /\ MaxTime \in Nat
    /\ Null \notin ResetTimes
    /\ \A now \in Nat : Cycle!ConfigPeriod(now) \in Cycle!Period
<1> CalendarLen \in Nat \ {0} /\ Null \notin Nat /\ ResetTimes \subseteq Nat
      /\ MaxLag \in Nat /\ MaxTime \in Nat
  BY PluginRuntimeAssumption
<1>1. ASSUME NEW now \in Nat
      PROVE  Cycle!ConfigPeriod(now) \in Cycle!Period
  <2>1. (now + 0) \div CalendarLen \in Int
    OBVIOUS
  <2> QED
    BY <2>1 DEF Cycle!ConfigPeriod, Cycle!Period
<1> QED
  BY <1>1

LEMMA UpdateStep ==
    ASSUME CInv, NEW c \in Callers, Update(c)
    PROVE  CInv'
<1> CycleTyped /\ FreshReadings /\ RowInOrder
  BY DEF CInv
<1> DEFINE seen == caller[c].seen
           reset == caller[c].reset
           now == caller[c].now
<1>1. caller[c].pc = "update" /\ Section(c) /\ Return(c) /\ clock' = clock
  BY DEF Update, Section
<1>2. /\ caller' \in [Callers -> Caller] /\ quotaMu' \in [Stores -> Callers \cup {Null}]
      /\ overlap' \in BOOLEAN
      /\ \A d \in Callers : caller'[d] = IF d = c THEN NoCaller ELSE caller[d]
      /\ SectionsHeld' /\ ReadAsItIs' /\ FreshReadings'
  BY <1>1, Returning
<1>3. /\ seen \in Cycle!Row \cup {Null} /\ reset \in ResetTimes \cup {Null}
      /\ now \in 0 .. MaxTime /\ clock \in 0 .. MaxTime
      /\ cycle \in Cycle!Row \cup {Null}
  BY DEF CycleTyped, Caller
<1>4. now \in Nat /\ clock \in Nat /\ (reset # Null => reset \in Nat)
  <2>1. MaxTime \in Nat /\ ResetTimes \subseteq Nat
    BY Numbers
  <2>2. now \in Nat /\ clock \in Nat
    BY <1>3, <2>1
  <2>3. reset # Null => reset \in Nat
    BY <1>3, <2>1
  <2> QED
    BY <2>2, <2>3
<1>5. now <= clock /\ clock - now <= MaxLag /\ (reset # Null => reset > now)
  BY <1>1 DEF FreshReadings
<1>6. seen # Null => /\ cycle # Null /\ cycle \in Cycle!Row /\ seen \in Cycle!Row
                     /\ seen.next # Null => seen.next \in ResetTimes /\ seen.next \in Nat
                     /\ seen.period \in Cycle!Period
  BY <1>1, <1>3, Numbers DEF RowInOrder, Cycle!Row
\* The row in order, in terms of what was written.
<1> DEFINE Good(row) ==
      /\ row \in Cycle!Row
      /\ row.next # Null => row.next \in ResetTimes
      /\ row.started # Null => row.started \in ResetTimes /\ row.started <= clock
      /\ row.next # Null /\ row.started # Null => row.next >= row.started
<1>7. cycle # Null => Good(cycle)
  BY <1>3 DEF RowInOrder
<1>8. cycle' = cycle \/ Good(cycle')
  <2>1. CASE /\ reset # Null
             /\ cycle' = [period |-> Cycle!ConfigPeriod(now), next |-> reset,
                          prev |-> Null, started |-> Null]
    BY <1>3, <1>4, <2>1, Numbers DEF Cycle!Row
  <2>2. CASE /\ seen # Null /\ seen.next # Null /\ now >= seen.next
             /\ reset # Null => reset > seen.next
             /\ cycle' = [period |-> [kind |-> "codex", n |-> seen.next],
                          next |-> reset, prev |-> seen.period,
                          started |-> seen.next]
    <3>1. [kind |-> "codex", n |-> seen.next] \in Cycle!Period
      BY <1>6, <2>2 DEF Cycle!Period
    <3>2. cycle' \in Cycle!Row
      BY <1>3, <1>4, <1>6, <2>2, <3>1 DEF Cycle!Row
    <3>3. cycle'.next = reset /\ cycle'.started = seen.next
      BY <2>2
    <3>4. seen.next <= clock
      BY <1>4, <1>5, <1>6, <2>2
    <3>5. reset # Null => reset >= seen.next
      BY <1>4, <1>6, <2>2
    <3> QED
      BY <1>3, <1>6, <2>2, <3>2, <3>3, <3>4, <3>5
  <2>3. CASE /\ seen # Null /\ reset # Null
             /\ cycle' = [cycle EXCEPT !.next = reset]
    <3>1. /\ cycle' \in Cycle!Row /\ cycle'.next = reset
          /\ cycle'.started = cycle.started
      BY <1>4, <1>6, <2>3 DEF Cycle!Row
    <3>2. ASSUME cycle.started # Null, reset < cycle.started
          PROVE  FALSE
      <4>1. /\ cycle.started \in ResetTimes /\ cycle.started <= clock
            /\ cycle.started \in Nat
        BY <1>6, <1>7, <2>3, <3>2, Numbers
      <4>2. cycle.started - reset > MaxLag
        BY <1>3, <2>3, <3>2, <4>1, PluginRuntimeAssumption
      <4> QED
        BY <1>4, <1>5, <2>3, <4>1, <4>2, Numbers
    <3>3. cycle.started # Null => reset >= cycle.started
      <4>1. cycle.started # Null => cycle.started \in Nat
        BY <1>6, <1>7, <2>3, Numbers
      <4> QED
        BY <1>4, <2>3, <3>2, <4>1
    <3> QED
      BY <1>3, <1>6, <1>7, <2>3, <3>1, <3>3
  <2> QED
    BY <2>1, <2>2, <2>3, Written
<1>9. cycle' # Null => Good(cycle')
  BY <1>7, <1>8
<1>10. cycle # Null => cycle' # Null
  BY <1>8, NullIsNoRow
<1>11. RowInOrder'
  BY <1>1, <1>2, <1>9, <1>10, NoCallerTyped DEF RowInOrder
<1>12. CycleTyped'
  BY <1>1, <1>2, <1>3, <1>8 DEF CycleTyped
<1>13. AdminsTyped'
  BY AdminsApart, SameAdmins DEF CInv, Call
<1> QED
  BY <1>2, <1>11, <1>12, <1>13 DEF CInv

LEMMA TickStep ==
    ASSUME CInv, Tick
    PROVE  CInv'
<1> CycleTyped /\ FreshReadings /\ RowInOrder
  BY DEF CInv
<1>1. /\ clock < MaxTime /\ clock' = clock + 1
      /\ \A c \in Callers : caller[c].pc # "idle" => clock - caller[c].now < MaxLag
      /\ UNCHANGED <<cycle, quotaMu, overlap, caller>>
  BY DEF Tick, locks
<1>2. clock \in 0 .. MaxTime
  BY DEF CycleTyped
<1>3. clock \in Nat /\ clock' \in 0 .. MaxTime /\ clock <= clock'
  BY <1>1, <1>2, Numbers
<1>4. FreshReadings'
  <2> SUFFICES ASSUME NEW c \in Callers, caller[c].pc # "idle"
               PROVE  caller[c].now <= clock' /\ clock' - caller[c].now <= MaxLag
    BY <1>1 DEF FreshReadings
  <2>1. caller[c].now \in 0 .. MaxTime
    BY DEF CycleTyped, Caller
  <2>2. caller[c].now \in Nat
    BY <2>1, Numbers
  <2> QED
    BY <1>1, <1>3, <2>2, Numbers DEF FreshReadings
<1>5. RowInOrder'
  <2>1. cycle # Null /\ cycle.started # Null => cycle.started <= clock'
    <3> SUFFICES ASSUME cycle # Null, cycle.started # Null
                 PROVE  cycle.started <= clock'
      OBVIOUS
    <3>1. cycle.started \in Nat /\ cycle.started <= clock
      BY Numbers DEF RowInOrder
    <3> QED
      BY <1>1, <1>3, <3>1
  <2> QED
    BY <1>1, <2>1 DEF RowInOrder
<1>6. CycleTyped'
  BY <1>1, <1>3 DEF CycleTyped
<1>7. SectionsHeld' /\ ReadAsItIs'
  BY <1>1 DEF CInv, SectionsHeld, ReadAsItIs, Section
<1> QED
  BY <1>4, <1>5, <1>6, <1>7, AdminsApart, SameAdmins DEF CInv

LEMMA CrashStep ==
    ASSUME CInv, Crash
    PROVE  CInv'
<1>1. /\ caller' = [c \in Callers |-> NoCaller]
      /\ quotaMu' = [s \in Stores |-> Null] /\ overlap' = FALSE
      /\ UNCHANGED <<cycle, clock>>
  BY DEF Crash, database
<1>2. Null \notin Callers
  BY PluginRuntimeAssumption
<1>3. CycleTyped'
  BY <1>1, NoCallerTyped DEF CInv, CycleTyped
<1>4. SectionsHeld' /\ ReadAsItIs' /\ FreshReadings'
  BY <1>1, <1>2, NoCallerTyped DEF SectionsHeld, ReadAsItIs, FreshReadings, Section
<1>5. RowInOrder'
  BY <1>1, NoCallerTyped DEF CInv, RowInOrder
<1>6. AdminsTyped'
  BY CrashEffect DEF CInv, AdminsTyped
<1> QED
  BY <1>3, <1>4, <1>5, <1>6 DEF CInv

-----------------------------------------------------------------------------
(* The theorems.                                                           *)

LEMMA InitCInv ==
    ASSUME Init
    PROVE  CInv
<1> Null \notin Callers /\ MaxTime \in Nat
  BY PluginRuntimeAssumption
<1> 0 \in 0 .. MaxTime
  OBVIOUS
<1>1. AdminsTyped
  BY DEF Init, AdminsTyped, NoAdmin, Admin
<1>2. CycleTyped
  BY NoCallerTyped DEF Init, CycleTyped
<1>3. SectionsHeld /\ ReadAsItIs /\ FreshReadings /\ RowInOrder
  BY NoCallerTyped
     DEF Init, SectionsHeld, ReadAsItIs, FreshReadings, RowInOrder, Section
<1> QED
  BY <1>1, <1>2, <1>3 DEF CInv

LEMMA NextCInv ==
    ASSUME CInv, [Next]_vars
    PROVE  CInv'
<1>1. ASSUME NEW a \in Admins, AdminStep(a)
      PROVE  CInv'
  BY <1>1, StepEffect, AdminsTypedStep, CallersApart, SameRow DEF CInv
<1>2. ASSUME NEW c \in Callers, Snapshot(c) \/ Call(c)
      PROVE  CInv'
  BY <1>2, SnapshotStep, LockStep, ReadStep, ReturnStep, UpdateStep DEF Call
<1>3. CASE UNCHANGED vars
  BY <1>3, SameRow, SameAdmins DEF vars, database, stores, locks, CInv
<1> QED
  BY <1>1, <1>2, <1>3, TickStep, CrashStep DEF Next, AdminStep

\* quotaMu of one Store protects the row until callers of two Stores meet, and
\* what it holds is in order in any case.
THEOREM CycleInvariant == Spec => []CInv
<1>1. Init => CInv
  BY InitCInv
<1>2. CInv /\ [Next]_vars => CInv'
  BY NextCInv
<1> QED
  BY <1>1, <1>2, PTL DEF Spec

\* The row changes by the UPDATE of a caller only.
LEMMA OnlyUpdates ==
    ASSUME [Next]_vars, cycle' # cycle
    PROVE  \E c \in Callers : Update(c)
<1>1. ASSUME NEW a \in Admins, AdminStep(a)
      PROVE  FALSE
  BY <1>1, CallersApart
<1>2. ASSUME NEW c \in Callers, Snapshot(c) \/ Lock(c) \/ Read(c) \/ NoWrite(c) \/ Closed(c)
      PROVE  FALSE
  BY <1>2 DEF Snapshot, Lock, Read, NoWrite, Closed, database
<1>3. CASE Tick \/ Crash \/ UNCHANGED vars
  BY <1>3 DEF Tick, Crash, vars, database
<1> QED
  BY <1>1, <1>2, <1>3 DEF Next, AdminStep, Call

LEMMA LearnedKept ==
    ASSUME CInv, [Next]_vars, cycle # Null, cycle.next # Null, ~overlap
    PROVE  \/ cycle'.next # Null /\ cycle'.next >= cycle.next
           \/ cycle'.started = cycle.next
<1>1. cycle.next \in Nat /\ cycle \in Cycle!Row
  BY Numbers DEF CInv, RowInOrder, CycleTyped
<1>2. CASE cycle' = cycle
  BY <1>1, <1>2
<1>3. CASE cycle' # cycle
  <2>1. PICK c \in Callers : Update(c)
    BY <1>3, OnlyUpdates
  <2>2. caller[c].seen = cycle
    BY <2>1 DEF Update, CInv, ReadAsItIs
  <2>3. caller[c].reset # Null => caller[c].reset \in Nat
    BY Numbers DEF CInv, CycleTyped, Caller
  <2>4. CASE /\ cycle' = [period |-> [kind |-> "codex", n |-> cycle.next],
                          next |-> caller[c].reset, prev |-> cycle.period,
                          started |-> cycle.next]
    BY <2>4
  <2>5. CASE /\ caller[c].reset # Null /\ caller[c].reset > cycle.next
             /\ cycle' = [cycle EXCEPT !.next = caller[c].reset]
    <3>1. cycle'.next = caller[c].reset
      BY <1>1, <2>5 DEF Cycle!Row
    <3> QED
      BY <1>1, <2>3, <2>5, <3>1
  <2> QED
    BY <1>3, <2>1, <2>2, <2>4, <2>5, Written
<1> QED
  BY <1>2, <1>3

\* A boundary that was learned is applied, or replaced by a later one, as long
\* as callers of two Stores have not met (LearnedBoundaryKept).
THEOREM BoundariesKept == Spec => LearnedBoundaryKept
<1>1. CInv /\ [Next]_vars =>
        [cycle # Null /\ cycle.next # Null /\ ~overlap
         => \/ cycle'.next # Null /\ cycle'.next >= cycle.next
            \/ cycle'.started = cycle.next]_vars
  BY LearnedKept
<1> QED
  BY <1>1, CycleInvariant, PTL DEF Spec, LearnedBoundaryKept

LEMMA StartKept ==
    ASSUME CInv, [Next]_vars, cycle # Null, cycle.started # Null
    PROVE  /\ cycle'.started # Null
           /\ ~overlap => cycle'.started >= cycle.started
<1>1. cycle.started \in Nat /\ cycle \in Cycle!Row
  BY Numbers DEF CInv, RowInOrder, CycleTyped
<1>2. CASE cycle' = cycle
  BY <1>1, <1>2
<1>3. CASE cycle' # cycle
  <2>1. PICK c \in Callers : Update(c)
    BY <1>3, OnlyUpdates
  <2> DEFINE seen == caller[c].seen
  <2>2. ~overlap => seen = cycle
    BY <2>1 DEF Update, CInv, ReadAsItIs
  <2>3. CASE /\ seen # Null /\ seen.next # Null
             /\ cycle' = [period |-> [kind |-> "codex", n |-> seen.next],
                          next |-> caller[c].reset, prev |-> seen.period,
                          started |-> seen.next]
    <3>1. cycle'.started = seen.next
      BY <2>3
    <3>2. ~overlap => seen.next >= cycle.started
      BY <2>2, <2>3 DEF CInv, RowInOrder
    <3> QED
      BY <2>3, <3>1, <3>2
  <2>4. CASE cycle' = [cycle EXCEPT !.next = caller[c].reset]
    <3>1. cycle'.started = cycle.started
      BY <1>1, <2>4 DEF Cycle!Row
    <3> QED
      BY <1>1, <3>1
  <2> QED
    BY <1>3, <2>1, <2>3, <2>4, Written
<1> QED
  BY <1>2, <1>3

\* The start of the current period is never lost, and never moves back as long
\* as callers of two Stores have not met (StartNotLost).
THEOREM StartKeptForGood == Spec => StartNotLost
<1>1. CInv /\ [Next]_vars =>
        [cycle # Null /\ cycle.started # Null
         => /\ cycle'.started # Null
            /\ ~overlap => cycle'.started >= cycle.started]_vars
  BY StartKept
<1> QED
  BY <1>1, CycleInvariant, PTL DEF Spec, StartNotLost

-----------------------------------------------------------------------------
(* The sections of quotaMu against the actions of WeeklyCycle.             *)

\* What the function that c runs does in one step, by WeeklyCycle.
AtOnce(c) ==
    IF caller[c].reset = Null THEN Cycle!AdvanceIfDue(caller[c].now)
    ELSE Cycle!ObserveUpstreamWeeklyReset(caller[c].reset, caller[c].now)

\* A call that ends, and not because its Store was closed or the process died.
Ends(c) ==
    /\ caller[c].pc = "update" /\ caller'[c].pc = "idle"
    /\ caller[c].store \in open'

\* CurrentPeriod and ObserveUpstreamWeeklyReset take effect when they end,
\* SELECT and UPDATE as if in one step, and nothing else changes the row.
SectionsAtomic ==
    [][~overlap => /\ \A c \in Callers : Ends(c) => AtOnce(c)
                   /\ cycle' # cycle => \E c \in Callers : Ends(c)]_vars

\* What a caller that has read the row as it is writes, or leaves.
LEMMA WritesAtOnce ==
    ASSUME CInv, ~overlap, NEW c \in Callers, Update(c)
    PROVE  AtOnce(c)
<1> DEFINE reset == caller[c].reset
           now == caller[c].now
<1>1. caller[c].pc = "update" /\ caller[c].seen = cycle /\ Writes(c)
  BY DEF Update, CInv, ReadAsItIs
<1>2. reset # Null => reset > now /\ Cycle!Accepts(reset, now)
  BY <1>1 DEF CInv, FreshReadings, Cycle!Accepts, Cycle!IsFuture
<1>3. /\ reset = Null => cycle # Null /\ cycle.next # Null /\ now >= cycle.next
      /\ reset # Null /\ cycle # Null /\ cycle.next # Null => reset > cycle.next
  BY <1>1 DEF Writes, Seen!Due, Seen!LaterBoundary
<1>4. cycle' = CASE cycle = Null ->
                      [period |-> Cycle!ConfigPeriod(now), next |-> reset,
                       prev |-> Null, started |-> Null]
                 [] cycle # Null /\ Seen(c)!Due(now) ->
                      [Seen(c)!Rolled EXCEPT !.next = reset]
                 [] OTHER -> [cycle EXCEPT !.next = reset]
  BY <1>1 DEF Update, Boundary
<1>5. /\ Seen(c)!Due(now) <=> cycle # Null /\ cycle.next # Null /\ now >= cycle.next
      /\ Seen(c)!Rolled = Cycle!Rolled
  BY <1>1 DEF Seen!Due, Seen!Rolled, Cycle!Rolled, Seen!upstreamWeeklyPeriod,
              Cycle!upstreamWeeklyPeriod
<1>6. CASE reset = Null
  <2>1. cycle' = [Cycle!Rolled EXCEPT !.next = Null]
    BY <1>3, <1>4, <1>5, <1>6
  <2>2. cycle' = Cycle!Rolled
    BY <2>1 DEF Cycle!Rolled
  <2> QED
    BY <1>3, <1>6, <2>2 DEF AtOnce, Cycle!AdvanceIfDue, Cycle!AfterRead, Cycle!Due
<1>7. CASE reset # Null
  <2>1. CASE cycle = Null
    <3>1. Cycle!FirstBoundary(reset, now)
      BY <1>4, <2>1 DEF Cycle!FirstBoundary
    <3> QED
      BY <1>2, <1>7, <3>1 DEF AtOnce, Cycle!ObserveUpstreamWeeklyReset
  <2>2. CASE cycle # Null /\ cycle.next = Null
    <3>1. Cycle!StoreBoundary(reset)
      BY <1>4, <1>5, <2>2 DEF Cycle!StoreBoundary
    <3> QED
      BY <1>2, <1>7, <3>1 DEF AtOnce, Cycle!ObserveUpstreamWeeklyReset
  <2>3. CASE cycle # Null /\ cycle.next # Null /\ now >= cycle.next
    <3>1. Cycle!ApplyAndStoreBoundary(reset, now)
      BY <1>3, <1>4, <1>5, <1>7, <2>3 DEF Cycle!ApplyAndStoreBoundary, Cycle!LaterBoundary
    <3> QED
      BY <1>2, <1>7, <3>1 DEF AtOnce, Cycle!ObserveUpstreamWeeklyReset
  <2>4. CASE cycle # Null /\ cycle.next # Null /\ ~(now >= cycle.next)
    <3>1. now < cycle.next
      <4>1. now \in Nat
        BY Numbers DEF CInv, CycleTyped, Caller
      <4>2. cycle.next \in Nat
        BY <2>4, Numbers DEF CInv, RowInOrder
      <4> QED
        BY <2>4, <4>1, <4>2
    <3>2. Cycle!ExtendBoundary(reset, now)
      BY <1>3, <1>4, <1>5, <1>7, <2>4, <3>1 DEF Cycle!ExtendBoundary, Cycle!LaterBoundary
    <3> QED
      BY <1>2, <1>7, <3>2 DEF AtOnce, Cycle!ObserveUpstreamWeeklyReset
  <2> QED
    BY <2>1, <2>2, <2>3, <2>4
<1> QED
  BY <1>6, <1>7

LEMMA LeavesAtOnce ==
    ASSUME CInv, ~overlap, NEW c \in Callers, NoWrite(c)
    PROVE  AtOnce(c)
<1> DEFINE reset == caller[c].reset
           now == caller[c].now
<1>1. caller[c].pc = "update" /\ caller[c].seen = cycle /\ ~Writes(c) /\ cycle' = cycle
  BY DEF NoWrite, CInv, ReadAsItIs, database
<1>2. CASE reset = Null
  <2>1. ~Cycle!Due(now)
    BY <1>1, <1>2 DEF Writes, Seen!Due, Cycle!Due
  <2> QED
    BY <1>1, <1>2, <2>1 DEF AtOnce, Cycle!AdvanceIfDue, Cycle!AfterRead
<1>3. CASE reset # Null
  <2>1. cycle # Null /\ cycle.next # Null /\ ~(reset > cycle.next)
    BY <1>1, <1>3 DEF Writes, Seen!LaterBoundary
  <2>2. reset \in Nat /\ cycle.next \in Nat
    BY <1>3, <2>1, Numbers DEF CInv, CycleTyped, Caller, RowInOrder
  <2>3. Cycle!KeepBoundary(reset)
    BY <1>1, <2>1, <2>2 DEF Cycle!KeepBoundary
  <2>4. Cycle!Accepts(reset, now)
    BY <1>1, <1>3 DEF CInv, FreshReadings, Cycle!Accepts, Cycle!IsFuture
  <2> QED
    BY <1>3, <2>3, <2>4 DEF AtOnce, Cycle!ObserveUpstreamWeeklyReset
<1> QED
  BY <1>2, <1>3

\* Under its quotaMu a section is one step of WeeklyCycle, which QuotaCycle and
\* QuotaGuard are made of, until callers of two Stores meet.
THEOREM SectionsAreAtomic == Spec => SectionsAtomic
<1>1. CInv /\ [Next]_vars =>
        [~overlap => /\ \A c \in Callers : Ends(c) => AtOnce(c)
                     /\ cycle' # cycle => \E c \in Callers : Ends(c)]_vars
  <2> SUFFICES ASSUME CInv, [Next]_vars, ~overlap
               PROVE  /\ \A c \in Callers : Ends(c) => AtOnce(c)
                      /\ cycle' # cycle => \E c \in Callers : Ends(c)
    OBVIOUS
  <2>1. ASSUME NEW c \in Callers, Ends(c)
        PROVE  Update(c) \/ NoWrite(c)
    <3>0. caller'[c] # caller[c]
      BY <2>1 DEF Ends
    <3>1. ASSUME NEW a \in Admins, AdminStep(a)
          PROVE  FALSE
      BY <3>0, <3>1, CallersApart
    <3>2. CASE Tick \/ Crash \/ UNCHANGED vars
      BY <2>1, <3>0, <3>2 DEF Tick, Crash, vars, Ends
    <3>3. ASSUME NEW d \in Callers, Snapshot(d) \/ Call(d)
          PROVE  Update(c) \/ NoWrite(c)
      <4>1. CASE d # c
        BY <3>0, <3>3, <4>1 DEF Snapshot, Call, Lock, Read, NoWrite, Update, Closed, Return,
                                CInv, CycleTyped
      <4>2. CASE d = c
        BY <2>1, <3>3, <4>2 DEF Snapshot, Call, Lock, Read, Closed, Usable, Ends, stores
      <4> QED
        BY <4>1, <4>2
    <3> QED
      BY <3>1, <3>2, <3>3 DEF Next, AdminStep
  <2>2. ASSUME cycle' # cycle
        PROVE  \E c \in Callers : Ends(c)
    <3>1. PICK c \in Callers : Update(c)
      BY <2>2, OnlyUpdates
    <3>2. caller'[c] = NoCaller /\ open' = open
      BY <3>1 DEF Update, Return, CInv, CycleTyped, stores
    <3> QED
      BY <3>1, <3>2 DEF Update, Usable, Ends, NoCaller
  <2> QED
    BY <2>1, <2>2, WritesAtOnce, LeavesAtOnce
<1> QED
  BY <1>1, CycleInvariant, PTL DEF Spec, SectionsAtomic

-----------------------------------------------------------------------------
(* Types.                                                                  *)

\* What TypeOK says beyond CycleTyped and AdminsTyped, and that whoever opens
\* a Store has a secret.
StoresTyped ==
    /\ open \subseteq Stores
    /\ secrets \subseteq Secrets
    /\ clean \in BOOLEAN
    /\ \A a \in Admins : admin[a].pc \in {"write", "fill", "open"} => admin[a].secret # Null

LEMMA StoresTypedStep ==
    ASSUME AdminsTyped, StoresTyped, NEW a \in Admins, Effect(a), AdminStep(a)
    PROVE  StoresTyped'
<1> Null \notin Secrets
  BY PluginRuntimeAssumption
<1> admin[a].secret \in Secrets \cup {Null}
  BY DEF AdminsTyped, Admin
<1>1. open' \subseteq Stores /\ secrets' \subseteq Secrets
  BY DEF StoresTyped, Effect, Starts, Loads, Draws, Truncates, Fills, Opens, Swaps,
         Closes, Fails, WritesShort, ShutsDown
<1>2. \A b \in Admins : admin'[b].pc \in {"write", "fill", "open"} => admin'[b].secret # Null
  BY DEF StoresTyped, Effect, Starts, Loads, Draws, Truncates, Fills, Opens, Swaps,
         Closes, Fails, WritesShort, ShutsDown, Becomes
<1>3. clean' \in BOOLEAN
  <2>1. CASE DrawSecret(a)
    BY <2>1 DEF DrawSecret
  <2>2. CASE ~DrawSecret(a)
    <3>1. clean' = clean
      BY <2>2 DEF AdminStep, BeginConfigure, Configure, LoadSecret, TruncateFile,
          FillFile, OpenStore, Swap, CloseOld, ConfigureFails, ShortWrite, Shutdown,
          stores
    <3> QED
      BY <3>1 DEF StoresTyped
  <2> QED
    BY <2>1, <2>2
<1> QED
  BY <1>1, <1>2, <1>3 DEF StoresTyped

LEMMA ConfiguresCounted ==
    ASSUME configures \in 0 .. MaxConfigures, Next
    PROVE  configures' \in 0 .. MaxConfigures
<1> MaxConfigures \in Nat
  BY PluginRuntimeAssumption
<1>1. ASSUME NEW a \in Admins, BeginConfigure(a)
      PROVE  configures' \in 0 .. MaxConfigures
  <2>1. configures < MaxConfigures /\ configures' = configures + 1
    BY <1>1 DEF BeginConfigure
  <2> QED
    BY <2>1
<1>2. ASSUME \A a \in Admins : ~BeginConfigure(a)
      PROVE  configures' = configures
  BY <1>2 DEF Next, Configure, LoadSecret, DrawSecret, TruncateFile, FillFile, OpenStore,
      Swap, CloseOld, ConfigureFails, ShortWrite, Shutdown, Snapshot, Call, Lock, Read,
      NoWrite, Update, Closed, Tick, Crash
<1> QED
  BY <1>1, <1>2

\* The row, the Stores, the secrets and the calls stay within their types
\* (TypeOK).
THEOREM TypeCorrect == Spec => []TypeOK
<1> DEFINE TInv == CInv /\ StoresTyped /\ configures \in 0 .. MaxConfigures
<1>1. Init => TInv
  <2> SUFFICES ASSUME Init
               PROVE  StoresTyped /\ configures \in 0 .. MaxConfigures
    BY InitCInv
  <2> MaxConfigures \in Nat
    BY PluginRuntimeAssumption
  <2>1. configures \in 0 .. MaxConfigures
    BY DEF Init
  <2> QED
    BY <2>1 DEF Init, StoresTyped, NoAdmin
<1>2. TInv /\ [Next]_vars => TInv'
  <2> SUFFICES ASSUME TInv, [Next]_vars
               PROVE  StoresTyped' /\ configures' \in 0 .. MaxConfigures
    BY NextCInv
  <2>1. configures' \in 0 .. MaxConfigures
    BY ConfiguresCounted DEF vars
  <2>2. CASE UNCHANGED <<env, file, current, open, secrets, clean, admin>>
    BY <2>1, <2>2 DEF StoresTyped
  <2>3. CASE Crash
    BY <2>1, <2>3, CrashEffect DEF StoresTyped
  <2>4. ASSUME NEW a \in Admins, AdminStep(a)
        PROVE  StoresTyped'
    BY <2>4, StepEffect, StoresTypedStep DEF CInv
  <2>5. CASE UNCHANGED vars
    BY <2>2, <2>5 DEF vars, stores
  <2> QED
    BY <2>1, <2>2, <2>3, <2>4, <2>5, NextCases
<1>3. TInv => TypeOK
  BY DEF CInv, CycleTyped, AdminsTyped, StoresTyped, TypeOK
<1> QED
  BY <1>1, <1>2, <1>3, PTL DEF Spec
=============================================================================
