------------------------------ MODULE BootProofs ------------------------------
(***************************************************************************)
(* Theorems about Boot, for any number of servers, keys, addresses, faults *)
(* and restarts: types, that a server runs only with every table, an       *)
(* administrator and every key set, that no start replaces a value, how    *)
(* many administrators there may be and where their passwords are.         *)
(* RunningIsSetUp says nothing of a start under way; Inv adds what each    *)
(* stage has behind it.  AdminsBounded needs AdminCount: who is about to   *)
(* insert.  CredentialsShown is inductive with the types.                  *)
(***************************************************************************)
EXTENDS Boot, FiniteSetTheorems, TLAPS

\* Who is about to log the credentials has made the account.
MadeInv == \A s \in Server : pc[s] = "log" => made[s] \in Nat

\* Past the check there is an account: none is ever removed.
AdminInv == \A s \in Server : pc[s] \in {"log", "config", "running"} => users > 0

\* The keys a start has behind it are set, and no key is ever unset.
ConfigInv ==
    \A s \in Server :
        /\ pc[s] \in {"migrate", "mark", "apply", "clear", "check", "create", "log"} =>
             left[s] = Key
        /\ pc[s] = "config" => \A k \in Key \ left[s] : table[k] # nil
        /\ pc[s] = "running" => \A k \in Key : table[k] # nil

\* Tables are made before a mark is cleared, and all before the migrator is done.
MigrateInv ==
    /\ ~version.dirty => schema >= version.at
    /\ \A s \in Server :
         /\ pc[s] = "clear" => schema >= next[s]
         /\ pc[s] \in {"check", "create", "log", "config", "running"} => schema = Last

Inv == TypeOK /\ MadeInv /\ AdminInv /\ ConfigInv /\ MigrateInv

LEMMA InitInv == Init => Inv
<1> SUFFICES ASSUME Init PROVE Inv
  OBVIOUS
<1>1. TypeOK
  BY BootAssumption DEF Init, TypeOK, Last, VersionType, PC, ListenerState, NoListener
<1>2. MadeInv /\ AdminInv /\ ConfigInv
  BY DEF Init, MadeInv, AdminInv, ConfigInv
<1>3. MigrateInv
  BY DEF Init, MigrateInv, Last
<1> QED
  BY <1>1, <1>2, <1>3 DEF Inv

LEMMA NextInv == Inv /\ [Next]_vars => Inv'
<1> SUFFICES ASSUME Inv, [Next]_vars PROVE Inv'
  OBVIOUS
<1> USE BootAssumption
<1>1. ASSUME NEW s \in Server, Start(s) PROVE Inv'
  <2>1. TypeOK'
    BY <1>1 DEF Start, database, Inv, TypeOK, Last, VersionType, PC, ListenerState, NoListener
  <2>2. MadeInv'
    BY <1>1 DEF Start, Inv, TypeOK, MadeInv
  <2>3. AdminInv'
    BY <1>1 DEF Start, Inv, TypeOK, AdminInv
  <2>4. ConfigInv'
    BY <1>1 DEF Start, Inv, TypeOK, ConfigInv
  <2>5. MigrateInv'
    BY <1>1 DEF Start, database, Inv, TypeOK, MigrateInv, Last
  <2> QED
    BY <2>1, <2>2, <2>3, <2>4, <2>5 DEF Inv
<1>2. ASSUME NEW s \in Server, CheckAdmin(s) PROVE Inv'
  <2>1. TypeOK'
    BY <1>2 DEF CheckAdmin, database, Inv, TypeOK, Last, VersionType, PC, ListenerState, NoListener
  <2>2. MadeInv'
    BY <1>2 DEF CheckAdmin, Inv, TypeOK, MadeInv
  <2>3. AdminInv'
    BY <1>2 DEF CheckAdmin, Inv, TypeOK, AdminInv
  <2>4. ConfigInv'
    BY <1>2 DEF CheckAdmin, Inv, TypeOK, ConfigInv
  <2>5. MigrateInv'
    BY <1>2 DEF CheckAdmin, database, Inv, TypeOK, MigrateInv, Last
  <2> QED
    BY <2>1, <2>2, <2>3, <2>4, <2>5 DEF Inv
<1>3. ASSUME NEW s \in Server, CreateAdmin(s) PROVE Inv'
  <2>1. TypeOK'
    BY <1>3 DEF CreateAdmin, database, Inv, TypeOK, Last, VersionType, PC, ListenerState, NoListener
  <2>2. MadeInv'
    BY <1>3 DEF CreateAdmin, Inv, TypeOK, MadeInv
  <2>3. AdminInv'
    BY <1>3 DEF CreateAdmin, Inv, TypeOK, AdminInv
  <2>4. ConfigInv'
    BY <1>3 DEF CreateAdmin, Inv, TypeOK, ConfigInv
  <2>5. MigrateInv'
    BY <1>3 DEF CreateAdmin, database, Inv, TypeOK, MigrateInv, Last
  <2> QED
    BY <2>1, <2>2, <2>3, <2>4, <2>5 DEF Inv
<1>4. ASSUME NEW s \in Server, LogCredentials(s) PROVE Inv'
  <2>0. made[s] \in Nat
    BY <1>4 DEF LogCredentials, Inv, MadeInv
  <2>1. TypeOK'
    BY <1>4, <2>0 DEF LogCredentials, database, Inv, TypeOK, Last, VersionType, PC, ListenerState, NoListener
  <2>2. MadeInv'
    BY <1>4 DEF LogCredentials, Inv, TypeOK, MadeInv
  <2>3. AdminInv'
    BY <1>4 DEF LogCredentials, Inv, TypeOK, AdminInv
  <2>4. ConfigInv'
    BY <1>4 DEF LogCredentials, Inv, TypeOK, ConfigInv
  <2>5. MigrateInv'
    BY <1>4 DEF LogCredentials, database, Inv, TypeOK, MigrateInv, Last
  <2> QED
    BY <2>1, <2>2, <2>3, <2>4, <2>5 DEF Inv
<1>5. ASSUME NEW s \in Server, NEW k \in Key, NEW v \in Value, SetIfNotExists(s, k, v) PROVE Inv'
  <2>1. TypeOK'
    BY <1>5 DEF SetIfNotExists, database, Inv, TypeOK, Last, VersionType, PC, ListenerState, NoListener
  <2>2. MadeInv'
    BY <1>5 DEF SetIfNotExists, Inv, TypeOK, MadeInv
  <2>3. AdminInv'
    BY <1>5 DEF SetIfNotExists, Inv, TypeOK, AdminInv
  <2>4. ConfigInv'
    BY <1>5 DEF SetIfNotExists, Inv, TypeOK, ConfigInv
  <2>5. MigrateInv'
    BY <1>5 DEF SetIfNotExists, database, Inv, TypeOK, MigrateInv, Last
  <2> QED
    BY <2>1, <2>2, <2>3, <2>4, <2>5 DEF Inv
<1>6. ASSUME NEW s \in Server, ConfigDone(s) PROVE Inv'
  <2>1. TypeOK'
    BY <1>6 DEF ConfigDone, database, Inv, TypeOK, Last, VersionType, PC, ListenerState, NoListener
  <2>2. MadeInv'
    BY <1>6 DEF ConfigDone, Inv, TypeOK, MadeInv
  <2>3. AdminInv'
    BY <1>6 DEF ConfigDone, Inv, TypeOK, AdminInv
  <2>4. ConfigInv'
    BY <1>6 DEF ConfigDone, Inv, TypeOK, ConfigInv
  <2>5. MigrateInv'
    BY <1>6 DEF ConfigDone, database, Inv, TypeOK, MigrateInv, Last
  <2> QED
    BY <2>1, <2>2, <2>3, <2>4, <2>5 DEF Inv
<1>7. ASSUME NEW s \in Server, Fails(s) PROVE Inv'
  <2>0. pc[s] = "log" => made[s] \in Nat
    BY DEF Inv, MadeInv
  <2>a. lost' \subseteq Nat
    BY <1>7, <2>0 DEF Fails, Inv, TypeOK
  <2>1. TypeOK'
    BY <1>7, <2>a DEF Fails, database, Inv, TypeOK, Last, VersionType, PC, ListenerState, NoListener
  <2>2. MadeInv'
    BY <1>7 DEF Fails, Inv, TypeOK, MadeInv
  <2>3. AdminInv'
    BY <1>7 DEF Fails, Inv, TypeOK, AdminInv
  <2>4. ConfigInv'
    BY <1>7 DEF Fails, Inv, TypeOK, ConfigInv
  <2>5. MigrateInv'
    BY <1>7 DEF Fails, database, Inv, TypeOK, MigrateInv, Last
  <2> QED
    BY <2>1, <2>2, <2>3, <2>4, <2>5 DEF Inv
<1>8. ASSUME NEW s \in Server, NEW a \in Addr, Listen(s, a) PROVE Inv'
  <2>1. TypeOK'
    BY <1>8 DEF Listen, database, Inv, TypeOK, Last, VersionType, PC, ListenerState, NoListener
  <2>2. MadeInv'
    BY <1>8 DEF Listen, Inv, TypeOK, MadeInv
  <2>3. AdminInv'
    BY <1>8 DEF Listen, Inv, TypeOK, AdminInv
  <2>4. ConfigInv'
    BY <1>8 DEF Listen, Inv, TypeOK, ConfigInv
  <2>5. MigrateInv'
    BY <1>8 DEF Listen, database, Inv, TypeOK, MigrateInv, Last
  <2> QED
    BY <2>1, <2>2, <2>3, <2>4, <2>5 DEF Inv
<1>9. ASSUME NEW s \in Server, NEW a \in Addr, ListenFails(s, a) PROVE Inv'
  <2>1. TypeOK'
    BY <1>9 DEF ListenFails, database, Inv, TypeOK, Last, VersionType, PC, ListenerState, NoListener
  <2>2. MadeInv'
    BY <1>9 DEF ListenFails, Inv, TypeOK, MadeInv
  <2>3. AdminInv'
    BY <1>9 DEF ListenFails, Inv, TypeOK, AdminInv
  <2>4. ConfigInv'
    BY <1>9 DEF ListenFails, Inv, TypeOK, ConfigInv
  <2>5. MigrateInv'
    BY <1>9 DEF ListenFails, database, Inv, TypeOK, MigrateInv, Last
  <2> QED
    BY <2>1, <2>2, <2>3, <2>4, <2>5 DEF Inv
<1>10. ASSUME NEW s \in Server, Interrupt(s) PROVE Inv'
  <2>1. TypeOK'
    BY <1>10 DEF Interrupt, database, Inv, TypeOK, Last, VersionType, PC, ListenerState, NoListener
  <2>2. MadeInv'
    BY <1>10 DEF Interrupt, Inv, TypeOK, MadeInv
  <2>3. AdminInv'
    BY <1>10 DEF Interrupt, Inv, TypeOK, AdminInv
  <2>4. ConfigInv'
    BY <1>10 DEF Interrupt, Inv, TypeOK, ConfigInv
  <2>5. MigrateInv'
    BY <1>10 DEF Interrupt, database, Inv, TypeOK, MigrateInv, Last
  <2> QED
    BY <2>1, <2>2, <2>3, <2>4, <2>5 DEF Inv
<1>11. ASSUME NEW s \in Server, RunReturns(s) PROVE Inv'
  <2>1. TypeOK'
    BY <1>11 DEF RunReturns, database, Inv, TypeOK, Last, VersionType, PC, ListenerState, NoListener
  <2>2. MadeInv'
    BY <1>11 DEF RunReturns, Inv, TypeOK, MadeInv
  <2>3. AdminInv'
    BY <1>11 DEF RunReturns, Inv, TypeOK, AdminInv
  <2>4. ConfigInv'
    BY <1>11 DEF RunReturns, Inv, TypeOK, ConfigInv
  <2>5. MigrateInv'
    BY <1>11 DEF RunReturns, database, Inv, TypeOK, MigrateInv, Last
  <2> QED
    BY <2>1, <2>2, <2>3, <2>4, <2>5 DEF Inv
<1>12. ASSUME NEW k \in Key, NEW v \in Value, AdminSet(k, v) PROVE Inv'
  <2>1. TypeOK'
    BY <1>12 DEF AdminSet, database, Inv, TypeOK, Last, VersionType, PC, ListenerState, NoListener
  <2>2. MadeInv'
    BY <1>12 DEF AdminSet, Inv, TypeOK, MadeInv
  <2>3. AdminInv'
    BY <1>12 DEF AdminSet, Inv, TypeOK, AdminInv
  <2>4. ConfigInv'
    BY <1>12 DEF AdminSet, Inv, TypeOK, ConfigInv
  <2>5. MigrateInv'
    BY <1>12 DEF AdminSet, database, Inv, TypeOK, MigrateInv, Last
  <2> QED
    BY <2>1, <2>2, <2>3, <2>4, <2>5 DEF Inv
<1>14. ASSUME NEW s \in Server, ReadVersion(s) PROVE Inv'
  <2>1. TypeOK'
    BY <1>14 DEF ReadVersion, database, Inv, TypeOK, Last, VersionType, PC, ListenerState, NoListener
  <2>2. MadeInv'
    BY <1>14 DEF ReadVersion, Inv, TypeOK, MadeInv
  <2>3. AdminInv'
    BY <1>14 DEF ReadVersion, Inv, TypeOK, AdminInv
  <2>4. ConfigInv'
    BY <1>14 DEF ReadVersion, Inv, TypeOK, ConfigInv
  <2>5. MigrateInv'
    BY <1>14 DEF ReadVersion, database, Inv, TypeOK, VersionType, MigrateInv, Last
  <2> QED
    BY <2>1, <2>2, <2>3, <2>4, <2>5 DEF Inv
<1>15. ASSUME NEW s \in Server, MarkDirty(s) PROVE Inv'
  <2>1. TypeOK'
    BY <1>15 DEF MarkDirty, database, Inv, TypeOK, Last, VersionType, PC, ListenerState, NoListener
  <2>2. MadeInv'
    BY <1>15 DEF MarkDirty, Inv, TypeOK, MadeInv
  <2>3. AdminInv'
    BY <1>15 DEF MarkDirty, Inv, TypeOK, AdminInv
  <2>4. ConfigInv'
    BY <1>15 DEF MarkDirty, Inv, TypeOK, ConfigInv
  <2>5. MigrateInv'
    BY <1>15 DEF MarkDirty, database, Inv, TypeOK, VersionType, MigrateInv, Last
  <2> QED
    BY <2>1, <2>2, <2>3, <2>4, <2>5 DEF Inv
<1>16. ASSUME NEW s \in Server, ApplyMigration(s) PROVE Inv'
  <2>1. TypeOK'
    BY <1>16 DEF ApplyMigration, database, Inv, TypeOK, Last, VersionType, PC, ListenerState, NoListener
  <2>2. MadeInv'
    BY <1>16 DEF ApplyMigration, Inv, TypeOK, MadeInv
  <2>3. AdminInv'
    BY <1>16 DEF ApplyMigration, Inv, TypeOK, AdminInv
  <2>4. ConfigInv'
    BY <1>16 DEF ApplyMigration, Inv, TypeOK, ConfigInv
  <2>5. MigrateInv'
    BY <1>16 DEF ApplyMigration, database, Inv, TypeOK, VersionType, MigrateInv, Last
  <2> QED
    BY <2>1, <2>2, <2>3, <2>4, <2>5 DEF Inv
<1>17. ASSUME NEW s \in Server, ClearDirty(s) PROVE Inv'
  <2>1. TypeOK'
    BY <1>17 DEF ClearDirty, database, Inv, TypeOK, Last, VersionType, PC, ListenerState, NoListener
  <2>2. MadeInv'
    BY <1>17 DEF ClearDirty, Inv, TypeOK, MadeInv
  <2>3. AdminInv'
    BY <1>17 DEF ClearDirty, Inv, TypeOK, AdminInv
  <2>4. ConfigInv'
    BY <1>17 DEF ClearDirty, Inv, TypeOK, ConfigInv
  <2>5. MigrateInv'
    BY <1>17 DEF ClearDirty, database, Inv, TypeOK, VersionType, MigrateInv, Last
  <2> QED
    BY <2>1, <2>2, <2>3, <2>4, <2>5 DEF Inv
<1>13. CASE UNCHANGED vars
  BY <1>13 DEF vars, Inv, TypeOK, MadeInv, AdminInv, ConfigInv, MigrateInv
<1> QED
  BY <1>1, <1>2, <1>3, <1>4, <1>5, <1>6, <1>7, <1>8, <1>9, <1>10, <1>11, <1>12, <1>13,
     <1>14, <1>15, <1>16, <1>17 DEF Next

(* Every step keeps the types.                                              *)
THEOREM TypeCorrect == Spec => []TypeOK
<1>1. Inv => TypeOK
  BY DEF Inv
<1> QED
  BY InitInv, NextInv, <1>1, PTL DEF Spec

(* A server that runs has every table, an administrator and a value for     *)
(* every key, wherever earlier starts stopped and however many start        *)
(* together (Migrate, NewDefaultServer, InitDefaultConfig).                 *)
THEOREM StartIsComplete == Spec => []RunningIsSetUp
<1>1. Inv => RunningIsSetUp
  BY DEF Inv, AdminInv, ConfigInv, MigrateInv, RunningIsSetUp
<1> QED
  BY InitInv, NextInv, <1>1, PTL DEF Spec

(* No start changes a value that is set (SetIfNotExists).                   *)
THEOREM ConfigKept == Spec => StartKeepsConfig
<1> DEFINE Keeps ==
      \A k \in Key : table[k] # nil =>
          table'[k] = table[k] \/ \E v \in Value : AdminSet(k, v)
<1>1. ASSUME Inv, [Next]_vars PROVE [Keeps]_vars
  <2> SUFFICES ASSUME NEW k \in Key, table[k] # nil
               PROVE table'[k] = table[k] \/ \E v \in Value : AdminSet(k, v)
    OBVIOUS
  <2>1. CASE UNCHANGED table
    BY <2>1
  <2>2. ASSUME NEW s \in Server, NEW j \in Key, NEW v \in Value, SetIfNotExists(s, j, v)
        PROVE table'[k] = table[k]
    BY <2>2 DEF SetIfNotExists, Inv, TypeOK
  <2>3. ASSUME NEW j \in Key, NEW v \in Value, AdminSet(j, v), j # k
        PROVE table'[k] = table[k]
    BY <2>3 DEF AdminSet, Inv, TypeOK
  <2>4. \/ UNCHANGED table
        \/ \E s \in Server, j \in Key, v \in Value : SetIfNotExists(s, j, v)
        \/ \E j \in Key, v \in Value : AdminSet(j, v)
    BY <1>1 DEF Next, vars, Start, ReadVersion, MarkDirty, ApplyMigration, ClearDirty,
                CheckAdmin, CreateAdmin, LogCredentials, ConfigDone,
                Fails, Listen, ListenFails, Interrupt, RunReturns
  <2> QED
    BY <2>1, <2>2, <2>3, <2>4
<1>2. StartKeepsConfig <=> [][Keeps]_vars
  BY DEF StartKeepsConfig
<1> QED
  BY InitInv, NextInv, <1>1, <1>2, PTL DEF Spec

-----------------------------------------------------------------------------
Creating == {s \in Server : pc[s] = "create"}

\* Who is past the check and before the insert counts as an account.
AdminCount == users + Cardinality(Creating) <= Cardinality(Server)

LEMMA CreatingIsFinite ==
    /\ IsFiniteSet(Creating) /\ Cardinality(Creating) \in Nat
    /\ Cardinality(Server) \in Nat
    /\ Cardinality(Creating) <= Cardinality(Server)
<1>1. Creating \in SUBSET Server
  BY DEF Creating
<1> QED
  BY <1>1, FS_Subset, FS_CardinalityType, BootAssumption

LEMMA InitCount == Init => AdminCount
<1> SUFFICES ASSUME Init PROVE AdminCount
  OBVIOUS
<1>1. Creating = {}
  BY DEF Init, Creating
<1> QED
  BY <1>1, CreatingIsFinite, FS_EmptySet DEF Init, AdminCount

LEMMA NextCount == TypeOK /\ AdminCount /\ [Next]_vars => AdminCount'
<1> SUFFICES ASSUME TypeOK, AdminCount, [Next]_vars PROVE AdminCount'
  OBVIOUS
<1>0. /\ users \in Nat /\ IsFiniteSet(Creating) /\ Cardinality(Creating) \in Nat
      /\ Cardinality(Server) \in Nat
  BY CreatingIsFinite DEF TypeOK
<1>1. ASSUME NEW s \in Server, CheckAdmin(s) PROVE AdminCount'
  <2>1. UNCHANGED users
    BY <1>1 DEF CheckAdmin
  <2>2. CASE users = 0
    <3>1. Creating' \in SUBSET Server
      BY DEF Creating
    <3>2. Cardinality(Creating') <= Cardinality(Server) /\ Cardinality(Creating') \in Nat
      BY <3>1, FS_Subset, FS_CardinalityType, BootAssumption
    <3> QED
      BY <1>0, <2>1, <2>2, <3>2 DEF AdminCount
  <2>3. CASE users # 0
    <3>1. Creating' = Creating
      BY <1>1, <2>3 DEF CheckAdmin, Creating, TypeOK
    <3> QED
      BY <2>1, <3>1 DEF AdminCount
  <2> QED
    BY <2>2, <2>3
<1>2. ASSUME NEW s \in Server, CreateAdmin(s) PROVE AdminCount'
  <2>1. users' = users + 1 /\ s \in Creating /\ Creating' = Creating \ {s}
    BY <1>2 DEF CreateAdmin, Creating, TypeOK
  <2>2. Cardinality(Creating') = Cardinality(Creating) - 1
    BY <1>0, <2>1, FS_RemoveElement
  <2> QED
    BY <1>0, <2>1, <2>2 DEF AdminCount
<1>3. ASSUME NEW s \in Server, Fails(s) PROVE AdminCount'
  <2>1. UNCHANGED users /\ Creating' = Creating \ {s}
    BY <1>3 DEF Fails, Creating, TypeOK
  <2>2. IsFiniteSet(Creating') /\ Cardinality(Creating') \in {Cardinality(Creating), Cardinality(Creating) - 1}
    BY <1>0, <2>1, FS_RemoveElement
  <2>3. Cardinality(Creating') \in Nat
    BY <2>2, FS_CardinalityType
  <2> QED
    BY <1>0, <2>1, <2>2, <2>3 DEF AdminCount
<1>4. ASSUME Creating' = Creating, UNCHANGED users PROVE AdminCount'
  BY <1>4 DEF AdminCount
<1>5. ASSUME NEW s \in Server,
             \/ Start(s) \/ ReadVersion(s) \/ MarkDirty(s) \/ ApplyMigration(s)
             \/ ClearDirty(s) \/ LogCredentials(s) \/ ConfigDone(s)
             \/ Interrupt(s) \/ RunReturns(s)
      PROVE  AdminCount'
  BY <1>4, <1>5 DEF Start, ReadVersion, MarkDirty, ApplyMigration, ClearDirty,
                    LogCredentials, ConfigDone, Interrupt, RunReturns, Creating, TypeOK
<1>6. ASSUME \/ \E s \in Server, k \in Key, v \in Value : SetIfNotExists(s, k, v)
             \/ \E s \in Server, a \in Addr : Listen(s, a) \/ ListenFails(s, a)
             \/ \E k \in Key, v \in Value : AdminSet(k, v)
             \/ UNCHANGED vars
      PROVE  AdminCount'
  BY <1>4, <1>6 DEF SetIfNotExists, Listen, ListenFails, AdminSet, vars, Creating
<1> QED
  BY <1>1, <1>2, <1>3, <1>5, <1>6 DEF Next

(* However many servers start on one database, and however often each is    *)
(* killed and started again, each makes at most one default administrator   *)
(* (NewDefaultServer).                                                      *)
THEOREM AdminsAreBounded == Spec => []AdminsBounded
<1>1. TypeOK /\ AdminCount => AdminsBounded
  BY CreatingIsFinite DEF AdminCount, AdminsBounded, TypeOK
<1>2. Inv => TypeOK
  BY DEF Inv
<1> QED
  BY InitInv, NextInv, InitCount, NextCount, <1>1, <1>2, PTL DEF Spec

-----------------------------------------------------------------------------
LEMMA NextShown == TypeOK /\ CredentialsShown /\ [Next]_vars => CredentialsShown'
<1> SUFFICES ASSUME TypeOK, CredentialsShown, [Next]_vars PROVE CredentialsShown'
  OBVIOUS
<1>0. users \in Nat
  BY DEF TypeOK
\* A step that makes no account and takes nobody from the log line.
<1>1. ASSUME UNCHANGED users, shown \subseteq shown', lost \subseteq lost',
             \A t \in Server : pc[t] = "log" =>
                 \/ pc'[t] = "log" /\ made'[t] = made[t]
                 \/ made[t] \in shown' \cup lost'
      PROVE  CredentialsShown'
  BY <1>1 DEF CredentialsShown
<1>2. ASSUME NEW s \in Server, CreateAdmin(s) PROVE CredentialsShown'
  <2>1. /\ users' = users + 1 /\ UNCHANGED <<shown, lost>>
        /\ pc'[s] = "log" /\ made'[s] = users + 1
        /\ \A t \in Server : pc[t] = "log" => pc'[t] = "log" /\ made'[t] = made[t]
    BY <1>0, <1>2 DEF CreateAdmin, TypeOK
  <2>2. ASSUME NEW cid \in 1..users', cid # users + 1
        PROVE  cid \in shown' \cup lost' \/ \E t \in Server : pc'[t] = "log" /\ made'[t] = cid
    <3>1. cid \in 1..users
      BY <1>0, <2>1, <2>2
    <3> QED
      BY <2>1, <3>1 DEF CredentialsShown
  <2> QED
    BY <2>1, <2>2 DEF CredentialsShown
<1>3. ASSUME NEW s \in Server, LogCredentials(s) PROVE CredentialsShown'
  BY <1>1, <1>3 DEF LogCredentials, TypeOK
<1>4. ASSUME NEW s \in Server, Fails(s) PROVE CredentialsShown'
  BY <1>1, <1>4 DEF Fails, TypeOK
<1>5. ASSUME NEW s \in Server,
             \/ Start(s) \/ ReadVersion(s) \/ MarkDirty(s) \/ ApplyMigration(s)
             \/ ClearDirty(s) \/ CheckAdmin(s) \/ ConfigDone(s)
             \/ Interrupt(s) \/ RunReturns(s)
      PROVE  CredentialsShown'
  BY <1>1, <1>5 DEF Start, ReadVersion, MarkDirty, ApplyMigration, ClearDirty,
                    CheckAdmin, ConfigDone, Interrupt, RunReturns, TypeOK
<1>6. ASSUME \/ \E s \in Server, k \in Key, v \in Value : SetIfNotExists(s, k, v)
             \/ \E s \in Server, a \in Addr : Listen(s, a) \/ ListenFails(s, a)
             \/ \E k \in Key, v \in Value : AdminSet(k, v)
             \/ UNCHANGED vars
      PROVE  CredentialsShown'
  BY <1>1, <1>6 DEF SetIfNotExists, Listen, ListenFails, AdminSet, vars
<1> QED
  BY <1>2, <1>3, <1>4, <1>5, <1>6 DEF Next

(* The password of every account made at a start is in a log or about to be *)
(* put there, unless the server that made it fell between the commit and    *)
(* the log line (NewDefaultServer): no other fault, of this server or of    *)
(* another, loses it.                                                       *)
THEOREM CredentialsAreShown == Spec => []CredentialsShown
<1>1. Init => CredentialsShown
  BY DEF Init, CredentialsShown
<1>2. Inv => TypeOK
  BY DEF Inv
<1> QED
  BY InitInv, NextInv, NextShown, <1>1, <1>2, PTL DEF Spec
=============================================================================
