-------------------------------- MODULE Boot --------------------------------
(***************************************************************************)
(* What an FSD server does before it serves (fsd/server.go): migrate the   *)
(* database (DATABASE_AUTO_MIGRATE, on in docker-compose.yml), make the    *)
(* default administrator, write the default configuration, open its        *)
(* listeners.  Every statement may fail and every server may be killed     *)
(* between two of them; it is started again, and several may share one     *)
(* database.  Meanwhile an administrator changes the configuration.        *)
(***************************************************************************)
EXTENDS Naturals, FiniteSets

CONSTANTS
    Server, Addr,
    Key,
    Value,      \* of a key; a default of the secret is random
    nil,
    MaxFault    \* bound: faults and interrupts altogether

ASSUME BootAssumption ==
    IsFiniteSet(Server) /\ nil \notin Value /\ MaxFault \in Nat

VARIABLES
    pc,        \* how far each server has come
    next,      \* the migration at which its migrator is
    version,   \* what schema_migrations says: a migration, and whether it is dirty
    schema,    \* how many migrations have been applied
    left,      \* the defaults it has still to write
    made,      \* the CID of the account it has made
    users,     \* how many accounts there are: CIDs are given in order
    shown,     \* the CIDs whose password is in a log
    lost,      \* those whose server fell between the commit and the log line
    table,     \* the config table
    listener,  \* of each server's addresses
    faults     \* counter for the bound

vars == <<pc, next, version, schema, left, made, users, shown, lost, table, listener, faults>>
database == <<version, schema>>

PC == {"down", "migrate", "mark", "apply", "clear",
       "check", "create", "log", "config", "running"}
\* db/migrations: the users table, then the config table.
Last == 2
VersionType == [at : 0..Last, dirty : BOOLEAN]
ListenerState == {"new", "up", "failed", "closed"}
NoListener == [a \in Addr |-> "new"]

Init ==
    /\ pc = [s \in Server |-> "down"]
    /\ next = [s \in Server |-> 1]
    /\ schema \in {0, Last}          \* a new database, or an earlier release's
    /\ version = [at |-> schema, dirty |-> FALSE]
    /\ left = [s \in Server |-> {}]
    /\ made = [s \in Server |-> nil]
    /\ users = 0 /\ shown = {} /\ lost = {}
    /\ table = [k \in Key |-> nil]
    /\ listener = [s \in Server |-> NoListener]
    /\ faults = 0

-----------------------------------------------------------------------------
Start(s) ==
    /\ pc[s] = "down"
    /\ pc' = [pc EXCEPT ![s] = "migrate"]
    /\ left' = [left EXCEPT ![s] = Key]
    /\ UNCHANGED <<next, database, made, users, shown, lost, table, listener, faults>>

(* The migration library's Up.  Its lock on the database is not counted on: *)
(* the SQLite driver's is a flag of the process, and under the advisory     *)
(* lock PostgreSQL takes fewer orders are possible.                         *)
ReadVersion(s) ==
    /\ pc[s] = "migrate"
    /\ pc' = [pc EXCEPT ![s] = IF version.dirty THEN "down"
                               ELSE IF version.at = Last THEN "check" ELSE "mark"]
    /\ next' = [next EXCEPT ![s] = IF version.at < Last THEN version.at + 1 ELSE @]
    /\ UNCHANGED <<database, left, made, users, shown, lost, table, listener, faults>>

MarkDirty(s) ==
    /\ pc[s] = "mark"
    /\ version' = [at |-> next[s], dirty |-> TRUE]
    /\ pc' = [pc EXCEPT ![s] = "apply"]
    /\ UNCHANGED <<next, schema, left, made, users, shown, lost, table, listener, faults>>

\* "create table" is an error when another server has been here.
ApplyMigration(s) ==
    /\ pc[s] = "apply"
    /\ schema' = IF schema < next[s] THEN next[s] ELSE schema
    /\ pc' = [pc EXCEPT ![s] = IF schema < next[s] THEN "clear" ELSE "down"]
    /\ UNCHANGED <<next, version, left, made, users, shown, lost, table, listener, faults>>

ClearDirty(s) ==
    /\ pc[s] = "clear"
    /\ version' = [at |-> next[s], dirty |-> FALSE]
    /\ pc' = [pc EXCEPT ![s] = IF next[s] = Last THEN "check" ELSE "mark"]
    /\ next' = [next EXCEPT ![s] = IF @ = Last THEN @ ELSE @ + 1]
    /\ UNCHANGED <<schema, left, made, users, shown, lost, table, listener, faults>>

\* Fault: the credentials are logged with every start.
CheckLogs(s) ==
    /\ pc[s] = "check"
    /\ pc' = [pc EXCEPT ![s] = IF users = 0 THEN "create" ELSE "log"]
    /\ UNCHANGED <<next, database, left, made, users, shown, lost, table, listener, faults>>
\* Fault: the check is gone.
CheckSkipped(s) ==
    /\ pc[s] = "check"
    /\ pc' = [pc EXCEPT ![s] = "create"]
    /\ UNCHANGED <<next, database, left, made, users, shown, lost, table, listener, faults>>
\* GetUserByCID(1)
CheckAdmin(s) ==
    /\ pc[s] = "check"
    /\ pc' = [pc EXCEPT ![s] = IF users = 0 THEN "create" ELSE "config"]
    /\ UNCHANGED <<next, database, left, made, users, shown, lost, table, listener, faults>>

\* Fault: the account is made and its password not logged.
CreateSilently(s) ==
    /\ pc[s] = "create"
    /\ users' = users + 1
    /\ made' = [made EXCEPT ![s] = users']
    /\ pc' = [pc EXCEPT ![s] = "config"]
    /\ UNCHANGED <<next, database, left, shown, lost, table, listener, faults>>
\* The database gives the next CID.
CreateAdmin(s) ==
    /\ pc[s] = "create"
    /\ users' = users + 1
    /\ made' = [made EXCEPT ![s] = users']
    /\ pc' = [pc EXCEPT ![s] = "log"]
    /\ UNCHANGED <<next, database, left, shown, lost, table, listener, faults>>

LogCredentials(s) ==
    /\ pc[s] = "log"
    /\ shown' = shown \cup {made[s]}
    /\ pc' = [pc EXCEPT ![s] = "config"]
    /\ UNCHANGED <<next, database, left, made, users, lost, table, listener, faults>>

\* Fault: the default replaces what is there.
SetAnyway(s, k, v) ==
    /\ pc[s] = "config" /\ k \in left[s]
    /\ table' = [table EXCEPT ![k] = v]
    /\ left' = [left EXCEPT ![s] = @ \ {k}]
    /\ UNCHANGED <<next, database, pc, made, users, shown, lost, listener, faults>>
\* Fault: a key that is there already is an error.
InsertOnly(s, k, v) ==
    /\ pc[s] = "config" /\ k \in left[s]
    /\ table' = IF table[k] = nil THEN [table EXCEPT ![k] = v] ELSE table
    /\ left' = [left EXCEPT ![s] = @ \ {k}]
    /\ pc' = IF table[k] = nil THEN pc ELSE [pc EXCEPT ![s] = "down"]
    /\ UNCHANGED <<next, database, made, users, shown, lost, listener, faults>>
\* One statement; the map's keys come in any order.
SetIfNotExists(s, k, v) ==
    /\ pc[s] = "config" /\ k \in left[s]
    /\ table' = IF table[k] = nil THEN [table EXCEPT ![k] = v] ELSE table
    /\ left' = [left EXCEPT ![s] = @ \ {k}]
    /\ UNCHANGED <<next, database, pc, made, users, shown, lost, listener, faults>>

\* Fault: an error of one key is left at that.
ConfigGoesOn(s) ==
    /\ pc[s] = "config"
    /\ pc' = [pc EXCEPT ![s] = "running"]
    /\ UNCHANGED <<next, database, left, made, users, shown, lost, table, listener, faults>>
ConfigDone(s) ==
    /\ pc[s] = "config" /\ left[s] = {}
    /\ pc' = [pc EXCEPT ![s] = "running"]
    /\ UNCHANGED <<next, database, left, made, users, shown, lost, table, listener, faults>>

\* A statement fails and NewDefaultServer returns, or the process is killed.
Fails(s) ==
    /\ pc[s] # "down" /\ faults < MaxFault
    /\ pc' = [pc EXCEPT ![s] = "down"]
    /\ made' = [made EXCEPT ![s] = nil]
    /\ listener' = [listener EXCEPT ![s] = NoListener]
    /\ lost' = IF pc[s] = "log" THEN lost \cup {made[s]} ELSE lost
    /\ faults' = faults + 1
    /\ UNCHANGED <<next, database, left, users, shown, table>>

-----------------------------------------------------------------------------
(* Run: a goroutine for each address, and one that closes errCh when all of *)
(* them have returned.                                                      *)
Listen(s, a) ==
    /\ pc[s] = "running" /\ listener[s][a] = "new"
    /\ listener' = [listener EXCEPT ![s][a] = "up"]
    /\ UNCHANGED <<next, database, pc, left, made, users, shown, lost, table, faults>>

ListenFails(s, a) ==
    /\ pc[s] = "running" /\ listener[s][a] = "new" /\ faults < MaxFault
    /\ listener' = [listener EXCEPT ![s][a] = "failed"]
    /\ faults' = faults + 1
    /\ UNCHANGED <<next, database, pc, left, made, users, shown, lost, table>>

\* The context is cancelled: an open listener is closed; Listen with a cancelled
\* context may fail or open what is closed at once.
Interrupt(s) ==
    /\ pc[s] = "running" /\ faults < MaxFault
    /\ \E ends \in [Addr -> {"failed", "closed"}] :
         /\ \A a \in Addr : listener[s][a] = "failed" => ends[a] = "failed"
         /\ \A a \in Addr : listener[s][a] \in {"up", "closed"} => ends[a] = "closed"
         /\ listener' = [listener EXCEPT ![s] = ends]
    /\ faults' = faults + 1
    /\ UNCHANGED <<next, database, pc, left, made, users, shown, lost, table>>

RunReturns(s) ==
    /\ pc[s] = "running"
    /\ \A a \in Addr : listener[s][a] \in {"failed", "closed"}
    /\ pc' = [pc EXCEPT ![s] = "down"]
    /\ made' = [made EXCEPT ![s] = nil]
    /\ listener' = [listener EXCEPT ![s] = NoListener]
    /\ UNCHANGED <<next, database, left, users, shown, lost, table, faults>>

\* handleUpdateConfig and handleResetSecretKey of the web server.
AdminSet(k, v) ==
    /\ users > 0 /\ table[k] # v
    /\ table' = [table EXCEPT ![k] = v]
    /\ UNCHANGED <<next, database, pc, left, made, users, shown, lost, listener, faults>>

-----------------------------------------------------------------------------
Next ==
    \/ \E s \in Server :
         \/ Start(s)
         \/ ReadVersion(s) \/ MarkDirty(s) \/ ApplyMigration(s) \/ ClearDirty(s)
         \/ CheckAdmin(s) \/ CreateAdmin(s) \/ LogCredentials(s)
         \/ \E k \in Key, v \in Value : SetIfNotExists(s, k, v)
         \/ ConfigDone(s) \/ Fails(s)
         \/ \E a \in Addr : Listen(s, a) \/ ListenFails(s, a)
         \/ Interrupt(s) \/ RunReturns(s)
    \/ \E k \in Key, v \in Value : AdminSet(k, v)

Spec == Init /\ [][Next]_vars

(* A server that is down is started again (docker-compose.yml: restart:     *)
(* unless-stopped), and one that is not killed goes on.                     *)
Fairness ==
    \A s \in Server :
        /\ WF_vars(Start(s)) /\ WF_vars(ReadVersion(s)) /\ WF_vars(MarkDirty(s))
        /\ WF_vars(ApplyMigration(s)) /\ WF_vars(ClearDirty(s))
        /\ WF_vars(CheckAdmin(s)) /\ WF_vars(CreateAdmin(s))
        /\ WF_vars(LogCredentials(s)) /\ WF_vars(ConfigDone(s))
        /\ \A k \in Key : WF_vars(\E v \in Value : SetIfNotExists(s, k, v))
        /\ \A a \in Addr : WF_vars(Listen(s, a))
        /\ WF_vars(RunReturns(s))
LiveSpec == Spec /\ Fairness

-----------------------------------------------------------------------------
\* Types.
TypeOK ==
    /\ pc \in [Server -> PC]
    /\ next \in [Server -> 1..Last] /\ schema \in 0..Last /\ version \in VersionType
    /\ left \in [Server -> SUBSET Key]
    /\ made \in [Server -> Nat \cup {nil}]
    /\ users \in Nat /\ shown \subseteq Nat /\ lost \subseteq Nat
    /\ table \in [Key -> Value \cup {nil}]
    /\ listener \in [Server -> [Addr -> ListenerState]]
    /\ faults \in 0..MaxFault

(* "Ensure default configuration is written to persistent storage"          *)
(* (server.go:97): a server that runs has every table, an administrator and *)
(* a value for every key, whichever start was the first, wherever earlier   *)
(* ones stopped, and with whom it shared the migrations.                    *)
RunningIsSetUp ==
    \A s \in Server : pc[s] = "running" =>
        schema = Last /\ users > 0 /\ \A k \in Key : table[k] # nil

(* "sets a value for a given key if it does not already exist"              *)
(* (config_repository.go:14): no start changes what an administrator or an  *)
(* earlier start has set; sessions survive a restart with their secret.     *)
StartKeepsConfig ==
    [][\A k \in Key : table[k] # nil =>
         table'[k] = table[k] \/ \E v \in Value : AdminSet(k, v)]_vars

(* Past the migrations, a start that was cut off anywhere can be done       *)
(* again: unless a migrator left its dirty mark behind for good, every      *)
(* server comes to run after the last fault, and serves at one of its       *)
(* addresses from then on, since Run (server.go:131) returns only when no   *)
(* listener is left.                                                        *)
StartServes ==
    []<>(~version.dirty) =>
        <>[](\A s \in Server : pc[s] = "running" /\ \E a \in Addr : listener[s][a] = "up")

(* "Generate a default admin user if CID 1 isn't taken" (server.go:72).     *)
(* The check and the insert are two statements, so servers that start       *)
(* together may make an account each; however often they are started        *)
(* again, no server makes a second one.                                     *)
AdminsBounded == users <= Cardinality(Server)

(* The password of every account made at a start is in a log, or about to   *)
(* be put there by the server that made the account, unless that server     *)
(* fell between the commit (server.go:81) and the log line (server.go:84).  *)
CredentialsShown ==
    \A cid \in 1..users :
        cid \in shown \cup lost \/ \E s \in Server : pc[s] = "log" /\ made[s] = cid
=============================================================================
