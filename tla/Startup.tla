------------------------------ MODULE Startup ------------------------------
(***************************************************************************)
(* How a gateway process comes up (rust/fwllm-gateway/src/main.rs): load   *)
(* the configuration, open and migrate the audit database, build the state *)
(* (state.rs), make sure of the certificates, start the ingress listener   *)
(* in a task of its own, bind the main port, serve.                        *)
(*                                                                         *)
(* Several worker processes share one audit database; each has its own     *)
(* certificate directory.  A process may die between any two steps and is  *)
(* started again; the database and the files stay as they are.             *)
(***************************************************************************)
EXTENDS Naturals, FiniteSets

CONSTANTS
    Procs,        \* worker processes
    IngressProcs, \* the ones whose configuration may enable ingress
    MaxStarts     \* bound: starts of one process

ASSUME StartupAssumption ==
    /\ IngressProcs \subseteq Procs
    /\ MaxStarts \in Nat

VARIABLES
    pc,       \* where main is
    starts,   \* starts of each process
    cfg,      \* its configuration: is ingress enabled, what is wrong with it
    columns,  \* of the audit table, NoTable before it exists
    seen,     \* what PRAGMA table_info returned to the open of a process
    audit,    \* AppState::audit
    ioError,  \* history: a statement of open failed
    raced,    \* history: another process altered the table since it was read
    files,    \* server.crt, server.key and ca.crt of each process
    tls,      \* the certificate and the key the listener was given
    ingress   \* the ingress task

db == <<columns, seen, audit, ioError, raced>>
certs == <<files, tls>>
vars == <<pc, starts, cfg, db, certs, ingress>>

NoTable == {"none"}
New == {"usage_source", "request_id"}
Names == {"crt", "key", "ca"}

(* A file is absent, torn (truncated and not written yet) or holds its     *)
(* part of a key pair, named after the start that generated it.            *)
Absent == [state |-> "absent", of |-> 0]
Torn == [state |-> "torn", of |-> 0]
Part(n) == [state |-> "whole", of |-> n]
File == [state : {"absent", "torn", "whole"}, of : 0..MaxStarts]
Exists(f) == f.state # "absent"

NoTls == [crt |-> 0, key |-> 0]

Wrong == {"nothing", "load", "build"}
Off == [ingress |-> FALSE, wrong |-> "nothing"]

Stages == {"down", "loaded", "opened", "read", "altered", "migrated", "certs",
           "crt", "key", "ca", "tls", "binding", "serving"}

TypeOK ==
    /\ pc \in [Procs -> Stages]
    /\ starts \in [Procs -> 0..MaxStarts]
    /\ cfg \in [Procs -> [ingress : BOOLEAN, wrong : Wrong]]
    /\ columns = NoTable \/ columns \subseteq New
    /\ seen \in [Procs -> SUBSET New]
    /\ audit \in [Procs -> BOOLEAN]
    /\ ioError \in [Procs -> BOOLEAN]
    /\ raced \in [Procs -> BOOLEAN]
    /\ files \in [Procs -> [Names -> File]]
    /\ tls \in [Procs -> [crt : 0..MaxStarts, key : 0..MaxStarts]]
    /\ ingress \in [Procs -> {"off", "starting", "bound", "dead"}]

(* Nothing, the files of an earlier run, a certificate and key the operator *)
(* brought without a ca.crt, or with all three but a broken key.  A ca.crt  *)
(* beside a missing certificate is not among them: it takes someone who    *)
(* deletes server.crt alone.                                               *)
FirstFiles ==
    {[n \in Names |-> Absent],
     [n \in Names |-> Part(0)],
     [n \in Names |-> IF n = "ca" THEN Absent ELSE Part(0)],
     [n \in Names |-> IF n = "key" THEN Torn ELSE Part(0)]}

Init ==
    /\ pc = [p \in Procs |-> "down"]
    /\ starts = [p \in Procs |-> 0]
    /\ cfg = [p \in Procs |-> Off]
    /\ columns \in {NoTable} \cup {{}, {"usage_source"}, New}
    /\ seen = [p \in Procs |-> {}]
    /\ audit = [p \in Procs |-> FALSE]
    /\ ioError = [p \in Procs |-> FALSE]
    /\ raced = [p \in Procs |-> FALSE]
    /\ files \in {[p \in Procs |-> have] : have \in FirstFiles}
    /\ tls = [p \in Procs |-> NoTls]
    /\ ingress = [p \in Procs |-> "off"]

-----------------------------------------------------------------------------
At(p, here) == pc[p] = here
Go(p, there) == pc' = [pc EXCEPT ![p] = there]

\* The process is gone and with it everything it had in memory.
Ended(p) ==
    /\ Go(p, "down")
    /\ cfg' = [cfg EXCEPT ![p] = Off]
    /\ seen' = [seen EXCEPT ![p] = {}]
    /\ audit' = [audit EXCEPT ![p] = FALSE]
    /\ ioError' = [ioError EXCEPT ![p] = FALSE]
    /\ raced' = [raced EXCEPT ![p] = FALSE]
    /\ tls' = [tls EXCEPT ![p] = NoTls]
    /\ ingress' = [ingress EXCEPT ![p] = "off"]
    /\ UNCHANGED <<starts, columns, files>>

\* load_config: the file, the overrides from the environment, the check of
\* ingress.listen, the API keys; any failure ends the process.
Load(p, c) ==
    /\ At(p, "down")
    /\ starts[p] < MaxStarts
    /\ starts' = [starts EXCEPT ![p] = @ + 1]
    /\ \/ c.wrong = "load" /\ UNCHANGED <<pc, cfg>>
       \/ c.wrong # "load" /\ Go(p, "loaded") /\ cfg' = [cfg EXCEPT ![p] = c]
    /\ UNCHANGED <<db, certs, ingress>>

-----------------------------------------------------------------------------
(* AuditLog::open.  Each statement is a transaction of its own.            *)

\* Slip: the table is left to the first write.
OpenOnly(p) ==
    /\ At(p, "loaded")
    /\ ioError' = [ioError EXCEPT ![p] = FALSE]
    /\ Go(p, "opened")
    /\ UNCHANGED <<starts, cfg, columns, seen, audit, raced, certs, ingress>>

\* The connection, the pragmas and CREATE TABLE IF NOT EXISTS, which makes a
\* new table with all columns.
CreateTable(p) ==
    /\ At(p, "loaded")
    /\ columns' = IF columns = NoTable THEN New ELSE columns
    /\ ioError' = [ioError EXCEPT ![p] = FALSE]
    /\ Go(p, "opened")
    /\ UNCHANGED <<starts, cfg, seen, audit, raced, certs, ingress>>

\* Any statement may fail (the file, a lock held for longer than busy_timeout):
\* the audit is disabled, with a warning.
OpenFails(p) ==
    /\ pc[p] \in {"loaded", "opened", "read", "altered"}
    /\ ioError' = [ioError EXCEPT ![p] = TRUE]
    /\ seen' = [seen EXCEPT ![p] = {}]
    /\ Go(p, "migrated")
    /\ UNCHANGED <<starts, cfg, columns, audit, raced, certs, ingress>>

TableInfo(p) ==
    /\ At(p, "opened")
    /\ seen' = [seen EXCEPT ![p] = columns]
    /\ raced' = [raced EXCEPT ![p] = FALSE]
    /\ Go(p, "read")
    /\ UNCHANGED <<starts, cfg, columns, audit, ioError, certs, ingress>>

Migrating(q) == pc[q] \in {"read", "altered"}

\* ALTER TABLE ADD COLUMN fails when the column is there already, and the
\* error ends open.
AddColumn(p, name, there) ==
    /\ columns' = columns \cup {name}
    /\ raced' = [q \in Procs |->
                   raced[q] \/ (q # p /\ Migrating(q) /\ name \notin columns)]
    /\ Go(p, IF name \in columns THEN "migrated" ELSE there)

Skip(p, there) == Go(p, there) /\ UNCHANGED <<columns, raced>>

AlterUsageSource(p) ==
    /\ At(p, "read")
    /\ IF "usage_source" \in seen[p] THEN Skip(p, "altered")
       ELSE AddColumn(p, "usage_source", "altered")
    /\ UNCHANGED <<starts, cfg, seen, audit, ioError, certs, ingress>>

\* Slip: the second column is looked for under the name of the first.
AlterRequestIdWithFirst(p) ==
    /\ At(p, "altered")
    /\ IF "usage_source" \in seen[p]
       THEN /\ Skip(p, "migrated")
            /\ audit' = [audit EXCEPT ![p] = TRUE]
       ELSE /\ AddColumn(p, "request_id", "migrated")
            /\ audit' = [audit EXCEPT ![p] = "request_id" \notin columns]
    /\ seen' = [seen EXCEPT ![p] = {}]
    /\ UNCHANGED <<starts, cfg, ioError, certs, ingress>>

AlterRequestId(p) ==
    /\ At(p, "altered")
    /\ IF "request_id" \in seen[p]
       THEN /\ Skip(p, "migrated")
            /\ audit' = [audit EXCEPT ![p] = TRUE]
       ELSE /\ AddColumn(p, "request_id", "migrated")
            /\ audit' = [audit EXCEPT ![p] = "request_id" \notin columns]
    /\ seen' = [seen EXCEPT ![p] = {}]
    /\ UNCHANGED <<starts, cfg, ioError, certs, ingress>>

-----------------------------------------------------------------------------
(* AppState::build: an unusable egress, a tunnel without agent id, redis   *)
(* as state store, an unknown provider in the chain or as failover target, *)
(* a missing model or a malformed redis_url is a panic.                    *)
Build(p) ==
    /\ At(p, "migrated")
    /\ \/ /\ cfg[p].wrong = "build"
          /\ Ended(p)
       \/ /\ cfg[p].wrong # "build"
          /\ Go(p, IF cfg[p].ingress THEN "certs" ELSE "binding")
          /\ UNCHANGED <<starts, cfg, db, certs, ingress>>

(* ensure_self_signed_certs: three existing files are kept whatever is in  *)
(* them, otherwise a new pair is generated and all three are written.      *)
KeepCerts(p) ==
    /\ At(p, "certs")
    /\ \A n \in Names : Exists(files[p][n])
    /\ Go(p, "tls")
    /\ UNCHANGED <<starts, cfg, db, certs, ingress>>

Generate(p) ==
    /\ At(p, "certs")
    /\ \E n \in Names : ~Exists(files[p][n])
    /\ Go(p, "crt")
    /\ UNCHANGED <<starts, cfg, db, certs, ingress>>

\* Slip: the copy for the agents is written before the private key.
AfterCa(n) == CASE n = "crt" -> "ca" [] n = "ca" -> "key" [] n = "key" -> "tls"

\* The order of the three writes.
After(n) == CASE n = "crt" -> "key" [] n = "key" -> "ca" [] n = "ca" -> "tls"

\* Opening a file truncates it, writing fills it: two steps.
Truncate(p, n) ==
    /\ At(p, n)
    /\ files[p][n] \notin {Torn, Part(starts[p])}
    /\ files' = [files EXCEPT ![p][n] = Torn]
    /\ UNCHANGED <<pc, starts, cfg, db, tls, ingress>>

Write(p, n) ==
    /\ At(p, n)
    /\ files[p][n] = Torn
    /\ files' = [files EXCEPT ![p][n] = Part(starts[p])]
    /\ Go(p, After(n))
    /\ UNCHANGED <<starts, cfg, db, tls, ingress>>

\* A certificate or key that cannot be read ends the process.  Whether the two
\* belong together is left to the TLS library.
LoadTls(p) ==
    LET f == files[p] IN
    /\ At(p, "tls")
    /\ \/ /\ f["crt"].state = "whole" /\ f["key"].state = "whole"
          /\ tls' = [tls EXCEPT ![p] = [crt |-> f["crt"].of, key |-> f["key"].of]]
          /\ ingress' = [ingress EXCEPT ![p] = "starting"]
          /\ Go(p, "binding")
          /\ UNCHANGED <<starts, cfg, db, files>>
       \/ /\ f["crt"].state = "torn" \/ f["key"].state = "torn"
          /\ Ended(p)

-----------------------------------------------------------------------------
\* The main port is bound and served, or the process panics.
Bind(p) ==
    /\ At(p, "binding")
    /\ \/ Go(p, "serving") /\ UNCHANGED <<starts, cfg, db, certs, ingress>>
       \/ Ended(p)

\* Slip: the error ends the task only.
TaskDies(p) ==
    /\ ingress[p] = "starting"
    /\ ingress' = [ingress EXCEPT ![p] = "dead"]
    /\ UNCHANGED <<pc, starts, cfg, db, certs>>

\* The spawned task cannot bind its port: process::exit, even if the main port
\* is being served by now.
IngressFails(p) ==
    /\ ingress[p] = "starting"
    /\ Ended(p)

IngressBinds(p) ==
    /\ ingress[p] = "starting"
    /\ ingress' = [ingress EXCEPT ![p] = "bound"]
    /\ UNCHANGED <<pc, starts, cfg, db, certs>>

\* The process is killed.
Crash(p) ==
    /\ ~At(p, "down")
    /\ Ended(p)

Configs(p) == [ingress : IF p \in IngressProcs THEN BOOLEAN ELSE {FALSE},
               wrong : Wrong]

OpenAudit(p) ==
    \/ CreateTable(p) \/ OpenFails(p) \/ TableInfo(p) \/ AlterUsageSource(p)
    \/ AlterRequestId(p)

EnsureCerts(p) ==
    \/ KeepCerts(p) \/ Generate(p)
    \/ \E n \in Names : Truncate(p, n) \/ Write(p, n)

IngressTask(p) == IngressBinds(p) \/ IngressFails(p)

Next == \E p \in Procs :
    \/ \E c \in Configs(p) : Load(p, c)
    \/ OpenAudit(p) \/ Build(p) \/ EnsureCerts(p) \/ LoadTls(p) \/ Bind(p)
    \/ IngressTask(p)
    \/ Crash(p)

Spec == Init /\ [][Next]_vars

\* A running process executes its steps, and its runtime polls the task.
FairSpec ==
    /\ Spec
    /\ \A p \in Procs :
          /\ WF_vars(OpenAudit(p) \/ Build(p) \/ EnsureCerts(p) \/ LoadTls(p)
                     \/ Bind(p))
          /\ WF_vars(IngressTask(p))

-----------------------------------------------------------------------------
(* Properties.                                                             *)

\* The ingress listener never gets the certificate of one pair and the key of
\* another, nor a half-written file, though a process may die anywhere between
\* the three writes and existing files are kept without a look into them.
\* ca.crt, written last, says that the other two are complete.
ServedPairMatches ==
    \A p \in Procs : ingress[p] # "off" => tls[p].crt = tls[p].key

\* A serving process that audits finds all columns in the table, whichever
\* process died half-way through the migration; and one that does not audit
\* failed to open the database, or another one altered the table between its
\* look at the columns and its own ALTER.
AuditedOrKnownWhy ==
    \A p \in Procs : pc[p] = "serving" =>
        IF audit[p] THEN columns = New ELSE ioError[p] \/ raced[p]

\* No gateway serves half for ever: with ingress enabled, the listener gets
\* its port or the process ends, also when the main port is served already.
NoHalfGateway ==
    \A p \in Procs :
        (pc[p] = "serving" /\ cfg[p].ingress) ~>
            (ingress[p] = "bound" \/ pc[p] # "serving")

=============================================================================
