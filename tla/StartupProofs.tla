--------------------------- MODULE StartupProofs ---------------------------
(***************************************************************************)
(* Proofs about Startup, for any number of worker processes and starts:    *)
(* the certificate files and the audit migration survive every crash.      *)
(***************************************************************************)
EXTENDS Startup, TLAPS

Matching(f) ==
    f["crt"].state = "whole" /\ f["key"].state = "whole" =>
        f["crt"].of = f["key"].of

(* Why ca.crt works as a commit mark.  While the certificate and the key   *)
(* are being replaced it does not exist, so a process that dies there is   *)
(* followed by one that generates again; once it exists, however torn, the *)
(* other two belong together.                                              *)
CertOf(p) ==
    /\ Exists(files[p]["ca"]) =>
          /\ pc[p] \notin {"crt", "key"}
          /\ Exists(files[p]["crt"]) /\ Exists(files[p]["key"])
          /\ Matching(files[p])
    /\ pc[p] = "key" => files[p]["crt"] = Part(starts[p])
    /\ pc[p] = "ca" => /\ files[p]["crt"] = Part(starts[p])
                       /\ files[p]["key"] = Part(starts[p])
    /\ pc[p] = "tls" => Matching(files[p])
    /\ ingress[p] # "off" => tls[p].crt = tls[p].key

CertInv == \A p \in Procs : CertOf(p)

Opening == {"down", "loaded", "opened", "read", "altered"}

(* What a process knows of the table: unless it was overtaken, the columns *)
(* it has read, and the one it has added.                                  *)
AuditOf(p) ==
    /\ pc[p] \in {"opened", "read", "altered"} => columns \subseteq New
    /\ pc[p] \in {"read", "altered"} => seen[p] \subseteq columns
    /\ pc[p] = "read" /\ ~raced[p] => columns = seen[p]
    /\ pc[p] = "altered" => "usage_source" \in columns
    /\ pc[p] = "altered" /\ ~raced[p] =>
          columns = seen[p] \cup {"usage_source"}
    /\ audit[p] => columns = New /\ pc[p] \notin Opening
    /\ pc[p] \notin Opening /\ ~audit[p] => ioError[p] \/ raced[p]

AuditInv == \A p \in Procs : AuditOf(p)

StartupInv == TypeOK /\ CertInv /\ AuditInv

USE StartupAssumption

-----------------------------------------------------------------------------
(* The initial states.                                                     *)
LEMMA InitInv == Init => StartupInv
<1> SUFFICES ASSUME Init PROVE StartupInv
  OBVIOUS
<1>1. TypeOK
  BY DEF Init, TypeOK, FirstFiles, File, Absent, Torn, Part, Off, Wrong,
         NoTls, Stages, New, NoTable
<1>2. CertInv
  BY DEF Init, CertInv, CertOf, FirstFiles, Exists, Matching, Absent, Torn, Part,
         NoTls, Names
<1>3. AuditInv
  BY DEF Init, AuditInv, AuditOf, Opening
<1> QED
  BY <1>1, <1>2, <1>3 DEF StartupInv

-----------------------------------------------------------------------------
(* The steps: the type invariant first, as every other step uses it.       *)
LEMMA TypeStep == ASSUME TypeOK, AuditInv, Next PROVE TypeOK'
<1> USE DEF TypeOK
<1> SUFFICES ASSUME NEW p \in Procs,
                    \/ \E c \in Configs(p) : Load(p, c)
                    \/ OpenAudit(p) \/ Build(p) \/ EnsureCerts(p) \/ LoadTls(p)
                    \/ Bind(p) \/ IngressTask(p) \/ Crash(p)
             PROVE  TypeOK'
  BY DEF Next
<1>0. ASSUME Ended(p) PROVE TypeOK'
  BY <1>0 DEF Ended, Go, Off, Wrong, NoTls, Stages
<1>1. ASSUME NEW c \in Configs(p), Load(p, c) PROVE TypeOK'
  <2>1. c \in [ingress : BOOLEAN, wrong : Wrong]
    <3> DEFINE S == IF p \in IngressProcs THEN BOOLEAN ELSE {FALSE}
    <3>1. S \subseteq BOOLEAN
      OBVIOUS
    <3>2. c \in [ingress : S, wrong : Wrong]
      BY DEF Configs
    <3> HIDE DEF S
    <3> QED
      BY <3>1, <3>2
  <2>a. starts' \in [Procs -> 0..MaxStarts]
    BY <1>1 DEF Load
  <2>b. UNCHANGED <<columns, seen, audit, ioError, raced, files, tls, ingress>>
    BY <1>1 DEF Load, db, certs
  <2>2. CASE c.wrong = "load"
    <3>1. UNCHANGED <<pc, cfg>>
      BY <1>1, <2>2 DEF Load
    <3> QED
      BY <2>a, <2>b, <3>1
  <2>3. CASE c.wrong # "load"
    <3>1. Go(p, "loaded") /\ cfg' = [cfg EXCEPT ![p] = c]
      BY <1>1, <2>3 DEF Load
    <3> QED
      BY <2>a, <2>b, <2>1, <3>1 DEF Go, Stages
  <2> QED
    BY <2>2, <2>3
<1>2. CASE OpenAudit(p)
  <2>1. CASE CreateTable(p)
    BY <2>1 DEF CreateTable, Go, Stages, certs
  <2>2. CASE OpenFails(p)
    BY <2>2 DEF OpenFails, Go, Stages, certs
  <2>a. pc[p] \in {"opened", "read", "altered"} => columns \subseteq New
    BY DEF AuditInv, AuditOf
  <2>3. CASE TableInfo(p)
    BY <2>3, <2>a DEF TableInfo, At, Go, Stages, certs
  <2>b. ASSUME NEW name \in New, NEW there \in Stages,
               columns \subseteq New,
               AddColumn(p, name, there) \/ Skip(p, there)
        PROVE  /\ pc' \in [Procs -> Stages]
               /\ columns' \subseteq New
               /\ raced' \in [Procs -> BOOLEAN]
    <3>1. CASE AddColumn(p, name, there)
      BY <2>b, <3>1 DEF AddColumn, Go, Stages
    <3>2. CASE Skip(p, there)
      BY <2>b, <3>2 DEF Skip, Go
    <3> QED
      BY <2>b, <3>1, <3>2
  <2>4. CASE AlterUsageSource(p)
    <3>1. columns \subseteq New
      BY <2>4, <2>a DEF AlterUsageSource, At
    <3>2. AddColumn(p, "usage_source", "altered") \/ Skip(p, "altered")
      BY <2>4 DEF AlterUsageSource
    <3>3. /\ pc' \in [Procs -> Stages]
          /\ columns' \subseteq New
          /\ raced' \in [Procs -> BOOLEAN]
      BY <3>1, <3>2, <2>b DEF New, Stages
    <3> QED
      BY <2>4, <3>3 DEF AlterUsageSource, certs
  <2>5. CASE AlterRequestId(p)
    <3>1. columns \subseteq New
      BY <2>5, <2>a DEF AlterRequestId, At
    <3>2. AddColumn(p, "request_id", "migrated") \/ Skip(p, "migrated")
      BY <2>5 DEF AlterRequestId
    <3>3. /\ pc' \in [Procs -> Stages]
          /\ columns' \subseteq New
          /\ raced' \in [Procs -> BOOLEAN]
      BY <3>1, <3>2, <2>b DEF New, Stages
    <3>4. audit' \in [Procs -> BOOLEAN]
      BY <2>5 DEF AlterRequestId
    <3> QED
      BY <2>5, <3>3, <3>4 DEF AlterRequestId, certs
  <2> QED
    BY <1>2, <2>1, <2>2, <2>3, <2>4, <2>5 DEF OpenAudit
<1>3. CASE Build(p)
  BY <1>0, <1>3 DEF Build, Go, Stages, db, certs
<1>4. CASE EnsureCerts(p)
  <2>1. CASE KeepCerts(p) \/ Generate(p)
    BY <2>1 DEF KeepCerts, Generate, Go, Stages, db, certs
  <2>2. ASSUME NEW n \in Names, Truncate(p, n) PROVE TypeOK'
    BY <2>2 DEF Truncate, Torn, File, db
  <2>3. ASSUME NEW n \in Names, Write(p, n) PROVE TypeOK'
    BY <2>3 DEF Write, Part, File, Go, After, Names, Stages, db
  <2> QED
    BY <1>4, <2>1, <2>2, <2>3 DEF EnsureCerts
<1>5. CASE LoadTls(p)
  <2>1. CASE Ended(p)
    BY <1>0, <2>1
  <2>2. CASE ~Ended(p)
    <3>1. files[p]["crt"].of \in 0..MaxStarts /\ files[p]["key"].of \in 0..MaxStarts
      BY DEF File, Names
    <3>2. /\ tls' = [tls EXCEPT ![p] = [crt |-> files[p]["crt"].of,
                                       key |-> files[p]["key"].of]]
          /\ ingress' = [ingress EXCEPT ![p] = "starting"]
          /\ Go(p, "binding")
          /\ UNCHANGED <<starts, cfg, db, files>>
      BY <1>5, <2>2 DEF LoadTls
    <3> QED
      BY <3>1, <3>2 DEF Go, Stages, db
  <2> QED
    BY <2>1, <2>2
<1>6. CASE Bind(p)
  BY <1>0, <1>6 DEF Bind, Go, Stages, db, certs
<1>7. CASE IngressTask(p)
  BY <1>0, <1>7 DEF IngressTask, IngressBinds, IngressFails, db, certs
<1>8. CASE Crash(p)
  BY <1>0, <1>8 DEF Crash
<1> QED
  BY <1>1, <1>2, <1>3, <1>4, <1>5, <1>6, <1>7, <1>8

-----------------------------------------------------------------------------
(* The certificates.  A step of p leaves the files of the others alone.    *)
LEMMA CertStep == ASSUME TypeOK, CertInv, Next PROVE CertInv'
<1> SUFFICES ASSUME NEW p \in Procs,
                    \/ \E c \in Configs(p) : Load(p, c)
                    \/ OpenAudit(p) \/ Build(p) \/ EnsureCerts(p) \/ LoadTls(p)
                    \/ Bind(p) \/ IngressTask(p) \/ Crash(p),
                    NEW q \in Procs
             PROVE  CertOf(q)'
  BY DEF Next, CertInv
<1>a. CertOf(q)
  BY DEF CertInv
<1>b. /\ pc \in [Procs -> Stages] /\ starts \in [Procs -> 0..MaxStarts]
      /\ files \in [Procs -> [Names -> File]]
      /\ tls \in [Procs -> [crt : 0..MaxStarts, key : 0..MaxStarts]]
      /\ ingress \in [Procs -> {"off", "starting", "bound", "dead"}]
  BY DEF TypeOK
<1>0. ASSUME Ended(p) PROVE CertOf(q)'
  BY <1>a, <1>b, <1>0 DEF Ended, Go, CertOf, Exists, Matching
<1>1. ASSUME NEW c \in Configs(p), Load(p, c) PROVE CertOf(q)'
  BY <1>a, <1>b, <1>1 DEF Load, At, Go, CertOf, Exists, Matching, certs
<1>2. CASE OpenAudit(p)
  <2>1. CASE CreateTable(p) \/ OpenFails(p) \/ TableInfo(p)
    BY <1>a, <1>b, <2>1 DEF CreateTable, OpenFails, TableInfo, Go, CertOf,
                            Exists, Matching, certs
  <2>2. CASE AlterUsageSource(p) \/ AlterRequestId(p)
    BY <1>a, <1>b, <2>2 DEF AlterUsageSource, AlterRequestId, AddColumn, Skip,
                            Go, CertOf, Exists, Matching, certs
  <2> QED
    BY <1>2, <2>1, <2>2 DEF OpenAudit
<1>3. CASE Build(p)
  BY <1>0, <1>a, <1>b, <1>3 DEF Build, Go, CertOf, Exists, Matching, certs
<1>4. CASE EnsureCerts(p)
  <2>1. CASE KeepCerts(p)
    BY <1>a, <1>b, <2>1 DEF KeepCerts, Go, CertOf, Exists, Matching, Names,
                            certs
  <2>2. CASE Generate(p)
    BY <1>a, <1>b, <2>2 DEF Generate, At, Go, CertOf, Exists, Matching, Names,
                            certs
  <2>3. ASSUME NEW n \in Names, Truncate(p, n) PROVE CertOf(q)'
    BY <1>a, <1>b, <2>3 DEF Truncate, At, CertOf, Exists, Matching, Torn, Part,
                            Names
  <2>4. ASSUME NEW n \in Names, Write(p, n) PROVE CertOf(q)'
    BY <1>a, <1>b, <2>4 DEF Write, At, Go, After, CertOf, Exists, Matching,
                            Torn, Part, Names
  <2> QED
    BY <1>4, <2>1, <2>2, <2>3, <2>4 DEF EnsureCerts
<1>5. CASE LoadTls(p)
  <2>1. CASE Ended(p)
    BY <1>0, <2>1
  <2>2. CASE ~Ended(p)
    BY <1>a, <1>b, <1>5, <2>2 DEF LoadTls, At, Go, CertOf, Exists, Matching
  <2> QED
    BY <2>1, <2>2
<1>6. CASE Bind(p)
  BY <1>0, <1>a, <1>b, <1>6 DEF Bind, Go, CertOf, Exists, Matching, certs
<1>7. CASE IngressTask(p)
  BY <1>0, <1>a, <1>b, <1>7 DEF IngressTask, IngressBinds, IngressFails, CertOf,
                                Exists, Matching, certs
<1>8. CASE Crash(p)
  BY <1>0, <1>8 DEF Crash
<1> QED
  BY <1>1, <1>2, <1>3, <1>4, <1>5, <1>6, <1>7, <1>8

-----------------------------------------------------------------------------
(* What an added column means for another process that has read the table. *)
LEMMA Overtaken ==
    ASSUME NEW p \in Procs, NEW q \in Procs, q # p, NEW name, NEW there,
           AddColumn(p, name, there), raced \in [Procs -> BOOLEAN]
    PROVE  /\ raced[q] => raced'[q]
           /\ pc[q] \in {"read", "altered"} /\ ~raced'[q] => columns' = columns
<1>1. raced'[q] = (raced[q] \/ (q # p /\ Migrating(q) /\ name \notin columns))
  BY DEF AddColumn
<1> QED
  BY <1>1 DEF AddColumn, Migrating

(* The migration.  A step of p changes what q knows by adding a column.    *)
LEMMA AuditStep == ASSUME TypeOK, AuditInv, Next PROVE AuditInv'
<1> SUFFICES ASSUME NEW p \in Procs,
                    \/ \E c \in Configs(p) : Load(p, c)
                    \/ OpenAudit(p) \/ Build(p) \/ EnsureCerts(p) \/ LoadTls(p)
                    \/ Bind(p) \/ IngressTask(p) \/ Crash(p),
                    NEW q \in Procs
             PROVE  AuditOf(q)'
  BY DEF Next, AuditInv
<1>a. AuditOf(q) /\ AuditOf(p)
  BY DEF AuditInv
<1>b. /\ pc \in [Procs -> Stages]
      /\ columns = NoTable \/ columns \subseteq New
      /\ seen \in [Procs -> SUBSET New] /\ audit \in [Procs -> BOOLEAN]
      /\ ioError \in [Procs -> BOOLEAN] /\ raced \in [Procs -> BOOLEAN]
  BY DEF TypeOK
<1>0. ASSUME Ended(p) PROVE AuditOf(q)'
  BY <1>a, <1>b, <1>0 DEF Ended, Go, AuditOf, Opening
<1>1. ASSUME NEW c \in Configs(p), Load(p, c) PROVE AuditOf(q)'
  BY <1>a, <1>b, <1>1 DEF Load, At, Go, AuditOf, Opening, db
<1>2. CASE OpenAudit(p)
  <2>1. CASE CreateTable(p)
    BY <1>a, <1>b, <2>1 DEF CreateTable, At, Go, AuditOf, Opening, NoTable, New
  <2>2. CASE OpenFails(p)
    BY <1>a, <1>b, <2>2 DEF OpenFails, At, Go, AuditOf, Opening
  <2>3. CASE TableInfo(p)
    BY <1>a, <1>b, <2>3 DEF TableInfo, At, Go, AuditOf, Opening
  <2>4. CASE AlterUsageSource(p)
    <3>1. CASE "usage_source" \in seen[p]
      BY <1>a, <1>b, <2>4, <3>1 DEF AlterUsageSource, Skip, At, Go, AuditOf,
                                    Opening
    <3>2. CASE "usage_source" \notin seen[p]
      <4>1. AddColumn(p, "usage_source", "altered")
        BY <2>4, <3>2 DEF AlterUsageSource
      <4>2. raced'[p] = raced[p] /\ pc' = [pc EXCEPT ![p] =
                IF "usage_source" \in columns THEN "migrated" ELSE "altered"]
        BY <4>1, <1>b DEF AddColumn, Go
      <4>3. /\ columns' = columns \cup {"usage_source"}
            /\ seen' = seen /\ audit' = audit /\ ioError' = ioError
            /\ pc[p] = "read"
        BY <2>4, <4>1 DEF AlterUsageSource, AddColumn, At
      <4>4. CASE q = p
        BY <1>a, <1>b, <3>2, <4>2, <4>3, <4>4 DEF AuditOf, Opening, New
      <4>5. CASE q # p
        BY <1>a, <1>b, <4>1, <4>2, <4>3, <4>5, Overtaken
           DEF AuditOf, Opening, New
      <4> QED
        BY <4>4, <4>5
    <3> QED
      BY <3>1, <3>2
  <2>5. CASE AlterRequestId(p)
    <3>1. CASE "request_id" \in seen[p]
      BY <1>a, <1>b, <2>5, <3>1 DEF AlterRequestId, Skip, At, Go, AuditOf,
                                    Opening, New
    <3>2. CASE "request_id" \notin seen[p]
      <4>1. AddColumn(p, "request_id", "migrated")
        BY <2>5, <3>2 DEF AlterRequestId
      <4>2. raced'[p] = raced[p] /\ pc' = [pc EXCEPT ![p] = "migrated"]
        BY <4>1, <1>b DEF AddColumn, Go
      <4>3. /\ columns' = columns \cup {"request_id"}
            /\ seen' = [seen EXCEPT ![p] = {}] /\ ioError' = ioError
            /\ audit' = [audit EXCEPT ![p] = "request_id" \notin columns]
            /\ pc[p] = "altered"
        BY <2>5, <3>2, <4>1 DEF AlterRequestId, AddColumn, At
      <4>4. CASE q = p
        BY <1>a, <1>b, <3>2, <4>2, <4>3, <4>4 DEF AuditOf, Opening, New
      <4>5. CASE q # p
        BY <1>a, <1>b, <4>1, <4>2, <4>3, <4>5, Overtaken
           DEF AuditOf, Opening, New
      <4> QED
        BY <4>4, <4>5
    <3> QED
      BY <3>1, <3>2
  <2> QED
    BY <1>2, <2>1, <2>2, <2>3, <2>4, <2>5 DEF OpenAudit
<1>3. CASE Build(p)
  BY <1>0, <1>a, <1>b, <1>3 DEF Build, At, Go, AuditOf, Opening, db
<1>4. CASE EnsureCerts(p)
  <2>1. CASE KeepCerts(p) \/ Generate(p)
    BY <1>a, <1>b, <2>1 DEF KeepCerts, Generate, At, Go, AuditOf, Opening, db
  <2>2. ASSUME NEW n \in Names, Truncate(p, n) \/ Write(p, n) PROVE AuditOf(q)'
    BY <1>a, <1>b, <2>2 DEF Truncate, Write, At, Go, After, Names, AuditOf,
                            Opening, db
  <2> QED
    BY <1>4, <2>1, <2>2 DEF EnsureCerts
<1>5. CASE LoadTls(p)
  <2>1. CASE Ended(p)
    BY <1>0, <2>1
  <2>2. CASE ~Ended(p)
    BY <1>a, <1>b, <1>5, <2>2 DEF LoadTls, At, Go, AuditOf, Opening, db
  <2> QED
    BY <2>1, <2>2
<1>6. CASE Bind(p)
  BY <1>0, <1>a, <1>b, <1>6 DEF Bind, At, Go, AuditOf, Opening, db
<1>7. CASE IngressTask(p)
  BY <1>0, <1>a, <1>b, <1>7 DEF IngressTask, IngressBinds, IngressFails,
                                AuditOf, Opening, db
<1>8. CASE Crash(p)
  BY <1>0, <1>8 DEF Crash
<1> QED
  BY <1>1, <1>2, <1>3, <1>4, <1>5, <1>6, <1>7, <1>8

-----------------------------------------------------------------------------
\* The three parts of the invariant hold together: each is preserved only with
\* the types and with what the others say of the same worker.
LEMMA StartupInvariant == Spec => []StartupInv
<1>1. StartupInv /\ UNCHANGED vars => StartupInv'
  BY DEF StartupInv, TypeOK, CertInv, CertOf, AuditInv, AuditOf, Exists,
         Matching, vars, db, certs
<1>2. StartupInv /\ [Next]_vars => StartupInv'
  BY <1>1, TypeStep, CertStep, AuditStep DEF StartupInv
<1> QED
  BY <1>2, InitInv, PTL DEF Spec

(* Type correctness of the start of a gateway (main, main.rs).             *)
THEOREM StartupTypeCorrect == Spec => []TypeOK
<1>1. StartupInv => TypeOK
  BY DEF StartupInv
<1> QED
  BY <1>1, StartupInvariant, PTL

(* Whatever is killed and started again, a listener is given a certificate *)
(* and a key of one pair (ensure_self_signed_certs and main, main.rs).     *)
THEOREM CertificatesSafe == Spec => []ServedPairMatches
<1>1. StartupInv => ServedPairMatches
  BY DEF StartupInv, CertInv, CertOf, ServedPairMatches
<1> QED
  BY <1>1, StartupInvariant, PTL

(* Whatever is killed and however the migrations of the workers interleave *)
(* (AuditLog::open, audit.rs), a serving process that audits finds all     *)
(* columns, and one that does not has failed or was overtaken.             *)
THEOREM AuditSafe == Spec => []AuditedOrKnownWhy
<1>1. StartupInv => AuditedOrKnownWhy
  BY DEF StartupInv, AuditInv, AuditOf, AuditedOrKnownWhy, Opening
<1> QED
  BY <1>1, StartupInvariant, PTL

=============================================================================
