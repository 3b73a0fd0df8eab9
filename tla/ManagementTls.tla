------------------------------ MODULE ManagementTls ------------------------------
(***************************************************************************)
(* The HTTPS listener of the API processes (packages/api/src/index.ts).    *)
(* A process that starts makes sure that there is a CA, reads the one that *)
(* is active and gets a certificate of it: the one that is stored for the  *)
(* service, or a new one, which is stored.  Whatever fails on the way      *)
(* leaves the process without HTTPS until it is started again.             *)
(*                                                                         *)
(* The registry of CAs is CaRegistry's, with its operations in progress; a *)
(* process may have to carry out one of them itself while it starts.       *)
(***************************************************************************)
EXTENDS CaRegistry

CONSTANTS
  Servers,     \* API processes, each the slot of its own operation
  MaxStarts    \* bound on the starts

ASSUME ServersAssumption == Servers \subseteq Requests /\ MaxStarts \in Nat

VARIABLES
  server,      \* how far main() is: down, ensure, ca, cert, store or up
  caRow,       \* the CA it has read
  creds,       \* the CA that signed the certificate it serves, 0 without HTTPS
  service,     \* service_certificates: the CA hashed, the one that signed
  met,         \* history: the CAs there were while it started; of a process that
               \* is up, the one it serves, if it is one of them
  failed,      \* history: a call of getTlsCredentials failed
  starts       \* starts so far

memory == <<server, caRow, creds, failed>>
allVars == <<vars, memory, service, met, starts>>

-------------------------------------------------------------------------------
\* The history of every process, this step included.
Meets ==
  met' = [s \in Servers |->
            CASE server'[s] = "down" -> {}
              [] server'[s] = "up"   -> met[s] \intersect {creds'[s]}
              [] OTHER               -> met[s] \union {Current, Current'}]

startServer(s) ==
  /\ server[s] = "down"
  /\ starts < MaxStarts
  /\ starts' = starts + 1
  /\ server' = [server EXCEPT ![s] = "ensure"]
  /\ UNCHANGED <<vars, caRow, creds, failed, service>>

\* ensureCaExists returns: its SELECT has found an active row, or it has
\* generated one.
caEnsured(s) ==
  /\ server[s] = "ensure"
  /\ pc[s] = "idle"
  /\ active # {}
  /\ server' = [server EXCEPT ![s] = "ca"]
  /\ UNCHANGED <<vars, caRow, creds, failed, service, starts>>

Up(s, issuer) ==
  /\ server' = [server EXCEPT ![s] = "up"]
  /\ creds' = [creds EXCEPT ![s] = issuer]
  /\ caRow' = [caRow EXCEPT ![s] = 0]

\* getTlsCredentials, the SELECT of the active CA.
selectCa(s) ==
  /\ server[s] = "ca"
  /\ IF Current = 0
       THEN Up(s, 0)
       ELSE /\ caRow' = [caRow EXCEPT ![s] = Current]
            /\ server' = [server EXCEPT ![s] = "cert"]
            /\ UNCHANGED creds
  /\ UNCHANGED <<vars, failed, service, starts>>

\* Mutant: the stored certificate is used whatever CA it is of.
reuseStoredCertAny(s) ==
  /\ server[s] = "cert"
  /\ service.signer # 0
  /\ Up(s, service.signer)
  /\ UNCHANGED <<vars, failed, service, starts>>

\* The stored certificate is of that CA and does not expire within a week.
reuseStoredCert(s) ==
  /\ server[s] = "cert"
  /\ service.hash = caRow[s]
  /\ Up(s, service.signer)
  /\ UNCHANGED <<vars, failed, service, starts>>

\* It is of another CA, is about to expire or is not there: a new one is signed.
signCert(s) ==
  /\ server[s] = "cert"
  /\ server' = [server EXCEPT ![s] = "store"]
  /\ UNCHANGED <<vars, caRow, creds, failed, service, starts>>

\* INSERT ... ON CONFLICT DO UPDATE: the processes share the row.
storeCert(s) ==
  /\ server[s] = "store"
  /\ service' = [hash |-> caRow[s], signer |-> caRow[s]]
  /\ Up(s, caRow[s])
  /\ UNCHANGED <<vars, failed, starts>>

\* A query fails or a key cannot be decrypted: the process goes on without.
getTlsFails(s) ==
  /\ server[s] \in {"ca", "cert", "store"}
  /\ Up(s, 0)
  /\ failed' = [failed EXCEPT ![s] = TRUE]
  /\ UNCHANGED <<vars, service, starts>>

Exits(s) ==
  /\ server' = [server EXCEPT ![s] = "down"]
  /\ caRow' = [caRow EXCEPT ![s] = 0]
  /\ creds' = [creds EXCEPT ![s] = 0]
  /\ failed' = [failed EXCEPT ![s] = FALSE]

\* A signal to a process that is up, or its death at any time; a transaction of
\* its own is rolled back.
stopServer(s) ==
  /\ server[s] # "down"
  /\ Exits(s)
  /\ IF pc[s] = "idle" THEN UNCHANGED vars ELSE rollback(s)
  /\ UNCHANGED <<service, starts>>

\* ensureCaExists throws: main() ends and with it the process.
ensureFails(s) ==
  /\ server[s] = "ensure"
  /\ rollback(s)
  /\ Exits(s)
  /\ UNCHANGED <<service, starts>>

\* An operation on the registry: one that somebody has asked for, or the one of
\* a process that found no CA.
RegistryStep(a) ==
  /\ \/ a \notin Servers
          /\ (generateCa(a) \/ deactivate(a) \/ locksGranted(a) \/ commit(a) \/ rollback(a))
     \/ a \in Servers /\ server[a] = "ensure"
          /\ (ensureCaExists(a) \/ (pc[a] # "idle" /\ generateCa(a))
                \/ deactivate(a) \/ locksGranted(a) \/ commit(a))
  /\ UNCHANGED <<memory, service, starts>>

-------------------------------------------------------------------------------
TlsInit ==
  /\ Init
  /\ server = [s \in Servers |-> "down"]
  /\ caRow = [s \in Servers |-> 0]
  /\ creds = [s \in Servers |-> 0]
  /\ service = [hash |-> 0, signer |-> 0]
  /\ met = [s \in Servers |-> {}]
  /\ failed = [s \in Servers |-> FALSE]
  /\ starts = 0

TlsNext ==
  /\ \/ \E s \in Servers :
          \/ startServer(s) \/ caEnsured(s) \/ selectCa(s) \/ reuseStoredCert(s)
          \/ signCert(s) \/ storeCert(s) \/ getTlsFails(s) \/ stopServer(s) \/ ensureFails(s)
     \/ \E a \in Requests : RegistryStep(a)
  /\ Meets

TlsSpec == TlsInit /\ [][TlsNext]_allVars

-------------------------------------------------------------------------------
\* The types of the registry, the processes and their stored certificate, which
\* is always signed by the CA it is filed under; only a process that starts holds
\* a CA it has read, and an operation of its own.
TlsTypeOK ==
  /\ TypeOK
  /\ server \in [Servers -> {"down", "ensure", "ca", "cert", "store", "up"}]
  /\ caRow \in [Servers -> 0..MaxClock]
  /\ creds \in [Servers -> 0..MaxClock]
  /\ service \in [hash : 0..MaxClock, signer : 0..MaxClock]
  /\ service.hash = service.signer
  /\ met \in [Servers -> SUBSET (0..MaxClock)]
  /\ failed \in [Servers -> BOOLEAN]
  /\ starts \in 0..MaxStarts
  /\ \A s \in Servers :
       /\ caRow[s] # 0 <=> server[s] \in {"cert", "store"}
       /\ creds[s] # 0 => server[s] = "up"
       /\ pc[s] # "idle" => server[s] = "ensure"

\* A process that is up serves HTTPS unless a call failed while it started, and
\* the certificate is of a CA that was active at some time meanwhile: however
\* often the CA is replaced, processes overlap and restart, and share one stored
\* certificate (index.ts:141, "Ensure CA exists", and :239, the reuse).
ManagementCertFresh ==
  \A s \in Servers : server[s] = "up" =>
    IF creds[s] = 0 THEN failed[s] ELSE creds[s] \in met[s]
-------------------------------------------------------------------------------
\* The strengthening that makes ManagementCertFresh inductive: a process gets past
\* ensureCaExists only when there is a CA, and a CA it has read was there meanwhile.
ReadsWhatWas ==
  \A s \in Servers :
    /\ server[s] \notin {"down", "ensure"} => active # {}
    /\ caRow[s] # 0 => caRow[s] \in met[s]

TlsIInv == IInv /\ TlsTypeOK /\ ReadsWhatWas /\ ManagementCertFresh
===============================================================================
