------------------------------ MODULE CertReload ------------------------------
(***************************************************************************)
(* The certificate a server with --tls-cert and --tls-key serves, while    *)
(* both files are replaced under it (main.rs).  They are read when the     *)
(* server starts, and again when a poll finds the time of one changed.     *)
(* Whoever renews them writes one file after the other, and the server     *)
(* reads one file after the other: every order of the two is here.         *)
(***************************************************************************)
EXTENDS Naturals

CONSTANTS
  Pair,        \* matching certificates and keys
  Broken,      \* what a missing or half written file holds
  NoPair,        \* no certificate
  MaxWrites    \* bound: changes of a file

ASSUME ValueAssumption == Broken \notin Pair /\ NoPair \notin Pair /\ NoPair # Broken
ASSUME BoundAssumption == MaxWrites \in Nat

File == {"cert", "key"}

(* Stages of spawn_cert_reloader's task, and of serve before it.            *)
Stage == {"down", "load_cert", "load_key", "first_cert", "first_key",
          "wait", "look_key", "reload_cert", "reload_key"}

VARIABLES
  file,        \* of each file what it holds and when it was written
  writes,      \* counts to MaxWrites: every write has a time of its own
  pc,          \* the stage the server is at
  cert,        \* what it read of the certificate before it reads the key
  now,         \* the certificate's time, before it looks at the key's
  last,        \* the times it remembers
  served,      \* the pair connections get
  overlooked   \* observed: the files that changed between the server's first
               \* read of them and its first look at their times, and were
               \* not read since

certVars == <<file, writes, pc, cert, now, last, served, overlooked>>

(* The server never serves what is no pair, and has one once it has started. *)
CertTypeOK ==
  /\ file \in [File -> [holds : Pair \cup {Broken}, time : 0..MaxWrites]]
  /\ writes \in 0..MaxWrites
  /\ pc \in Stage
  /\ cert \in Pair \cup {Broken, NoPair}
  /\ now \in 0..MaxWrites
  /\ last \in [File -> 0..MaxWrites]
  /\ served \in IF pc \in {"down", "load_cert", "load_key"} THEN {NoPair} ELSE Pair
  /\ overlooked \subseteq File

CertInit ==
  /\ \E p \in Pair : file = [f \in File |-> [holds |-> p, time |-> 0]]
  /\ writes = 0
  /\ pc = "down"
  /\ cert = NoPair
  /\ now = 0
  /\ last = [f \in File |-> 0]
  /\ served = NoPair
  /\ overlooked = {}

-----------------------------------------------------------------------------
(* A configuration is made of a certificate and its key only. *)
Loads(c, k) == c = k /\ c # Broken

(* serve, from its beginning *)
Begin ==
  /\ pc = "down"
  /\ pc' = "load_cert"
  /\ UNCHANGED <<file, writes, cert, now, last, served, overlooked>>

ReadCert ==
  /\ \/ pc = "load_cert" /\ pc' = "load_key"
     \/ pc = "reload_cert" /\ pc' = "reload_key"
  /\ cert' = file["cert"].holds
  /\ overlooked' = overlooked \ {"cert"}
  /\ UNCHANGED <<file, writes, now, last, served>>

(* A server that cannot read a pair ends. *)
Load ==
  /\ pc = "load_key"
  /\ IF Loads(cert, file["key"].holds)
     THEN pc' = "first_cert" /\ served' = cert /\ UNCHANGED overlooked
     ELSE pc' = "down" /\ overlooked' = {} /\ UNCHANGED served
  /\ cert' = NoPair
  /\ UNCHANGED <<file, writes, now, last>>

Reload ==
  /\ pc = "reload_key"
  /\ pc' = "wait"
  /\ served' = IF Loads(cert, file["key"].holds) THEN cert ELSE served
  /\ cert' = NoPair
  /\ overlooked' = overlooked \ {"key"}
  /\ UNCHANGED <<file, writes, now, last>>

LookCert ==
  /\ \/ pc = "first_cert" /\ pc' = "first_key"
     \/ pc = "wait" /\ pc' = "look_key"
  /\ now' = file["cert"].time
  /\ UNCHANGED <<file, writes, cert, last, served, overlooked>>

(* file_mtimes *)
Times == [f \in File |-> IF f = "cert" THEN now ELSE file["key"].time]

FirstLook ==
  /\ pc = "first_key"
  /\ pc' = "wait"
  /\ last' = Times
  /\ UNCHANGED <<file, writes, cert, now, served, overlooked>>

(* Mutant: only the certificate's time is compared. *)
PollCertOnly ==
  /\ pc = "look_key"
  /\ pc' = IF now = last["cert"] THEN "wait" ELSE "reload_cert"
  /\ last' = Times
  /\ UNCHANGED <<file, writes, cert, now, served, overlooked>>

(* The times are remembered whatever becomes of the reload. *)
Poll ==
  /\ pc = "look_key"
  /\ pc' = IF Times = last THEN "wait" ELSE "reload_cert"
  /\ last' = Times
  /\ UNCHANGED <<file, writes, cert, now, served, overlooked>>

Stop ==
  /\ pc # "down"
  /\ pc' = "down"
  /\ served' = NoPair /\ cert' = NoPair /\ overlooked' = {}
  /\ UNCHANGED <<file, writes, now, last>>

(* A file is written, replaced or removed. *)
Change(f, holds) ==
  /\ writes < MaxWrites /\ writes' = writes + 1
  /\ file' = [file EXCEPT ![f] = [holds |-> holds, time |-> writes']]
  /\ overlooked' = IF \/ f = "cert" /\ pc \in {"load_key", "first_cert"}
                      \/ f = "key" /\ pc \in {"first_cert", "first_key"}
                   THEN overlooked \cup {f} ELSE overlooked
  /\ UNCHANGED <<pc, cert, now, last, served>>

Serve == ReadCert \/ Load \/ LookCert \/ FirstLook \/ Poll \/ Reload

CertNext ==
  \/ Begin \/ Stop \/ Serve
  \/ \E f \in File, holds \in Pair \cup {Broken} : Change(f, holds)

(* The task is polled by tokio and its ticker fires: a server that is up    *)
(* goes on.  Nobody has to start or stop it, or to renew anything.          *)
FairCertReload == CertInit /\ [][CertNext]_certVars /\ WF_certVars(Serve)

-----------------------------------------------------------------------------
(* A server that finds the times it remembers has nothing to reload: a pair *)
(* on disk is then the pair it serves, unless a change was overlooked.  So  *)
(* no failed reload needs to be tried again.                                *)
QuietServesDisk ==
  /\ pc \in {"wait", "look_key"}
  /\ overlooked = {}
  /\ \A f \in File : last[f] = file[f].time
  /\ Loads(file["cert"].holds, file["key"].holds)
  => served = file["cert"].holds

(* A pair that is on disk and stays there is served in the end by a server  *)
(* that stays up, in whatever order its files came and however many         *)
(* reloads failed between them.  One change is never noticed: one that      *)
(* falls between the server's first read of the file and the reloader's     *)
(* first look at its time.                                                  *)
NewPairServed ==
  \A p \in Pair :
    <>[](pc # "down" /\ overlooked = {} /\ \A f \in File : file[f].holds = p)
      => <>[](served = p)
=============================================================================
