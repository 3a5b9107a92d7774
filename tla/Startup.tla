------------------------------ MODULE Startup ------------------------------
(***************************************************************************)
(* The commands `start`, `start --initialize-only` and `claim-key`, run by *)
(* several processes that share one key resource: what each has open, when *)
(* it says that it is ready, when it may serve, and how it ends.  A claim  *)
(* is the atomic operation that VaultBinding and MarkerFile implement; the *)
(* cluster identity is the one that ClusterInit agrees on.                 *)
(***************************************************************************)
EXTENDS Naturals, FiniteSets

CONSTANTS Procs, Clusters, None,
          Configs,   \* the configurations a process may be started with
          MaxStarts  \* bound: processes started, restarts included

Modes == {"start", "initialize-only", "claim-key"}
Config == [mode : Modes, cluster : Clusters, backend : {"software", "vault", "pkcs11"},
           http : BOOLEAN,        \* http_addr is set
           claim : BOOLEAN,       \* --claim-if-unclaimed
           credentials : BOOLEAN, \* separate claim credentials are configured
           voters : 1..2]

ASSUME ConfigsAssumption == Configs \subseteq Config

ASSUME StartsAssumption == None \notin Clusters /\ MaxStarts \in Nat

VARIABLES owner,    \* the claim on the key resource
          proc,     \* process -> its run
          starts,
          asked     \* history: the processes whose last run was ended from outside

startVars == <<owner, proc, starts, asked>>

Steps == {"off", "health", "open", "pubkey", "raft", "identity", "binding", "claim",
          "claiming", "reread", "preflight", "renewal", "assemble", "serving",
          "membership", "linger", "closeRaft", "closeBackend", "closed", "parked"}

Proc == [pc : Steps, cfg : Configs \cup {None},
         ctx : {"none", "live", "done"},      \* "none": a signal still kills
         hs : BOOLEAN, be : BOOLEAN, claimBe : BOOLEAN, raft : BOOLEAN, \* what is open
         renewing : BOOLEAN,                  \* and running
         ready : BOOLEAN,                     \* what /readyz answers
         afterFunc : BOOLEAN,                 \* SetReady(false) waits for ctx
         pin : BOOLEAN]                       \* the error is ErrPKCS11PINFailure
Off == [pc |-> "off", cfg |-> None, ctx |-> "none", hs |-> FALSE, be |-> FALSE,
        claimBe |-> FALSE, raft |-> FALSE, renewing |-> FALSE, ready |-> FALSE,
        afterFunc |-> FALSE, pin |-> FALSE]

StartTypeOK ==
  /\ owner \in Clusters \cup {None}
  /\ proc \in [Procs -> Proc]
  /\ starts \in 0..MaxStarts
  /\ asked \subseteq Procs

StartInit ==
  /\ owner \in Clusters \cup {None}
  /\ proc = [p \in Procs |-> Off]
  /\ starts = 0
  /\ asked = {}

At(p, pc) == proc[p].pc = pc
Cfg(p) == proc[p].cfg
Update(p, state) == proc' = [proc EXCEPT ![p] = state]
Unclaiming == UNCHANGED <<owner, starts, asked>>

Proceed(p, to) == Update(p, [proc[p] EXCEPT !.pc = to])

\* An error: the deferred calls run from what has been opened last.
Fail(p) == Proceed(p, IF proc[p].raft THEN "closeRaft" ELSE
                   IF proc[p].be THEN "closeBackend" ELSE "closed")
-----------------------------------------------------------------------------
\* A command begins: the configuration is loaded and, for claim-key, the cluster
\* ID validated.
Start(p, c) ==
  /\ At(p, "off") /\ starts < MaxStarts
  /\ starts' = starts + 1
  /\ Update(p, [Off EXCEPT !.pc = IF c.mode = "claim-key" THEN "open" ELSE "health",
                           !.cfg = c])
  /\ asked' = asked \ {p}
  /\ UNCHANGED owner

\* The listener is bound before the backend is built, or the start fails.
startHealthServer(p) ==
  /\ At(p, "health")
  /\ \/ Update(p, [proc[p] EXCEPT !.pc = "open", !.hs = Cfg(p).http])
     \/ Update(p, Off) /\ Cfg(p).http
  /\ Unclaiming

\* backend.New: a PKCS#11 backend logs in, so its PIN may be refused here.
Open(p) ==
  /\ At(p, "open")
  /\ \/ Update(p, [proc[p] EXCEPT !.be = TRUE,
                     !.pc = IF Cfg(p).mode = "claim-key" THEN "claiming" ELSE "pubkey"])
     \/ Fail(p)
     \/ Cfg(p).backend = "pkcs11" /\ Update(p, [proc[p] EXCEPT !.pc = "closed", !.pin = TRUE])
  /\ Unclaiming

\* The expected public key; from here on signals are caught.
verifyExpectedPublicKey(p) ==
  /\ At(p, "pubkey")
  /\ Fail(p) \/ Update(p, [proc[p] EXCEPT !.pc = "raft", !.ctx = "live"])
  /\ Unclaiming

\* NewRaftStoreContext, the subject of StoreOpen, and SetRaft.
NewRaftStore(p) ==
  /\ At(p, "raft")
  /\ Fail(p) \/ Update(p, [proc[p] EXCEPT !.pc = "identity", !.raft = TRUE])
  /\ Unclaiming

\* EnsureClusterID within clusterIdentityTimeout.
EnsureClusterID(p) ==
  /\ At(p, "identity")
  /\ \/ Fail(p)
     \/ Proceed(p, IF Cfg(p).mode = "initialize-only" THEN "membership" ELSE "binding")
  /\ Unclaiming

\* RequireClusterBinding, and what to do about a key that has no claim.
RequireBinding(p) ==
  /\ At(p, "binding")
  /\ \/ owner = Cfg(p).cluster /\ Proceed(p, "preflight")
     \/ owner = None /\ Cfg(p).claim /\ Proceed(p, "claim")
     \/ Fail(p)
  /\ Unclaiming

HasSeparateClaimCredentials(c) == c.backend = "vault" /\ c.credentials

\* claimWithConfig: a backend of its own for the claim when it has credentials.
OpenClaimBackend(p) ==
  /\ At(p, "claim")
  /\ \/ Update(p, [proc[p] EXCEPT !.pc = "claiming",
                                  !.claimBe = HasSeparateClaimCredentials(Cfg(p))])
     \/ HasSeparateClaimCredentials(Cfg(p)) /\ Fail(p)
  /\ Unclaiming

\* Mutant of ClaimCluster: a claim that exists is written over.
ClaimClusterOver(p) ==
  /\ At(p, "claiming")
  /\ owner' = Cfg(p).cluster
  /\ Update(p, [proc[p] EXCEPT !.claimBe = FALSE,
                  !.pc = IF Cfg(p).mode = "claim-key" THEN "closeBackend" ELSE "reread"])
  /\ UNCHANGED <<starts, asked>>

\* Mutant of ClaimCluster: the claim backend is closed only after success.
ClaimClusterLeaks(p) ==
  /\ At(p, "claiming")
  /\ owner' \in IF owner = None THEN {None, Cfg(p).cluster} ELSE {owner}
  /\ \E to \in {"closeRaft"} \cup (IF owner' = Cfg(p).cluster THEN {"reread"} ELSE {}) :
       Update(p, [proc[p] EXCEPT !.claimBe = proc[p].claimBe /\ to # "reread",
                    !.pc = IF Cfg(p).mode = "claim-key" THEN "closeBackend" ELSE to])
  /\ UNCHANGED <<starts, asked>>

\* ClaimCluster never reassigns; its answer may be lost after it took effect.
\* The claim backend is closed whatever the result.  A PKCS#11 backend that had
\* to log in again for its precheck may have its PIN refused.
ClaimCluster(p) ==
  /\ At(p, "claiming")
  /\ owner' \in IF owner = None THEN {None, Cfg(p).cluster} ELSE {owner}
  /\ \E to \in {"closeRaft"} \cup (IF owner' = Cfg(p).cluster THEN {"reread"} ELSE {}),
        pin \in BOOLEAN :
       /\ pin => Cfg(p).backend = "pkcs11" /\ to = "closeRaft" /\ owner' = owner
       /\ Update(p, [proc[p] EXCEPT !.claimBe = FALSE, !.pin = pin,
                    !.pc = IF Cfg(p).mode = "claim-key" THEN "closeBackend" ELSE to])
  /\ UNCHANGED <<starts, asked>>

\* The claim is read again through the runtime backend.
Reread(p) ==
  /\ At(p, "reread")
  /\ Fail(p) \/ (owner = Cfg(p).cluster /\ Proceed(p, "preflight"))
  /\ Unclaiming

\* VerifyCanSign: a signature is made and checked; then ctx.Err.
VerifyCanSign(p) ==
  /\ At(p, "preflight")
  /\ \/ proc[p].ctx = "live" /\ Proceed(p, "renewal")
     \/ Fail(p)
     \/ Cfg(p).backend = "pkcs11" /\ Update(p, [proc[p] EXCEPT !.pc = "closeRaft", !.pin = TRUE])
  /\ Unclaiming

StartRenewal(p) ==
  /\ At(p, "renewal")
  /\ Update(p, [proc[p] EXCEPT !.pc = "assemble", !.renewing = Cfg(p).backend = "vault"])
  /\ Unclaiming

\* Mutant of Assemble: readiness ends only with Lifecycle.Run.
AssembleUndrained(p) ==
  /\ At(p, "assemble")
  /\ Fail(p) \/ Update(p, [proc[p] EXCEPT !.pc = "serving", !.ready = proc[p].hs])
  /\ Unclaiming

\* signer.New, LoadOrGenConnKey, buildNodeSource, server.New, SetNodes; then
\* SetReady(true), and SetReady(false) registered for the end of ctx.
Assemble(p) ==
  /\ At(p, "assemble")
  /\ \/ Fail(p)
     \/ Update(p, [proc[p] EXCEPT !.pc = "serving", !.ready = proc[p].hs, !.afterFunc = TRUE])
  /\ Unclaiming

\* context.AfterFunc runs in a goroutine of its own while Lifecycle.Run stops.
AfterFunc(p) ==
  /\ proc[p].afterFunc /\ proc[p].ctx = "done"
  /\ Update(p, [proc[p] EXCEPT !.ready = FALSE, !.afterFunc = FALSE])
  /\ Unclaiming

\* Mutant of RunReturns: readiness is left to the AfterFunc.
RunReturnsReady(p) ==
  /\ At(p, "serving") /\ proc[p].ctx = "done"
  /\ Update(p, [proc[p] EXCEPT !.pc = "closeRaft", !.afterFunc = FALSE])
  /\ Unclaiming

\* Lifecycle.Run returns when ctx is done, and only then; the deferred calls stop
\* the AfterFunc and clear readiness.
RunReturns(p) ==
  /\ At(p, "serving") /\ proc[p].ctx = "done"
  /\ Update(p, [proc[p] EXCEPT !.pc = "closeRaft", !.ready = FALSE, !.afterFunc = FALSE])
  /\ Unclaiming

\* --initialize-only: the membership must be readable and have a voter; with
\* more than one the process stays for the sake of the quorum.
RaftMembership(p) ==
  /\ At(p, "membership")
  /\ Fail(p) \/ Proceed(p, IF Cfg(p).voters > 1 THEN "linger" ELSE "closeRaft")
  /\ Unclaiming

LingerEnds(p) ==
  /\ At(p, "linger") /\ proc[p].ctx = "done"
  /\ Proceed(p, "closeRaft")
  /\ Unclaiming
-----------------------------------------------------------------------------
CloseRaft(p) ==
  /\ At(p, "closeRaft")
  /\ Update(p, [proc[p] EXCEPT !.pc = "closeBackend", !.raft = FALSE])
  /\ Unclaiming

CloseBackend(p) ==
  /\ At(p, "closeBackend")
  /\ Update(p, [proc[p] EXCEPT !.pc = "closed", !.be = FALSE, !.renewing = FALSE])
  /\ Unclaiming

\* Mutant of Closed: the error is returned whatever it is.
ClosedReturns(p) ==
  /\ At(p, "closed")
  /\ Update(p, Off)
  /\ Unclaiming

\* Mutant of Closed: a parked process always takes a context of its own.
ClosedAnew(p) ==
  /\ At(p, "closed")
  /\ Update(p, IF proc[p].hs /\ proc[p].pin
               THEN [proc[p] EXCEPT !.pc = "parked", !.ctx = "live"] ELSE Off)
  /\ Unclaiming

\* The end of runStart: a refused PIN keeps the process, its probes answered,
\* so that no supervisor restarts it into the token's retry limit.
Closed(p) ==
  /\ At(p, "closed")
  /\ IF proc[p].hs /\ proc[p].pin
     THEN Update(p, [proc[p] EXCEPT !.pc = "parked",
                       !.ctx = IF proc[p].ctx = "none" THEN "live" ELSE proc[p].ctx])
     ELSE Update(p, Off)
  /\ Unclaiming

ParkedEnds(p) ==
  /\ At(p, "parked") /\ proc[p].ctx = "done"
  /\ Update(p, Off)
  /\ Unclaiming

\* SIGTERM: caught once there is a context, fatal before; ctx is done only once.
Signal(p) ==
  /\ ~At(p, "off") /\ proc[p].ctx # "done"
  /\ Update(p, IF proc[p].ctx = "none" THEN Off ELSE [proc[p] EXCEPT !.ctx = "done"])
  /\ asked' = asked \cup {p}
  /\ UNCHANGED <<owner, starts>>

Crash(p) ==
  /\ ~At(p, "off")
  /\ Update(p, Off)
  /\ asked' = asked \cup {p}
  /\ UNCHANGED <<owner, starts>>

Prepare(p) ==
  \/ startHealthServer(p) \/ Open(p) \/ verifyExpectedPublicKey(p) \/ NewRaftStore(p)
  \/ EnsureClusterID(p) \/ RequireBinding(p) \/ OpenClaimBackend(p) \/ ClaimCluster(p)
  \/ Reread(p) \/ VerifyCanSign(p) \/ StartRenewal(p) \/ Assemble(p) \/ RaftMembership(p)
Finish(p) ==
  RunReturns(p) \/ LingerEnds(p) \/ CloseRaft(p) \/ CloseBackend(p) \/ Closed(p) \/ ParkedEnds(p)

StartNext ==
  \E p \in Procs :
    \/ \E c \in Configs : Start(p, c)
    \/ Prepare(p) \/ Finish(p) \/ AfterFunc(p) \/ Signal(p) \/ Crash(p)

StartSpec == StartInit /\ [][StartNext]_startVars

\* Nothing but the runtime's own goroutine: Run may take all the time it wants.
FairStartSpec == StartSpec /\ \A p \in Procs : WF_startVars(AfterFunc(p))

\* Every call of the main goroutine returns: those that wait take ctx or have a
\* bound of their own, and Lifecycle.Run ends (ShutdownEnds of Lifecycle).
CallsReturn == \A p \in Procs : WF_startVars(Prepare(p) \/ Finish(p))
-----------------------------------------------------------------------------
Serves(p) == proc[p].pc = "serving"

\* A process serves only for the cluster that owns the key, so processes of two
\* Raft histories never serve at the same time, however their starts, claims and
\* crashes interleave (prepareStartupWithClaim).
OneHistoryServes ==
  StartTypeOK /\ \A p \in Procs : Serves(p) => owner = proc[p].cfg.cluster

\* While /readyz says yes, the backend, the store and the token renewal are up
\* and the process serves: it is not said before the preflight, and is taken
\* back before anything is closed (the order of the deferred calls).
ReadyMeansServing ==
  \A p \in Procs : proc[p].ready =>
    /\ proc[p].hs /\ proc[p].be /\ proc[p].raft /\ Serves(p)
    /\ proc[p].cfg.backend = "vault" => proc[p].renewing

InOrder(p) ==
  /\ proc[p].raft => proc[p].be
  /\ proc[p].claimBe => proc[p].be /\ proc[p].pc = "claiming"
  /\ proc[p].pc \in {"off", "parked"} =>
       ~ (proc[p].be \/ proc[p].raft \/ proc[p].ready \/ proc[p].renewing)
  /\ proc[p].pc = "parked" => proc[p].hs

\* What a process holds it holds in the order of its steps, and claim credentials
\* never outlive the claim (runStart, claimWithConfig).  One whose PIN was refused
\* keeps nothing but the health listener and never ends by itself: only a signal
\* or a crash does it (the end of runStart).
HeldInOrder ==
  [][\A p \in Procs :
       /\ InOrder(p)'
       /\ proc[p].pin /\ proc[p].hs /\ proc'[p].pc = "off" => p \in asked']_startVars

\* A process that caught a signal says so at once, even if Lifecycle.Run never
\* returns (context.AfterFunc); and it ends, wherever the signal found it, if the
\* calls it makes return (the context of runStart reaches every one that waits).
SignalEnds ==
  \A p \in Procs :
    /\ proc[p].ctx = "done" ~> ~proc[p].ready
    /\ CallsReturn => (proc[p].ctx = "done" ~> proc[p].pc = "off")
=============================================================================
