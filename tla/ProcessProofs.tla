--------------------------- MODULE ProcessProofs ---------------------------
(* A process of cosmosigner.  While it starts and ends: only the owner of  *)
(* the key serves, readiness means serving, and what a process holds it    *)
(* holds in order, for any number of processes, clusters and               *)
(* configurations, and any number of starts, signals and crashes.  While   *)
(* it runs: retirement is final and silent, the handoff is quiet and the   *)
(* published status is current, for any nodes, connectors, faults and      *)
(* voters.                                                                 *)
EXTENDS Startup, Lifecycle, TLAPS
-----------------------------------------------------------------------------
(* `start` and `claim-key` (Startup).                                      *)

\* The steps of runStart past the check of the binding.
Cleared == {"preflight", "renewal", "assemble", "serving"}

\* The steps at which the store is open, and those at which the backend is.
RaftOpen(s) ==
  \/ s.pc \in Cleared \cup {"identity", "binding", "claim", "reread", "membership", "linger",
                            "closeRaft"}
  \/ s.pc = "claiming" /\ s.cfg.mode # "claim-key"
BackendOpen(s) == RaftOpen(s) \/ s.pc \in {"pubkey", "raft", "claiming", "closeBackend"}

\* What the step of a process says about what it has open.
SoundProc(s) ==
  /\ s.pc # "off" => s.cfg \in Configs
  /\ s.pc \in {"pubkey", "raft"} \/ s.raft => s.cfg.mode # "claim-key"
  /\ s.raft <=> RaftOpen(s)
  /\ s.be <=> BackendOpen(s)
  /\ s.claimBe => s.pc = "claiming"
  /\ s.ready => s.pc = "serving" /\ s.hs
  /\ s.renewing => s.pc \in {"assemble", "serving", "closeRaft", "closeBackend"}
  /\ s.pc \in {"assemble", "serving"} /\ s.cfg.backend = "vault" => s.renewing
  /\ s.pin => s.pc \in {"closeRaft", "closeBackend", "closed", "parked"}
  /\ s.pc = "parked" => s.hs

\* Past the check of the binding the key is the cluster's, and a context that is
\* done was ended from outside.
StartInv ==
  /\ StartTypeOK
  /\ \A p \in Procs :
       /\ SoundProc(proc[p])
       /\ proc[p].pc \in Cleared => owner = proc[p].cfg.cluster
       /\ proc[p].ctx = "done" => p \in asked
-----------------------------------------------------------------------------
\* A step of one process to a sound record keeps the invariant, as long as a
\* claim is never taken from its owner.
LEMMA ProcStep ==
  ASSUME StartInv, NEW p \in Procs, NEW s \in Proc, SoundProc(s), Update(p, s),
         s.pc \in Cleared => owner' = s.cfg.cluster,
         s.ctx = "done" => p \in asked',
         owner' = owner \/ (owner = None /\ owner' \in Clusters \cup {None}),
         starts' \in 0..MaxStarts, asked' \subseteq Procs, asked \ {p} \subseteq asked'
  PROVE  StartInv'
<1>1. proc \in [Procs -> Proc] /\ owner \in Clusters \cup {None}
  BY DEF StartInv, StartTypeOK
<1>2. /\ proc' \in [Procs -> Proc] /\ proc'[p] = s
      /\ \A q \in Procs \ {p} : proc'[q] = proc[q]
  BY <1>1 DEF Update
<1>3. StartTypeOK'
  BY <1>1, <1>2 DEF StartTypeOK
<1>4. ASSUME NEW q \in Procs \ {p}
      PROVE  /\ SoundProc(proc[q])
             /\ proc[q].pc \in Cleared => owner' = proc[q].cfg.cluster
             /\ proc[q].ctx = "done" => q \in asked'
  <2>1. /\ SoundProc(proc[q])
        /\ proc[q].pc \in Cleared => owner = proc[q].cfg.cluster
        /\ proc[q].ctx = "done" => q \in asked
    BY DEF StartInv
  <2>2. proc[q].pc \in Cleared => proc[q].cfg.cluster # None
    BY <2>1, ConfigsAssumption, StartsAssumption DEF SoundProc, Cleared, Config
  <2>3. QED BY <2>1, <2>2
<1>5. \A q \in Procs : /\ SoundProc(proc'[q])
                       /\ proc'[q].pc \in Cleared => owner' = proc'[q].cfg.cluster
                       /\ proc'[q].ctx = "done" => q \in asked'
  BY <1>2, <1>4
<1>6. QED BY <1>3, <1>5 DEF StartInv, SoundProc, RaftOpen, BackendOpen

\* What the invariant says of one process.
LEMMA ProcFacts ==
  ASSUME StartInv, NEW p \in Procs
  PROVE  /\ proc[p] \in Proc /\ SoundProc(proc[p])
         /\ proc[p].pc \in Cleared => owner = proc[p].cfg.cluster
         /\ proc[p].ctx = "done" => p \in asked
         /\ starts \in 0..MaxStarts /\ asked \subseteq Procs
BY DEF StartInv, StartTypeOK

\* A process that only moves to another step: everything else it has stays.
LEMMA GotoStep ==
  ASSUME StartInv, NEW p \in Procs, NEW to \in Steps, Proceed(p, to), Unclaiming,
         SoundProc([proc[p] EXCEPT !.pc = to]),
         to \in Cleared => owner = proc[p].cfg.cluster
  PROVE  StartInv'
<1> DEFINE s == [proc[p] EXCEPT !.pc = to]
<1>1. s \in Proc /\ s.pc = to /\ s.cfg = proc[p].cfg /\ s.ctx = proc[p].ctx
  BY ProcFacts DEF Proc
<1>2. Update(p, s)
  BY DEF Proceed
<1>3. SoundProc(s)
  OBVIOUS
<1> HIDE DEF s
<1>4. QED BY <1>1, <1>2, <1>3, ProcFacts, ProcStep DEF Unclaiming

\* A process that moves on from a sound step to one at which the same things are
\* open, and not the ones that only some steps know.
LEMMA MoveStep ==
  ASSUME StartInv, NEW p \in Procs, NEW to \in Steps, Proceed(p, to), Unclaiming,
         to \notin {"off", "claiming", "assemble", "serving", "parked", "pubkey", "raft"},
         proc[p].pc # "off", ~proc[p].claimBe, ~proc[p].ready,
         proc[p].raft <=> to \in Cleared \cup {"identity", "binding", "claim", "reread",
                                               "membership", "linger", "closeRaft"},
         proc[p].be <=> proc[p].raft \/ to = "closeBackend",
         proc[p].renewing => to \in {"closeRaft", "closeBackend"},
         proc[p].pin => to \in {"closeRaft", "closeBackend", "closed"},
         to \in Cleared => owner = proc[p].cfg.cluster
  PROVE  StartInv'
<1> DEFINE s == [proc[p] EXCEPT !.pc = to]
<1>1. proc[p] \in Proc /\ SoundProc(proc[p])
  BY ProcFacts
<1>2. /\ s.pc = to /\ s.cfg = proc[p].cfg /\ s.raft = proc[p].raft /\ s.be = proc[p].be
      /\ s.claimBe = proc[p].claimBe /\ s.ready = proc[p].ready
      /\ s.renewing = proc[p].renewing /\ s.pin = proc[p].pin /\ s.hs = proc[p].hs
  BY <1>1 DEF Proc
<1> HIDE DEF s
<1>3. SoundProc(s)
  BY <1>1, <1>2 DEF SoundProc, RaftOpen, BackendOpen, Cleared
<1>4. QED BY <1>3, GotoStep DEF s

\* An error before the process serves: the deferred calls begin with what is open.
LEMMA FailStep ==
  ASSUME StartInv, NEW p \in Procs, Fail(p), Unclaiming,
         proc[p].pc \in {"open", "pubkey", "raft", "identity", "binding", "claim", "reread",
                         "preflight", "assemble", "membership"}
  PROVE  StartInv'
<1> DEFINE to == IF proc[p].raft THEN "closeRaft" ELSE
                 IF proc[p].be THEN "closeBackend" ELSE "closed"
<1>1. proc[p] \in Proc /\ SoundProc(proc[p])
  BY ProcFacts
<1>2. Proceed(p, to)
  BY DEF Fail
<1>3. /\ ~proc[p].claimBe /\ ~proc[p].ready /\ proc[p].pc # "off" /\ ~proc[p].pin
      /\ proc[p].raft => proc[p].be
      /\ proc[p].renewing => proc[p].raft
  BY <1>1 DEF SoundProc, RaftOpen, BackendOpen, Cleared
<1>4. /\ to \in {"closeRaft", "closeBackend", "closed"}
      /\ proc[p].raft <=> to = "closeRaft"
      /\ proc[p].be <=> proc[p].raft \/ to = "closeBackend"
  BY <1>3
<1> HIDE DEF to
<1>5. QED BY <1>2, <1>3, <1>4, MoveStep DEF Steps, Cleared

\* The record of a process that is off is sound.
LEMMA OffSound ==
  /\ Off \in Proc /\ SoundProc(Off) /\ Off.pc = "off" /\ Off.ctx = "none"
<1>1. /\ Off \in Proc /\ Off.pc = "off" /\ Off.ctx = "none" /\ ~Off.raft /\ ~Off.be
      /\ ~Off.claimBe /\ ~Off.ready /\ ~Off.renewing /\ ~Off.pin
  BY DEF Off, Proc, Steps
<1>2. QED BY <1>1 DEF SoundProc, RaftOpen, BackendOpen, Cleared

\* A process that ends.
LEMMA OffStep ==
  ASSUME StartInv, NEW p \in Procs, Update(p, Off), UNCHANGED <<owner, starts>>,
         asked' \subseteq Procs, asked \subseteq asked'
  PROVE  StartInv'
BY OffSound, ProcFacts, ProcStep DEF Cleared
-----------------------------------------------------------------------------
\* The steps of runStart up to the identity of the cluster.
LEMMA EarlyInv ==
  ASSUME StartInv, NEW p \in Procs,
         \/ startHealthServer(p) \/ Open(p) \/ verifyExpectedPublicKey(p) \/ NewRaftStore(p)
         \/ EnsureClusterID(p) \/ RaftMembership(p) \/ LingerEnds(p)
  PROVE  StartInv'
<1> DEFINE old == proc[p]
<1>0. old \in Proc /\ SoundProc(old) /\ (old.ctx = "done" => p \in asked)
      /\ starts \in 0..MaxStarts /\ asked \subseteq Procs
  BY ProcFacts
<1>1. CASE startHealthServer(p)
  <2>1. CASE Update(p, Off)
    BY <1>0, <1>1, <2>1, OffStep DEF startHealthServer, Unclaiming
  <2>2. CASE Update(p, [old EXCEPT !.pc = "open", !.hs = Cfg(p).http])
    <3> DEFINE s == [old EXCEPT !.pc = "open", !.hs = Cfg(p).http]
    <3>1. old.pc = "health" /\ Cfg(p) \in Configs /\ Cfg(p).http \in BOOLEAN
      BY <1>0, <1>1, ConfigsAssumption DEF startHealthServer, At, SoundProc, Cfg, Config
    <3>2. /\ s \in Proc /\ s.pc = "open" /\ s.cfg = old.cfg /\ s.raft = old.raft
          /\ s.be = old.be /\ s.claimBe = old.claimBe /\ s.ready = old.ready
          /\ s.renewing = old.renewing /\ s.pin = old.pin /\ s.ctx = old.ctx
      BY <1>0, <3>1, Zenon DEF Proc, Steps
    <3> HIDE DEF s
    <3>3. SoundProc(s)
      BY <1>0, <3>1, <3>2 DEF SoundProc, RaftOpen, BackendOpen, Cleared
    <3>4. QED BY <1>0, <1>1, <2>2, <3>2, <3>3, ProcStep, Zenon
              DEF startHealthServer, Unclaiming, Cleared, s
  <2>3. QED BY <1>1, <2>1, <2>2 DEF startHealthServer
<1>2. CASE Open(p)
  <2>0. old.pc = "open" /\ Unclaiming
    BY <1>2 DEF Open, At
  <2>1. CASE Fail(p)
    BY <2>0, <2>1, FailStep
  <2>2. CASE Update(p, [old EXCEPT !.pc = "closed", !.pin = TRUE])
    <3> DEFINE s == [old EXCEPT !.pc = "closed", !.pin = TRUE]
    <3>1. /\ s \in Proc /\ s.pc = "closed" /\ s.cfg = old.cfg /\ s.raft = old.raft
          /\ s.be = old.be /\ s.claimBe = old.claimBe /\ s.ready = old.ready
          /\ s.renewing = old.renewing /\ s.ctx = old.ctx
      BY <1>0, Zenon DEF Proc, Steps
    <3>2. Update(p, s)
      BY <2>2
    <3> HIDE DEF s
    <3>3. SoundProc(s)
      BY <1>0, <2>0, <3>1 DEF SoundProc, RaftOpen, BackendOpen, Cleared
    <3>4. QED BY <1>0, <2>0, <3>1, <3>2, <3>3, ProcStep DEF Unclaiming, Cleared
  <2>3. ASSUME NEW to \in {"claiming", "pubkey"},
               to = IF Cfg(p).mode = "claim-key" THEN "claiming" ELSE "pubkey",
               Update(p, [old EXCEPT !.be = TRUE, !.pc = to])
        PROVE  StartInv'
    <3> DEFINE s == [old EXCEPT !.be = TRUE, !.pc = to]
    <3>1. /\ s \in Proc /\ s.pc = to /\ s.cfg = old.cfg /\ s.raft = old.raft
          /\ s.be /\ s.claimBe = old.claimBe /\ s.ready = old.ready
          /\ s.renewing = old.renewing /\ s.ctx = old.ctx /\ s.pin = old.pin
      BY <1>0, Zenon DEF Proc, Steps
    <3>2. Update(p, s)
      BY <2>3
    <3> HIDE DEF s
    <3>3. SoundProc(s)
      BY <1>0, <2>0, <2>3, <3>1 DEF SoundProc, RaftOpen, BackendOpen, Cleared, Cfg
    <3>4. QED BY <1>0, <2>0, <3>1, <3>2, <3>3, ProcStep DEF Unclaiming, Cleared
  <2>4. QED BY <1>2, <2>1, <2>2, <2>3, Zenon DEF Open
<1>3. CASE verifyExpectedPublicKey(p)
  <2>0. old.pc = "pubkey" /\ Unclaiming
    BY <1>3 DEF verifyExpectedPublicKey, At
  <2>1. CASE Fail(p)
    BY <2>0, <2>1, FailStep
  <2>2. CASE Update(p, [old EXCEPT !.pc = "raft", !.ctx = "live"])
    <3> DEFINE s == [old EXCEPT !.pc = "raft", !.ctx = "live"]
    <3>1. /\ s \in Proc /\ s.pc = "raft" /\ s.cfg = old.cfg /\ s.raft = old.raft
          /\ s.be = old.be /\ s.claimBe = old.claimBe /\ s.ready = old.ready
          /\ s.renewing = old.renewing /\ s.ctx = "live" /\ s.pin = old.pin
      BY <1>0, Zenon DEF Proc, Steps
    <3>2. Update(p, s)
      BY <2>2
    <3> HIDE DEF s
    <3>3. SoundProc(s)
      BY <1>0, <2>0, <3>1 DEF SoundProc, RaftOpen, BackendOpen, Cleared
    <3>4. QED BY <1>0, <2>0, <3>1, <3>2, <3>3, ProcStep DEF Unclaiming, Cleared
  <2>3. QED BY <1>3, <2>1, <2>2 DEF verifyExpectedPublicKey
<1>4. CASE NewRaftStore(p)
  <2>0. old.pc = "raft" /\ Unclaiming
    BY <1>4 DEF NewRaftStore, At
  <2>1. CASE Fail(p)
    BY <2>0, <2>1, FailStep
  <2>2. CASE Update(p, [old EXCEPT !.pc = "identity", !.raft = TRUE])
    <3> DEFINE s == [old EXCEPT !.pc = "identity", !.raft = TRUE]
    <3>1. /\ s \in Proc /\ s.pc = "identity" /\ s.cfg = old.cfg /\ s.raft
          /\ s.be = old.be /\ s.claimBe = old.claimBe /\ s.ready = old.ready
          /\ s.renewing = old.renewing /\ s.ctx = old.ctx /\ s.pin = old.pin
      BY <1>0, Zenon DEF Proc, Steps
    <3>2. Update(p, s)
      BY <2>2
    <3> HIDE DEF s
    <3>3. SoundProc(s)
      BY <1>0, <2>0, <3>1 DEF SoundProc, RaftOpen, BackendOpen, Cleared
    <3>4. QED BY <1>0, <2>0, <3>1, <3>2, <3>3, ProcStep DEF Unclaiming, Cleared
  <2>3. QED BY <1>4, <2>1, <2>2 DEF NewRaftStore
<1>5. CASE EnsureClusterID(p) \/ RaftMembership(p) \/ LingerEnds(p)
  <2>0. old.pc \in {"identity", "membership", "linger"} /\ Unclaiming
    BY <1>5 DEF EnsureClusterID, RaftMembership, LingerEnds, At
  <2>1. CASE Fail(p) /\ old.pc # "linger"
    BY <2>0, <2>1, FailStep
  <2>2. ASSUME NEW to \in {"membership", "binding", "linger", "closeRaft"}, Proceed(p, to)
        PROVE  StartInv'
    <3>1. /\ ~old.claimBe /\ ~old.ready /\ ~old.renewing /\ ~old.pin /\ old.raft /\ old.be
      BY <1>0, <2>0 DEF SoundProc, RaftOpen, BackendOpen, Cleared
    <3>2. QED BY <2>0, <2>2, <3>1, MoveStep DEF Steps, Cleared
  <2>3. QED BY <1>5, <2>1, <2>2 DEF EnsureClusterID, RaftMembership, LingerEnds, At
<1>6. QED BY <1>1, <1>2, <1>3, <1>4, <1>5

\* The steps that read or make the claim: a claim that exists is never changed.
LEMMA ClaimInv ==
  ASSUME StartInv, NEW p \in Procs,
         RequireBinding(p) \/ OpenClaimBackend(p) \/ ClaimCluster(p) \/ Reread(p)
  PROVE  StartInv'
<1> DEFINE old == proc[p]
<1>0. old \in Proc /\ SoundProc(old) /\ (old.ctx = "done" => p \in asked)
      /\ starts \in 0..MaxStarts /\ asked \subseteq Procs
  BY ProcFacts
<1>1. CASE RequireBinding(p) \/ Reread(p)
  <2>0. old.pc \in {"binding", "reread"} /\ Unclaiming
    BY <1>1 DEF RequireBinding, Reread, At
  <2>1. CASE Fail(p)
    BY <2>0, <2>1, FailStep
  <2>2. ASSUME NEW to \in {"preflight", "claim"}, Proceed(p, to),
               to = "preflight" => owner = old.cfg.cluster
        PROVE  StartInv'
    <3>1. ~old.claimBe /\ ~old.ready /\ ~old.renewing /\ ~old.pin /\ old.raft /\ old.be
      BY <1>0, <2>0 DEF SoundProc, RaftOpen, BackendOpen, Cleared
    <3>2. QED BY <2>0, <2>2, <3>1, MoveStep DEF Steps, Cleared
  <2>3. QED BY <1>1, <2>1, <2>2 DEF RequireBinding, Reread, Cfg
<1>2. CASE OpenClaimBackend(p)
  <2>0. old.pc = "claim" /\ Unclaiming
    BY <1>2 DEF OpenClaimBackend, At
  <2>1. CASE Fail(p)
    BY <2>0, <2>1, FailStep
  <2>2. ASSUME NEW own \in BOOLEAN, Update(p, [old EXCEPT !.pc = "claiming", !.claimBe = own])
        PROVE  StartInv'
    <3> DEFINE s == [old EXCEPT !.pc = "claiming", !.claimBe = own]
    <3>1. /\ s \in Proc /\ s.pc = "claiming" /\ s.cfg = old.cfg /\ s.raft = old.raft
          /\ s.be = old.be /\ s.ready = old.ready
          /\ s.renewing = old.renewing /\ s.ctx = old.ctx /\ s.pin = old.pin
      BY <1>0, Zenon DEF Proc, Steps
    <3>2. Update(p, s)
      BY <2>2
    <3> HIDE DEF s
    <3>3. SoundProc(s)
      BY <1>0, <2>0, <3>1 DEF SoundProc, RaftOpen, BackendOpen, Cleared
    <3>4. QED BY <1>0, <2>0, <3>1, <3>2, <3>3, ProcStep DEF Unclaiming, Cleared
  <2>3. HasSeparateClaimCredentials(Cfg(p)) \in BOOLEAN
    BY DEF HasSeparateClaimCredentials
  <2>4. QED BY <1>2, <2>1, <2>2, <2>3, Zenon DEF OpenClaimBackend
<1>3. CASE ClaimCluster(p)
  <2>1. PICK to \in {"closeRaft", "reread"}, pin \in BOOLEAN :
          /\ pin => to = "closeRaft"
          /\ Update(p, [old EXCEPT !.claimBe = FALSE, !.pin = pin,
                          !.pc = IF Cfg(p).mode = "claim-key" THEN "closeBackend" ELSE to])
    BY <1>3, Zenon DEF ClaimCluster
  <2>2. /\ old.pc = "claiming" /\ UNCHANGED <<starts, asked>>
        /\ owner' \in IF owner = None THEN {None, old.cfg.cluster} ELSE {owner}
    BY <1>3, Zenon DEF ClaimCluster, At, Cfg
  <2>3. old.cfg \in Configs /\ old.cfg.cluster \in Clusters
    BY <1>0, <2>2, ConfigsAssumption DEF SoundProc, Config
  <2> DEFINE next == IF Cfg(p).mode = "claim-key" THEN "closeBackend" ELSE to
             s == [old EXCEPT !.claimBe = FALSE, !.pin = pin, !.pc = next]
  <2>4. /\ next \in {"closeBackend", "closeRaft", "reread"}
        /\ next = "closeBackend" <=> old.cfg.mode = "claim-key"
        /\ pin => next # "reread"
    BY <2>1 DEF Cfg
  <2>5. Update(p, s)
    BY <2>1
  <2> HIDE DEF next
  <2>6. /\ s \in Proc /\ s.pc = next /\ s.cfg = old.cfg /\ s.raft = old.raft
        /\ s.be = old.be /\ ~s.claimBe /\ s.ready = old.ready
        /\ s.renewing = old.renewing /\ s.ctx = old.ctx /\ s.pin = pin
    BY <1>0, <2>4, Zenon DEF Proc, Steps
  <2> HIDE DEF s
  <2>7. SoundProc(s)
    BY <1>0, <2>2, <2>4, <2>6 DEF SoundProc, RaftOpen, BackendOpen, Cleared
  <2>8. QED BY <1>0, <2>2, <2>3, <2>4, <2>5, <2>6, <2>7, ProcStep DEF Cleared
<1>4. QED BY <1>1, <1>2, <1>3

\* The preflight, the renewal, and readiness.
LEMMA ServeInv ==
  ASSUME StartInv, NEW p \in Procs,
         \/ VerifyCanSign(p) \/ StartRenewal(p) \/ Assemble(p) \/ AfterFunc(p) \/ RunReturns(p)
  PROVE  StartInv'
<1> DEFINE old == proc[p]
<1>0. old \in Proc /\ SoundProc(old) /\ (old.ctx = "done" => p \in asked)
      /\ (old.pc \in Cleared => owner = old.cfg.cluster)
      /\ starts \in 0..MaxStarts /\ asked \subseteq Procs
  BY ProcFacts
<1>1. CASE VerifyCanSign(p)
  <2>0. old.pc = "preflight" /\ Unclaiming
    BY <1>1 DEF VerifyCanSign, At
  <2>1. CASE Fail(p)
    BY <2>0, <2>1, FailStep
  <2>2. CASE Proceed(p, "renewal")
    <3>1. ~old.claimBe /\ ~old.ready /\ ~old.renewing /\ ~old.pin /\ old.raft /\ old.be
      BY <1>0, <2>0 DEF SoundProc, RaftOpen, BackendOpen, Cleared
    <3>2. QED BY <1>0, <2>0, <2>2, <3>1, MoveStep DEF Steps, Cleared
  <2>3. CASE Update(p, [old EXCEPT !.pc = "closeRaft", !.pin = TRUE])
    <3> DEFINE s == [old EXCEPT !.pc = "closeRaft", !.pin = TRUE]
    <3>1. /\ s \in Proc /\ s.pc = "closeRaft" /\ s.cfg = old.cfg /\ s.raft = old.raft
          /\ s.be = old.be /\ s.claimBe = old.claimBe /\ s.ready = old.ready
          /\ s.renewing = old.renewing /\ s.ctx = old.ctx
      BY <1>0, Zenon DEF Proc, Steps
    <3>2. Update(p, s)
      BY <2>3
    <3> HIDE DEF s
    <3>3. SoundProc(s)
      BY <1>0, <2>0, <3>1 DEF SoundProc, RaftOpen, BackendOpen, Cleared
    <3>4. QED BY <1>0, <2>0, <3>1, <3>2, <3>3, ProcStep DEF Unclaiming, Cleared
  <2>4. QED BY <1>1, <2>1, <2>2, <2>3 DEF VerifyCanSign
<1>2. CASE StartRenewal(p)
  <2>1. PICK vault \in BOOLEAN : /\ vault <=> old.cfg.backend = "vault"
                                 /\ Update(p, [old EXCEPT !.pc = "assemble", !.renewing = vault])
    <3>1. (old.cfg.backend = "vault") \in BOOLEAN
      OBVIOUS
    <3>2. Update(p, [old EXCEPT !.pc = "assemble", !.renewing = old.cfg.backend = "vault"])
      BY <1>2 DEF StartRenewal, Cfg
    <3>3. QED BY <3>1, <3>2, Zenon
  <2>2. old.pc = "renewal" /\ Unclaiming
    BY <1>2 DEF StartRenewal, At
  <2> DEFINE s == [old EXCEPT !.pc = "assemble", !.renewing = vault]
  <2>3. /\ s \in Proc /\ s.pc = "assemble" /\ s.cfg = old.cfg /\ s.raft = old.raft
        /\ s.be = old.be /\ s.claimBe = old.claimBe /\ s.ready = old.ready
        /\ s.renewing = vault /\ s.ctx = old.ctx /\ s.pin = old.pin
    BY <1>0, Zenon DEF Proc, Steps
  <2>4. Update(p, s)
    BY <2>1
  <2> HIDE DEF s
  <2>5. SoundProc(s)
    BY <1>0, <2>1, <2>2, <2>3 DEF SoundProc, RaftOpen, BackendOpen, Cleared
  <2>6. QED BY <1>0, <2>2, <2>3, <2>4, <2>5, ProcStep DEF Unclaiming, Cleared
<1>3. CASE Assemble(p)
  <2>0. old.pc = "assemble" /\ Unclaiming
    BY <1>3 DEF Assemble, At
  <2>1. CASE Fail(p)
    BY <2>0, <2>1, FailStep
  <2>2. CASE Update(p, [old EXCEPT !.pc = "serving", !.ready = old.hs, !.afterFunc = TRUE])
    <3> DEFINE s == [old EXCEPT !.pc = "serving", !.ready = old.hs, !.afterFunc = TRUE]
    <3>1. /\ s \in Proc /\ s.pc = "serving" /\ s.cfg = old.cfg /\ s.raft = old.raft
          /\ s.be = old.be /\ s.claimBe = old.claimBe /\ s.ready = old.hs /\ s.hs = old.hs
          /\ s.renewing = old.renewing /\ s.ctx = old.ctx /\ s.pin = old.pin
      BY <1>0, Zenon DEF Proc, Steps
    <3>2. Update(p, s)
      BY <2>2
    <3> HIDE DEF s
    <3>3. SoundProc(s)
      BY <1>0, <2>0, <3>1 DEF SoundProc, RaftOpen, BackendOpen, Cleared
    <3>4. QED BY <1>0, <2>0, <3>1, <3>2, <3>3, ProcStep DEF Unclaiming, Cleared
  <2>3. QED BY <1>3, <2>1, <2>2 DEF Assemble
<1>4. CASE AfterFunc(p)
  <2> DEFINE s == [old EXCEPT !.ready = FALSE, !.afterFunc = FALSE]
  <2>1. /\ s \in Proc /\ s.pc = old.pc /\ s.cfg = old.cfg /\ s.raft = old.raft
        /\ s.be = old.be /\ s.claimBe = old.claimBe /\ ~s.ready /\ s.hs = old.hs
        /\ s.renewing = old.renewing /\ s.ctx = old.ctx /\ s.pin = old.pin
    BY <1>0, Zenon DEF Proc
  <2>2. Update(p, s) /\ Unclaiming
    BY <1>4 DEF AfterFunc
  <2> HIDE DEF s
  <2>3. SoundProc(s)
    BY <1>0, <2>1 DEF SoundProc, RaftOpen, BackendOpen
  <2>4. QED BY <1>0, <2>1, <2>2, <2>3, ProcStep DEF Unclaiming
<1>5. CASE RunReturns(p)
  <2> DEFINE s == [old EXCEPT !.pc = "closeRaft", !.ready = FALSE, !.afterFunc = FALSE]
  <2>1. /\ s \in Proc /\ s.pc = "closeRaft" /\ s.cfg = old.cfg /\ s.raft = old.raft
        /\ s.be = old.be /\ s.claimBe = old.claimBe /\ ~s.ready
        /\ s.renewing = old.renewing /\ s.ctx = old.ctx /\ s.pin = old.pin
    BY <1>0, Zenon DEF Proc, Steps
  <2>2. old.pc = "serving" /\ Update(p, s) /\ Unclaiming
    BY <1>5 DEF RunReturns, At
  <2> HIDE DEF s
  <2>3. SoundProc(s)
    BY <1>0, <2>1, <2>2 DEF SoundProc, RaftOpen, BackendOpen, Cleared
  <2>4. QED BY <1>0, <2>1, <2>2, <2>3, ProcStep DEF Unclaiming, Cleared
<1>6. QED BY <1>1, <1>2, <1>3, <1>4, <1>5

\* The deferred calls, and the end of runStart.
LEMMA CloseInv ==
  ASSUME StartInv, NEW p \in Procs,
         CloseRaft(p) \/ CloseBackend(p) \/ Closed(p) \/ ParkedEnds(p)
  PROVE  StartInv'
<1> DEFINE old == proc[p]
<1>0. old \in Proc /\ SoundProc(old) /\ (old.ctx = "done" => p \in asked)
      /\ starts \in 0..MaxStarts /\ asked \subseteq Procs
  BY ProcFacts
<1>1. CASE CloseRaft(p)
  <2> DEFINE s == [old EXCEPT !.pc = "closeBackend", !.raft = FALSE]
  <2>1. /\ s \in Proc /\ s.pc = "closeBackend" /\ s.cfg = old.cfg /\ ~s.raft
        /\ s.be = old.be /\ s.claimBe = old.claimBe /\ s.ready = old.ready
        /\ s.renewing = old.renewing /\ s.ctx = old.ctx /\ s.pin = old.pin
    BY <1>0, Zenon DEF Proc, Steps
  <2>2. old.pc = "closeRaft" /\ Update(p, s) /\ Unclaiming
    BY <1>1 DEF CloseRaft, At
  <2> HIDE DEF s
  <2>3. SoundProc(s)
    BY <1>0, <2>1, <2>2 DEF SoundProc, RaftOpen, BackendOpen, Cleared
  <2>4. QED BY <1>0, <2>1, <2>2, <2>3, ProcStep DEF Unclaiming, Cleared
<1>2. CASE CloseBackend(p)
  <2> DEFINE s == [old EXCEPT !.pc = "closed", !.be = FALSE, !.renewing = FALSE]
  <2>1. /\ s \in Proc /\ s.pc = "closed" /\ s.cfg = old.cfg /\ s.raft = old.raft
        /\ ~s.be /\ s.claimBe = old.claimBe /\ s.ready = old.ready
        /\ ~s.renewing /\ s.ctx = old.ctx /\ s.pin = old.pin
    BY <1>0, Zenon DEF Proc, Steps
  <2>2. old.pc = "closeBackend" /\ Update(p, s) /\ Unclaiming
    BY <1>2 DEF CloseBackend, At
  <2> HIDE DEF s
  <2>3. SoundProc(s)
    BY <1>0, <2>1, <2>2 DEF SoundProc, RaftOpen, BackendOpen, Cleared
  <2>4. QED BY <1>0, <2>1, <2>2, <2>3, ProcStep DEF Unclaiming, Cleared
<1>3. CASE Closed(p) /\ old.hs /\ old.pin
  <2> DEFINE ctx == IF old.ctx = "none" THEN "live" ELSE old.ctx
             s == [old EXCEPT !.pc = "parked", !.ctx = ctx]
  <2>1. ctx \in {"live", "done"} /\ (ctx = "done" => old.ctx = "done")
    BY <1>0 DEF Proc
  <2>2. old.pc = "closed" /\ Update(p, s) /\ Unclaiming
    BY <1>3 DEF Closed, At
  <2> HIDE DEF ctx
  <2>3. /\ s \in Proc /\ s.pc = "parked" /\ s.cfg = old.cfg /\ s.raft = old.raft
        /\ s.be = old.be /\ s.claimBe = old.claimBe /\ s.ready = old.ready
        /\ s.renewing = old.renewing /\ s.ctx = ctx /\ s.pin = old.pin /\ s.hs = old.hs
    BY <1>0, <2>1, Zenon DEF Proc, Steps
  <2> HIDE DEF s
  <2>4. SoundProc(s)
    BY <1>0, <1>3, <2>2, <2>3 DEF SoundProc, RaftOpen, BackendOpen, Cleared
  <2>5. QED BY <1>0, <2>1, <2>2, <2>3, <2>4, ProcStep DEF Unclaiming, Cleared
<1>4. CASE Update(p, Off) /\ Unclaiming
  BY <1>0, <1>4, OffStep DEF Unclaiming
<1>5. QED BY <1>1, <1>2, <1>3, <1>4 DEF Closed, ParkedEnds

\* A start, a signal and a crash.
LEMMA OutsideInv ==
  ASSUME StartInv, NEW p \in Procs,
         (\E c \in Configs : Start(p, c)) \/ Signal(p) \/ Crash(p)
  PROVE  StartInv'
<1> DEFINE old == proc[p]
<1>0. old \in Proc /\ SoundProc(old)
      /\ (old.pc \in Cleared => owner = old.cfg.cluster)
      /\ starts \in 0..MaxStarts /\ asked \subseteq Procs
  BY ProcFacts
<1>1. ASSUME NEW c \in Configs, Start(p, c)
      PROVE  StartInv'
  <2> DEFINE to == IF c.mode = "claim-key" THEN "open" ELSE "health"
             s == [Off EXCEPT !.pc = to, !.cfg = c]
  <2>1. to \in {"open", "health"}
    OBVIOUS
  <2>2. Update(p, s) /\ UNCHANGED owner /\ asked' = asked \ {p}
    BY <1>1, Zenon DEF Start
  <2> HIDE DEF to
  <2>3. /\ s \in Proc /\ s.pc = to /\ s.cfg = c /\ ~s.raft /\ ~s.be /\ ~s.claimBe
        /\ ~s.ready /\ ~s.renewing /\ s.ctx = "none" /\ ~s.pin
    BY <2>1, Zenon DEF Proc, Steps, Off
  <2> HIDE DEF s
  <2>4. SoundProc(s)
    BY <2>1, <2>3 DEF SoundProc, RaftOpen, BackendOpen, Cleared
  <2>5. starts' \in 0..MaxStarts
    <3>1. starts < MaxStarts /\ starts' = starts + 1
      BY <1>1, Zenon DEF Start
    <3>2. QED BY <1>0, <3>1, StartsAssumption
  <2>6. QED BY <1>0, <2>1, <2>2, <2>3, <2>4, <2>5, ProcStep DEF Cleared
<1>2. CASE Update(p, Off) /\ (Signal(p) \/ Crash(p))
  BY <1>0, <1>2, OffStep DEF Signal, Crash
<1>3. CASE Signal(p) /\ Update(p, [old EXCEPT !.ctx = "done"])
  <2> DEFINE s == [old EXCEPT !.ctx = "done"]
  <2>1. /\ s \in Proc /\ s.pc = old.pc /\ s.cfg = old.cfg /\ s.raft = old.raft
        /\ s.be = old.be /\ s.claimBe = old.claimBe /\ s.ready = old.ready /\ s.hs = old.hs
        /\ s.renewing = old.renewing /\ s.pin = old.pin
    BY <1>0 DEF Proc
  <2>2. Update(p, s) /\ asked' = asked \cup {p} /\ UNCHANGED <<owner, starts>>
    BY <1>3 DEF Signal
  <2> HIDE DEF s
  <2>3. SoundProc(s)
    BY <1>0, <2>1 DEF SoundProc, RaftOpen, BackendOpen
  <2>4. QED BY <1>0, <2>1, <2>2, <2>3, ProcStep
<1>4. QED BY <1>1, <1>2, <1>3 DEF Signal, Crash
-----------------------------------------------------------------------------
\* The invariant holds in every reachable state: what a process has open is told
\* by its step, and past RequireClusterBinding the key is its cluster's.
THEOREM StartInvariant == StartSpec => []StartInv
<1>1. StartInit => StartInv
  <2>1. 0 \in 0..MaxStarts
    BY StartsAssumption
  <2>2. QED BY <2>1, OffSound DEF StartInit, StartInv, StartTypeOK, Cleared
<1>2. StartInv /\ [StartNext]_startVars => StartInv'
  <2>1. CASE UNCHANGED startVars
    BY <2>1 DEF startVars, StartInv, StartTypeOK, SoundProc, RaftOpen, BackendOpen
  <2>2. QED BY <2>1, EarlyInv, ClaimInv, ServeInv, CloseInv, OutsideInv
            DEF StartNext, Prepare, Finish
<1>3. QED BY <1>1, <1>2, PTL DEF StartSpec

\* A process serves only for the cluster that owns the key: no two Raft histories
\* ever serve at the same time (prepareStartupWithClaim).
THEOREM OnlyTheOwnerServes == StartSpec => []OneHistoryServes
<1>1. StartInv => OneHistoryServes
  BY DEF StartInv, OneHistoryServes, Serves, Cleared
<1>2. QED BY <1>1, StartInvariant, PTL

\* Readiness is told only while everything a signature needs is up (the deferred
\* calls of runStart).
THEOREM ReadyProcessServes == StartSpec => []ReadyMeansServing
<1>1. StartInv => ReadyMeansServing
  BY DEF StartInv, ReadyMeansServing, Serves, SoundProc, RaftOpen, BackendOpen, Cleared
<1>2. QED BY <1>1, StartInvariant, PTL

\* Whatever fails, things are closed in the order they were opened in, and a
\* process whose PIN was refused ends only when it is told to (runStart).
THEOREM ProcessHoldsInOrder == StartSpec => HeldInOrder
<1> DEFINE Held == \A p \in Procs :
                     /\ InOrder(p)'
                     /\ proc[p].pin /\ proc[p].hs /\ proc'[p].pc = "off" => p \in asked'
<1>1. StartInv /\ StartInv' /\ [StartNext]_startVars => [Held]_startVars
  <2>1. SUFFICES ASSUME StartInv, StartInv', StartNext, NEW p \in Procs
                 PROVE  /\ InOrder(p)'
                        /\ proc[p].pin /\ proc[p].hs /\ proc'[p].pc = "off" => p \in asked'
    BY DEF Held
  <2>2. InOrder(p)'
    BY <2>1 DEF StartInv, SoundProc, RaftOpen, BackendOpen, Cleared, InOrder
  <2>3. ASSUME proc[p].pin, proc[p].hs, proc'[p].pc = "off"
        PROVE  p \in asked'
    <3>1. PICK q \in Procs : \/ \E c \in Configs : Start(q, c)
                             \/ Prepare(q) \/ Finish(q) \/ AfterFunc(q) \/ Signal(q) \/ Crash(q)
      BY <2>1 DEF StartNext
    <3>2. proc[p].pc \in {"closeRaft", "closeBackend", "closed", "parked"}
      BY <2>1, <2>3 DEF StartInv, SoundProc
    <3>3. \E s : Update(q, s)
      BY <3>1, Zenon DEF Start, Prepare, Finish, AfterFunc, Signal, Crash, startHealthServer, Open,
           verifyExpectedPublicKey, NewRaftStore, EnsureClusterID, RequireBinding,
           OpenClaimBackend, ClaimCluster, Reread, VerifyCanSign, StartRenewal, Assemble,
           RaftMembership, RunReturns, LingerEnds, CloseRaft, CloseBackend, Closed, ParkedEnds,
           Fail, Proceed
    <3>4. q = p
      BY <2>1, <2>3, <3>2, <3>3 DEF Update, StartInv, StartTypeOK
    <3>5. CASE ParkedEnds(p)
      BY <2>1, <3>5 DEF ParkedEnds, StartInv, Unclaiming
    <3>6. CASE Signal(p) \/ Crash(p)
      BY <3>6 DEF Signal, Crash
    <3>7. CASE Closed(p) \/ CloseRaft(p) \/ CloseBackend(p) \/ AfterFunc(p)
      <4>1. PICK s : Update(p, s) /\ s.pc # "off"
        <5>1. proc[p] \in Proc
          BY <2>1, ProcFacts
        <5>2. CASE Closed(p)
          <6>1. PICK ctx : Update(p, [proc[p] EXCEPT !.pc = "parked", !.ctx = ctx])
            BY <2>3, <5>2, Zenon DEF Closed
          <6>2. [proc[p] EXCEPT !.pc = "parked", !.ctx = ctx].pc = "parked"
            BY <5>1 DEF Proc
          <6>3. QED BY <6>1, <6>2, Zenon
        <5>3. CASE CloseRaft(p)
          <6>1. [proc[p] EXCEPT !.pc = "closeBackend", !.raft = FALSE].pc = "closeBackend"
            BY <5>1 DEF Proc
          <6>2. QED BY <5>3, <6>1, Zenon DEF CloseRaft
        <5>4. CASE CloseBackend(p)
          <6>1. [proc[p] EXCEPT !.pc = "closed", !.be = FALSE, !.renewing = FALSE].pc = "closed"
            BY <5>1 DEF Proc
          <6>2. QED BY <5>4, <6>1, Zenon DEF CloseBackend
        <5>5. CASE AfterFunc(p)
          <6>1. [proc[p] EXCEPT !.ready = FALSE, !.afterFunc = FALSE].pc = proc[p].pc
            BY <5>1 DEF Proc
          <6>2. QED BY <3>2, <5>5, <6>1, Zenon DEF AfterFunc
        <5>6. QED BY <3>7, <5>2, <5>3, <5>4, <5>5
      <4>2. proc'[p] = s
        BY <2>1, <4>1 DEF Update, StartInv, StartTypeOK
      <4>3. QED BY <2>3, <4>1, <4>2
    <3>8. ~(\E c \in Configs : Start(p, c)) /\ ~Prepare(p) /\ ~RunReturns(p) /\ ~LingerEnds(p)
      BY <3>2, Zenon DEF Start, Prepare, startHealthServer, Open, verifyExpectedPublicKey,
           NewRaftStore, EnsureClusterID, RequireBinding, OpenClaimBackend, ClaimCluster,
           Reread, VerifyCanSign, StartRenewal, Assemble, RaftMembership, RunReturns,
           LingerEnds, At
    <3>9. QED BY <3>1, <3>4, <3>5, <3>6, <3>7, <3>8, Zenon DEF Finish
  <2>4. QED BY <2>2, <2>3
<1>2. QED BY <1>1, StartInvariant, PTL DEF StartSpec, HeldInOrder
-----------------------------------------------------------------------------
(* Lifecycle.Run and its connectors (Lifecycle, NodeConnector).            *)

\* One connector by itself: it is cancelled only once it is retired, then its
\* socket is closed and it has been told to stop; it ends only after that; and its
\* refusal waits on a closed socket.
SoundConn(s) ==
  /\ s.stage # "unused" => s.addr \in Nodes
  /\ s.cancelled => s.retired /\ s.sock # "open" /\ s.stage # "unused"
  /\ s.stop # "no" => s.cancelled
  /\ s.stage = "ended" => s.cancelled
  /\ s.stage = "replying" /\ s.reply = "refused" => s.sock # "open"

ConnsOK ==
  /\ ns \in [Connectors -> NodeServer]
  /\ \A c \in Connectors : SoundConn(ns[c])

Surroundings ==
  /\ slot \in [Nodes -> Connectors \cup {Nil, Stale}] /\ up \subseteq Nodes
  /\ faults \in 0..MaxFaults
  /\ leader \in {"self", "other", Nil} /\ leaderCh \in BOOLEAN /\ dns \subseteq Nodes
  /\ wake \in BOOLEAN /\ window \in BOOLEAN

\* The serving set is the connectors in use that were not cancelled.
ServersOK ==
  /\ servers \in [Nodes -> Connectors \cup {Nil}]
  /\ \A a \in Nodes : servers[a] # Nil =>
       /\ ns[servers[a]].addr = a
       /\ ns[servers[a]].stage # "unused" /\ ~ns[servers[a]].cancelled
  /\ \A c \in Connectors : ns[c].stage # "unused" /\ ~ns[c].cancelled =>
       servers[ns[c].addr] = c

Ending == {"transfer", "future", "observe", "wait", "done"}

\* Where Run is: a pass visits nodes it serves, the one that stopAll makes on
\* shutdown all of them, and what follows it serves none.
RunOK ==
  /\ run \in Run
  /\ run.pc \in {"visit", "close"} => run.todo \subseteq Served
  /\ run.pc = "close" => /\ run.victim \in Served \ run.todo
                         /\ ns[servers[run.victim]].retired
  /\ run.pc \in Ending => Served = {}
  /\ run.next = "transfer" /\ run.pc \notin Ending =>
       /\ run.pc \in {"visit", "close"} /\ run.want = {}
       /\ Served \subseteq IF run.pc = "visit" THEN run.todo ELSE run.todo \cup {run.victim}

StatusIsServers ==
  \A a \in Nodes : status[a] = IF servers[a] = Nil THEN Nil
                               ELSE IF ns[servers[a]].connected THEN "connected"
                               ELSE "dialing"

StatusOK ==
  /\ status \in [Nodes -> {Nil, "dialing", "connected"}]
  /\ run.pc \in {"idle", "check", "resolve"} => StatusIsServers

LifecycleInv == ConnsOK /\ Surroundings /\ ServersOK /\ RunOK /\ StatusOK

\* What a step may not do: let a retired connector sign, or report a handoff that
\* nobody took.
SignsUnretired ==
  \A c \in Connectors : ns[c].stage = "handling" /\ ns'[c].stage = "signing" => ~ns[c].retired
HandoffTaken == run'.handoff = "ok" /\ run.handoff # "ok" => leader = "other"
-----------------------------------------------------------------------------
(* Steps of the connectors.                                                *)

\* The parts of a connector that the lifecycle keeps to itself.
SameForRun(s, t) ==
  /\ t.addr = s.addr /\ (t.cancelled <=> s.cancelled) /\ (t.connected <=> s.connected)
  /\ (t.stage = "unused" <=> s.stage = "unused") /\ (s.retired => t.retired)

\* Steps of connectors, and of the nodes, leave the run loop's view of them alone.
LEMMA ConnsStep ==
  ASSUME LifecycleInv, ns' \in [Connectors -> NodeServer], Surroundings',
         \A c \in Connectors : /\ SoundConn(ns'[c]) /\ SameForRun(ns[c], ns'[c])
                               /\ ns[c].stage = "handling" /\ ns'[c].stage = "signing" =>
                                    ~ns[c].retired,
         servers' = servers, status' = status, run' = run
  PROVE  LifecycleInv' /\ SignsUnretired /\ HandoffTaken
<1>1. ConnsOK'
  BY DEF ConnsOK
<1>2. servers \in [Nodes -> Connectors \cup {Nil}] /\ Served' = Served
  BY DEF LifecycleInv, ServersOK, Served
<1>3. ServersOK'
  BY <1>2 DEF LifecycleInv, ServersOK, SameForRun
<1>4. \A a \in Served : servers[a] \in Connectors
  BY <1>2 DEF Served
<1>5. RunOK'
  BY <1>2, <1>4 DEF LifecycleInv, RunOK, SameForRun
<1>6. StatusOK'
  <2>1. \A a \in Nodes : servers[a] # Nil => (ns'[servers[a]].connected <=> ns[servers[a]].connected)
    BY <1>2 DEF SameForRun
  <2>2. StatusIsServers => StatusIsServers'
    BY <2>1 DEF StatusIsServers
  <2>3. QED BY <2>2 DEF LifecycleInv, StatusOK
<1>7. QED BY <1>1, <1>3, <1>5, <1>6 DEF LifecycleInv, SignsUnretired, HandoffTaken

\* What every step of one connector by itself leaves alone.
Kept(c) ==
  /\ ns' \in [Connectors -> NodeServer]
  /\ \A d \in Connectors \ {c} : ns'[d] = ns[d]
  /\ ns'[c].addr = ns[c].addr /\ (ns'[c].retired <=> ns[c].retired)
  /\ (ns'[c].cancelled <=> ns[c].cancelled) /\ (ns'[c].connected <=> ns[c].connected)

\* A step of one connector in use, by its stage, its socket, its reply and Stop.
LEMMA ConnStep ==
  ASSUME LifecycleInv, Surroundings', NEW c \in Connectors, Kept(c),
         ns[c].stage # "unused", ns'[c].stage # "unused",
         ns'[c].sock = "open" => ns[c].sock = "open" \/ ~ns[c].retired,
         ns'[c].stop # "no" => ns[c].stop # "no",
         ns'[c].stage = "ended" => ns[c].cancelled,
         ns'[c].stage = "replying" /\ ns'[c].reply = "refused" => ns'[c].sock # "open",
         ns[c].stage = "handling" /\ ns'[c].stage = "signing" => ~ns[c].retired,
         servers' = servers, status' = status, run' = run
  PROVE  LifecycleInv' /\ SignsUnretired /\ HandoffTaken
<1>1. ns \in [Connectors -> NodeServer] /\ \A d \in Connectors : SoundConn(ns[d])
  BY DEF LifecycleInv, ConnsOK
<1>2. \A d \in Connectors : SameForRun(ns[d], ns[d])
  BY DEF SameForRun
<1>3. SoundConn(ns'[c]) /\ SameForRun(ns[c], ns'[c])
  BY <1>1 DEF SoundConn, SameForRun, Kept
<1>4. \A d \in Connectors \ {c} :
        ~(ns[d].stage = "handling" /\ ns'[d].stage = "signing")
  BY DEF Kept
<1>5. QED BY <1>1, <1>2, <1>3, <1>4, ConnsStep DEF Kept

\* The slots of the nodes, whatever is done with a connection.
LEMMA ClosedType ==
  ASSUME slot \in [Nodes -> Connectors \cup {Nil, Stale}], NEW c \in Connectors
  PROVE  ClosedSlot(c) \in [Nodes -> Connectors \cup {Nil, Stale}]
BY Zenon DEF ClosedSlot

\* A fault keeps within its bound.
LEMMA FaultsBounded ==
  ASSUME faults \in 0..MaxFaults, Fault \/ faults' = faults
  PROVE  faults' \in 0..MaxFaults
BY ConnAssumption DEF Fault

\* A step of a connector goes on in the same surroundings.
LEMMA SameSurroundings ==
  ASSUME Surroundings, slot' \in [Nodes -> Connectors \cup {Nil, Stale}], up' \subseteq Nodes,
         Fault \/ faults' = faults, leader' = leader, leaderCh' = leaderCh, dns' = dns,
         wake' \in BOOLEAN, window' \in BOOLEAN
  PROVE  Surroundings'
<1>1. faults' \in 0..MaxFaults
  BY FaultsBounded DEF Surroundings
<1>2. QED BY <1>1 DEF Surroundings

\* dial, from the connection to the end of the handshake.
LEMMA DialInv ==
  ASSUME LifecycleInv, NEW c \in Connectors, UNCHANGED lcVars,
         \/ Dialed(c) \/ DialFails(c) \/ Retry(c) \/ HandshakeDone(c) \/ HandshakeFails(c)
  PROVE  LifecycleInv' /\ SignsUnretired /\ HandoffTaken
<1>1. /\ ns \in [Connectors -> NodeServer] /\ ns[c] \in NodeServer /\ SoundConn(ns[c])
      /\ slot \in [Nodes -> Connectors \cup {Nil, Stale}] /\ up \subseteq Nodes /\ Surroundings
  BY DEF LifecycleInv, ConnsOK, Surroundings
<1>2. /\ servers' = servers /\ status' = status /\ run' = run /\ leader' = leader
      /\ leaderCh' = leaderCh /\ dns' = dns /\ wake' = wake /\ window' = window
  BY DEF lcVars
<1>3. up' = up /\ (Fault \/ faults' = faults)
  BY DEF Dialed, DialFails, Retry, HandshakeDone, HandshakeFails
<1>4. ns[c].addr \in Nodes
  BY <1>1 DEF Dialed, DialFails, Retry, HandshakeDone, HandshakeFails, SoundConn
<1>5. slot' \in [Nodes -> Connectors \cup {Nil, Stale}]
  BY <1>1, <1>4 DEF Dialed, DialFails, Retry, HandshakeDone, HandshakeFails
<1>6. Surroundings'
  BY <1>1, <1>2, <1>3, <1>5, SameSurroundings DEF Surroundings
<1>7. DialAgain(c) \in {"ended", "waiting"} /\ (DialAgain(c) = "ended" => ns[c].cancelled)
  BY DEF DialAgain
<1>8. /\ Kept(c) /\ ns[c].stage \in {"dialing", "waiting", "handshake"}
      /\ ns'[c].stage \in {"handshake", "ended", "waiting", "dialing", "handed"}
      /\ ns'[c].stage = "ended" => ns[c].cancelled
      /\ ns'[c].sock = "open" => ns[c].sock = "open" \/ ~ns[c].retired
      /\ ns'[c].stop = ns[c].stop
  <2>1. CASE Dialed(c)
    <3>1. CASE ~ns[c].retired
      BY <1>1, <2>1, <3>1 DEF Dialed, track, Kept, NodeServer, Stages
    <3>2. CASE ns[c].retired
      BY <1>1, <1>7, <2>1, <3>2 DEF Dialed, track, Kept, NodeServer, Stages
    <3>3. QED BY <3>1, <3>2
  <2>2. CASE DialFails(c)
    BY <1>1, <1>7, <2>2 DEF DialFails, Kept, NodeServer, Stages
  <2>3. CASE Retry(c)
    BY <1>1, <2>3 DEF Retry, Kept, NodeServer, Stages
  <2>4. CASE HandshakeDone(c)
    <3>1. CASE ~ns[c].retired
      BY <1>1, <2>4, <3>1 DEF HandshakeDone, handOver, Kept, NodeServer, Stages
    <3>2. CASE ns[c].retired
      BY <1>1, <1>7, <2>4, <3>2 DEF HandshakeDone, handOver, Kept, NodeServer, Stages
    <3>3. QED BY <3>1, <3>2
  <2>5. CASE HandshakeFails(c)
    BY <1>1, <1>7, <2>5 DEF HandshakeFails, Kept, NodeServer, Stages
  <2>6. QED BY <2>1, <2>2, <2>3, <2>4, <2>5
<1>9. QED BY <1>2, <1>6, <1>8, ConnStep

\* The service loop and the request handler.
LEMMA ServiceInv ==
  ASSUME LifecycleInv, NEW c \in Connectors, UNCHANGED lcVars,
         \/ Install(c) \/ Request(c) \/ Drop(c) \/ handleRequest(c) \/ Answer(c)
         \/ WriteReply(c) \/ Silence(c) \/ ServiceEnds(c)
  PROVE  LifecycleInv' /\ SignsUnretired /\ HandoffTaken
<1>1. /\ ns \in [Connectors -> NodeServer] /\ ns[c] \in NodeServer /\ SoundConn(ns[c])
      /\ slot \in [Nodes -> Connectors \cup {Nil, Stale}] /\ up \subseteq Nodes /\ Surroundings
  BY DEF LifecycleInv, ConnsOK, Surroundings
<1>2. /\ servers' = servers /\ status' = status /\ run' = run /\ leader' = leader
      /\ leaderCh' = leaderCh /\ dns' = dns /\ wake' = wake /\ window' = window
  BY DEF lcVars
<1>3. /\ up' = up /\ (Fault \/ faults' = faults) /\ slot' \in {slot, ClosedSlot(c)}
  BY DEF Install, Request, Drop, handleRequest, Answer, WriteReply, Silence, ServiceEnds
<1>4. slot' \in [Nodes -> Connectors \cup {Nil, Stale}]
  BY <1>1, <1>3, ClosedType
<1>5. Surroundings'
  BY <1>1, <1>2, <1>3, <1>4, SameSurroundings DEF Surroundings
<1>6. /\ Kept(c) /\ ns[c].stage # "unused" /\ ns'[c].stage # "unused"
      /\ ns'[c].stage = "ended" => ns[c].stop # "no"
      /\ ns'[c].sock = "open" => ns[c].sock = "open"
      /\ ns'[c].stop = ns[c].stop
      /\ ns[c].stage = "handling" /\ ns'[c].stage = "signing" => ~ns[c].retired
      /\ ns'[c].stage = "replying" /\ ns'[c].reply = "refused" =>
           ns'[c].sock # "open" \/ (ns[c].stage = "replying" /\ ns[c].reply = "refused")
  <2>1. CASE Install(c) \/ Request(c)
    BY <1>1, <2>1 DEF Install, Request, Kept, NodeServer, Stages
  <2>2. CASE Drop(c)
    BY <1>1, <2>2 DEF Drop, Kept, NodeServer, Stages
  <2>3. CASE handleRequest(c)
    <3>1. CASE ~ns[c].retired
      BY <1>1, <2>3, <3>1 DEF handleRequest, Kept, NodeServer, Stages
    <3>2. CASE ns[c].retired
      <4>1. abort(ns[c].sock) \in {"none", "reset"}
        BY DEF abort
      <4>2. ns[c].stage = "handling" /\ ns' = [ns EXCEPT ![c].sock = abort(ns[c].sock),
                                                       ![c].stage = "replying", ![c].reply = "refused"]
        BY <2>3, <3>2, Zenon DEF handleRequest, closeConn
      <4>3. PICK x \in {"none", "reset"} : x = abort(ns[c].sock)
        BY <4>1
      <4>4. /\ ns[c].stage = "handling" /\ Kept(c) /\ ns'[c].stage = "replying"
            /\ ns'[c].sock = x /\ ns'[c].stop = ns[c].stop
        BY <1>1, <4>2, <4>3 DEF Kept, NodeServer, Stages
      <4>5. QED BY <4>4
    <3>3. QED BY <3>1, <3>2
  <2>4. CASE Answer(c)
    BY <1>1, <2>4, Zenon DEF Answer, Kept, NodeServer, Stages
  <2>5. CASE WriteReply(c)
    BY <1>1, <2>5 DEF WriteReply, Kept, NodeServer, Stages
  <2>6. CASE Silence(c)
    <3>1. /\ ns[c].stage \notin {"unused", "ended"} /\ Kept(c) /\ ns'[c].stage = ns[c].stage
          /\ ns'[c].sock = ns[c].sock /\ ns'[c].stop = ns[c].stop /\ ns'[c].reply = ns[c].reply
      BY <1>1, <2>6, Zenon DEF Silence, Kept, NodeServer, Stages
    <3>2. QED BY <3>1
  <2>7. CASE ServiceEnds(c)
    BY <1>1, <2>7, Zenon DEF ServiceEnds, Kept, NodeServer, Stages
  <2>8. QED BY <2>1, <2>2, <2>3, <2>4, <2>5, <2>6, <2>7, Zenon
<1>7. ns'[c].stage = "replying" /\ ns'[c].reply = "refused" => ns'[c].sock # "open"
  BY <1>1, <1>6 DEF SoundConn
<1>8. ns'[c].stage = "ended" => ns[c].cancelled
  BY <1>1, <1>6 DEF SoundConn
<1>9. QED BY <1>2, <1>5, <1>6, <1>7, <1>8, ConnStep, Zenon

\* The goroutine that stops a retired connector.
LEMMA StopInv ==
  ASSUME LifecycleInv, NEW c \in Connectors, StopReturns(c)
  PROVE  LifecycleInv' /\ SignsUnretired /\ HandoffTaken
<1>1. /\ ns \in [Connectors -> NodeServer] /\ ns[c] \in NodeServer /\ SoundConn(ns[c])
      /\ slot \in [Nodes -> Connectors \cup {Nil, Stale}] /\ up \subseteq Nodes /\ Surroundings
  BY DEF LifecycleInv, ConnsOK, Surroundings
<1>2. slot' \in [Nodes -> Connectors \cup {Nil, Stale}]
  BY <1>1, ClosedType DEF StopReturns, Stopped
<1>3. Surroundings'
  BY <1>1, <1>2, SameSurroundings DEF StopReturns, Stopped, Surroundings
<1>4. /\ Kept(c) /\ ns'[c].stage = ns[c].stage /\ ns'[c].reply = ns[c].reply
      /\ ns[c].stop # "no" /\ ns'[c].sock \in {"none", ns[c].sock}
  <2>1. CASE IsConnected(c)
    BY <1>1, <2>1, Zenon DEF StopReturns, Stopped, Kept, NodeServer
  <2>2. CASE ~IsConnected(c)
    BY <1>1, <2>2, Zenon DEF StopReturns, Stopped, Kept, NodeServer
  <2>3. QED BY <2>1, <2>2
<1>5. /\ ns[c].stage # "unused" /\ (ns[c].stage = "ended" => ns[c].cancelled)
      /\ ns[c].stage = "replying" /\ ns[c].reply = "refused" => ns[c].sock # "open"
  BY <1>1, <1>4 DEF SoundConn
<1>6. QED BY <1>3, <1>4, <1>5, ConnStep DEF StopReturns

\* Sockets that the nodes close are not open afterwards.
LEMMA SocketsClose ==
  ASSUME LifecycleInv, Surroundings', NEW S \in SUBSET Connectors, NEW how \in {"reset", "dead"},
         ns' = [c \in Connectors |-> IF c \in S THEN [ns[c] EXCEPT !.sock = how] ELSE ns[c]],
         servers' = servers, status' = status, run' = run
  PROVE  LifecycleInv' /\ SignsUnretired /\ HandoffTaken
<1>1. ns \in [Connectors -> NodeServer] /\ \A c \in Connectors : SoundConn(ns[c])
  BY DEF LifecycleInv, ConnsOK
<1>2. ns' \in [Connectors -> NodeServer]
  BY <1>1 DEF NodeServer
<1>3. ASSUME NEW c \in Connectors
      PROVE  /\ SoundConn(ns'[c]) /\ SameForRun(ns[c], ns'[c]) /\ ns'[c].stage = ns[c].stage
  <2>1. CASE c \notin S
    BY <1>1, <2>1 DEF SameForRun
  <2>2. CASE c \in S
    <3>1. PICK s : s = [ns[c] EXCEPT !.sock = how]
      BY Zenon
    <3>2. /\ s.addr = ns[c].addr /\ s.stage = ns[c].stage /\ s.reply = ns[c].reply
          /\ s.stop = ns[c].stop /\ s.retired = ns[c].retired /\ s.sock # "open"
          /\ s.cancelled = ns[c].cancelled /\ s.connected = ns[c].connected
      BY <1>1, <3>1 DEF NodeServer
    <3>3. ns'[c] = s
      BY <2>2, <3>1
    <3>4. SoundConn(s) /\ SameForRun(ns[c], s)
      BY <1>1, <3>2 DEF SoundConn, SameForRun
    <3>5. QED BY <3>2, <3>3, <3>4
  <2>3. QED BY <2>1, <2>2
<1>4. QED BY <1>2, <1>3, ConnsStep

\* The nodes, raft, DNS and time.
LEMMA EnvironmentInv ==
  ASSUME LifecycleInv, Environment
  PROVE  LifecycleInv' /\ SignsUnretired /\ HandoffTaken
<1>1. /\ ns \in [Connectors -> NodeServer] /\ \A c \in Connectors : SoundConn(ns[c])
      /\ slot \in [Nodes -> Connectors \cup {Nil, Stale}] /\ up \subseteq Nodes /\ Surroundings
  BY DEF LifecycleInv, ConnsOK, Surroundings
<1>2. ASSUME Surroundings', ns' = ns, servers' = servers, status' = status, run' = run
      PROVE  LifecycleInv' /\ SignsUnretired /\ HandoffTaken
  <2>1. \A c \in Connectors : SameForRun(ns[c], ns'[c])
    BY <1>2 DEF SameForRun
  <2>2. QED BY <1>1, <1>2, <2>1, ConnsStep
<1>3. ASSUME NEW l \in {"self", "other", Nil}, LeaderChanges(l)
      PROVE  LifecycleInv' /\ SignsUnretired /\ HandoffTaken
  <2>1. Fault \/ faults' = faults
    BY <1>3 DEF LeaderChanges
  <2>2. faults' \in 0..MaxFaults
    BY <1>1, <2>1, FaultsBounded DEF Surroundings
  <2>3. Surroundings'
    BY <1>1, <1>3, <2>2 DEF LeaderChanges, Surroundings
  <2>4. QED BY <1>2, <1>3, <2>3 DEF LeaderChanges
<1>4. CASE DnsUpdate \/ WindowEnds
  <2>1. Surroundings'
    BY <1>1, <1>4, Zenon DEF DnsUpdate, WindowEnds, connVars, Surroundings
  <2>2. QED BY <1>2, <1>4, <2>1 DEF DnsUpdate, WindowEnds, connVars
<1>5. ASSUME NEW a \in Nodes, NodeNotices(a), UNCHANGED lcVars
      PROVE  LifecycleInv' /\ SignsUnretired /\ HandoffTaken
  <2>1. Surroundings'
    BY <1>1, <1>5 DEF NodeNotices, lcVars, Surroundings
  <2>2. QED BY <1>2, <1>5, <2>1 DEF NodeNotices, lcVars
<1>6. ASSUME NEW a \in Nodes, NodeCloses(a), UNCHANGED lcVars
      PROVE  LifecycleInv' /\ SignsUnretired /\ HandoffTaken
  <2>1. slot' \in [Nodes -> Connectors \cup {Nil, Stale}]
    BY <1>1, <1>6 DEF NodeCloses
  <2>2. Surroundings'
    BY <1>1, <1>6, <2>1, SameSurroundings DEF NodeCloses, lcVars, Surroundings
  <2>3. PICK S \in SUBSET Connectors : S = {c \in {slot[a]} : ns[c].sock = "open"}
    BY <1>6, Zenon DEF NodeCloses
  <2>4. ns' = [c \in Connectors |-> IF c \in S THEN [ns[c] EXCEPT !.sock = "dead"] ELSE ns[c]]
    <3>1. slot[a] \in Connectors /\ ns[slot[a]] \in NodeServer
      BY <1>1, <1>6 DEF NodeCloses
    <3>2. CASE ns[slot[a]].sock = "open"
      BY <1>1, <1>6, <2>3, <3>1, <3>2, Zenon DEF NodeCloses
    <3>3. CASE ns[slot[a]].sock # "open"
      <4>1. [ns[slot[a]] EXCEPT !.sock = ns[slot[a]].sock] = ns[slot[a]]
        BY <3>1 DEF NodeServer
      <4>2. S = {}
        BY <2>3, <3>3
      <4>3. ns' = [ns EXCEPT ![slot[a]] = ns[slot[a]]]
        BY <1>6, <3>3, <4>1, Zenon DEF NodeCloses
      <4>4. QED BY <1>1, <4>2, <4>3, Zenon
    <3>4. QED BY <3>2, <3>3
  <2>5. QED BY <1>6, <2>2, <2>4, SocketsClose, Zenon DEF lcVars
<1>7. ASSUME NEW listening \in UpSets, Churn(listening), UNCHANGED lcVars
      PROVE  LifecycleInv' /\ SignsUnretired /\ HandoffTaken
  <2>1. slot' \in [Nodes -> Connectors \cup {Nil, Stale}] /\ up' \subseteq Nodes
    BY <1>1, <1>7, UpAssumption DEF Churn
  <2>2. Surroundings'
    BY <1>1, <1>7, <2>1, SameSurroundings DEF Churn, lcVars, Surroundings
  <2>3. PICK S \in SUBSET Connectors :
          S = {c \in Connectors : ns[c].sock = "open" /\ ns[c].addr \notin listening}
    BY Zenon
  <2>4. PICK how \in {"reset", "dead"} :
          ns' = [c \in Connectors |->
                   IF ns[c].sock = "open" /\ ns[c].addr \notin listening
                   THEN [ns[c] EXCEPT !.sock = how] ELSE ns[c]]
    BY <1>7 DEF Churn
  <2>5. ns' = [c \in Connectors |-> IF c \in S THEN [ns[c] EXCEPT !.sock = how] ELSE ns[c]]
    BY <2>3, <2>4
  <2>6. QED BY <1>7, <2>2, <2>5, SocketsClose, Zenon DEF lcVars
<1>8. QED BY <1>3, <1>4, <1>5, <1>6, <1>7 DEF Environment
-----------------------------------------------------------------------------
(* Steps of Run.                                                           *)

\* A step of Run that changes no connector and no serving set.
LEMMA RunMoves ==
  ASSUME LifecycleInv, ns' = ns, servers' = servers, Surroundings', RunOK', StatusOK'
  PROVE  LifecycleInv' /\ SignsUnretired
<1>1. ConnsOK' /\ ServersOK'
  BY DEF LifecycleInv, ConnsOK, ServersOK
<1>2. QED BY <1>1 DEF LifecycleInv, SignsUnretired

\* Outside the passes over the serving set and the shutdown, a pass would start.
LEMMA NotYetTransfer ==
  ASSUME RunOK, run.pc \in {"idle", "check", "resolve"}
  PROVE  run.next = "start"
BY DEF RunOK, Run, Ending

\* The status that publishStatus leaves.
LEMMA Published ==
  ASSUME publishStatus, ServersOK', ns' \in [Connectors -> NodeServer]
  PROVE  status' \in [Nodes -> {Nil, "dialing", "connected"}] /\ StatusIsServers'
<1>1. \A a \in Nodes : status'[a] = IF servers'[a] = Nil THEN Nil
                                    ELSE IF ns'[servers'[a]].connected THEN "connected"
                                    ELSE "dialing"
  BY DEF publishStatus
<1>2. StatusIsServers'
  BY <1>1 DEF StatusIsServers
<1>3. QED BY <1>2 DEF publishStatus

\* The events of the select, and the beginning of a pass.
LEMMA BetweenPasses ==
  ASSUME LifecycleInv,
         \/ TakeLeaderCh \/ TakeWake \/ Tick \/ CheckLeader \/ Resolve \/ ResolveFails \/ Cancel
  PROVE  LifecycleInv' /\ SignsUnretired /\ HandoffTaken
<1>1. Surroundings /\ ServersOK /\ RunOK /\ StatusOK /\ run \in Run
  BY DEF LifecycleInv, RunOK
<1>2. ns' = ns /\ servers' = servers /\ status' = status /\ slot' = slot /\ up' = up
  BY DEF TakeLeaderCh, TakeWake, Tick, CheckLeader, Resolve, ResolveFails, Cancel, Pass,
         Goto, connVars
<1>3. Surroundings'
  <2>1. Fault \/ faults' = faults
    BY DEF TakeLeaderCh, TakeWake, Tick, CheckLeader, Resolve, ResolveFails, Cancel, Pass,
           Goto, connVars
  <2>2. faults' \in 0..MaxFaults
    BY <1>1, <2>1, FaultsBounded DEF Surroundings
  <2>3. /\ leader' = leader /\ leaderCh' \in {leaderCh, FALSE} /\ dns' = dns
        /\ wake' \in {wake, FALSE} /\ window' = window
    BY Zenon DEF TakeLeaderCh, TakeWake, Tick, CheckLeader, Resolve, ResolveFails, Cancel, Pass, Goto
  <2>4. QED BY <1>1, <1>2, <2>2, <2>3, Zenon DEF Surroundings
<1>4. run.pc \in {"idle", "check", "resolve"} /\ run.next = "start" /\ StatusIsServers
  <2>1. run.pc \in {"idle", "check", "resolve"}
    BY DEF TakeLeaderCh, TakeWake, Tick, CheckLeader, Resolve, ResolveFails, Cancel
  <2>2. QED BY <1>1, <2>1, NotYetTransfer DEF StatusOK
<1>5. StatusIsServers' /\ Served' = Served /\ Served \subseteq Nodes
  BY <1>2, <1>4 DEF StatusIsServers, Served
<1>6. StatusOK'
  BY <1>1, <1>2, <1>5 DEF StatusOK
<1>7. \/ \E pc \in {"idle", "check", "resolve"} : run' = [run EXCEPT !.pc = pc]
      \/ \E want \in SUBSET Nodes, next \in {"start", "transfer"} :
           /\ run' = [run EXCEPT !.pc = "visit", !.want = want, !.todo = Served, !.next = next]
           /\ next = "transfer" => want = {}
  <2>1. dns \subseteq Nodes
    BY <1>1 DEF Surroundings
  <2>2. CASE TakeLeaderCh \/ TakeWake \/ Tick \/ ResolveFails
    BY <2>2, Zenon DEF TakeLeaderCh, TakeWake, Tick, ResolveFails, Goto
  <2>3. CASE CheckLeader
    BY <2>3, Zenon DEF CheckLeader, Goto, Pass
  <2>4. CASE Resolve
    BY <2>1, <2>4, Zenon DEF Resolve, Pass
  <2>5. CASE Cancel
    BY <2>5, Zenon DEF Cancel, Pass
  <2>6. QED BY <2>2, <2>3, <2>4, <2>5, Zenon
<1>8. RunOK' /\ run'.handoff = run.handoff
  <2>1. CASE \E pc \in {"idle", "check", "resolve"} : run' = [run EXCEPT !.pc = pc]
    BY <1>1, <1>4, <2>1 DEF RunOK, Run, Ending
  <2>2. ASSUME NEW want \in SUBSET Nodes, NEW next \in {"start", "transfer"},
               run' = [run EXCEPT !.pc = "visit", !.want = want, !.todo = Served, !.next = next],
               next = "transfer" => want = {}
        PROVE  RunOK' /\ run'.handoff = run.handoff
    <3>1. /\ run' \in Run /\ run'.pc = "visit" /\ run'.want = want /\ run'.todo = Served
          /\ run'.next = next /\ run'.handoff = run.handoff
      BY <1>1, <1>5, <2>2, Zenon DEF Run
    <3>2. QED BY <1>5, <2>2, <3>1 DEF RunOK, Ending
  <2>3. QED BY <1>7, <2>1, <2>2, Zenon
<1>9. QED BY <1>2, <1>3, <1>6, <1>8, RunMoves DEF HandoffTaken

\* The handoff and the end of Run, after stopAll.
LEMMA ShutdownInv ==
  ASSUME LifecycleInv,
         \/ AllStopped \/ NoHandoff \/ BeginHandoff \/ SteppedDown \/ LeaderObserved
         \/ HandoffFails \/ Exit
  PROVE  LifecycleInv' /\ SignsUnretired /\ HandoffTaken
<1>1. Surroundings /\ ConnsOK /\ ServersOK /\ RunOK /\ StatusOK /\ run \in Run
  BY DEF LifecycleInv, RunOK
<1>2. /\ ns' = ns /\ servers' = servers /\ slot' = slot /\ up' = up /\ faults' = faults
      /\ leader' = leader /\ leaderCh' = leaderCh /\ dns' = dns /\ wake' = wake
      /\ window' = window
  BY DEF AllStopped, NoHandoff, BeginHandoff, SteppedDown, LeaderObserved, HandoffFails, Exit,
         Goto, connVars
<1>3. Surroundings'
  BY <1>1, <1>2 DEF Surroundings
<1>4. Served' = {}
  <2>1. CASE AllStopped
    BY <1>1, <1>2, <2>1 DEF AllStopped, RunOK, Ending, Served
  <2>2. CASE run.pc \in Ending
    BY <1>1, <1>2, <2>2 DEF RunOK, Served
  <2>3. QED BY <2>1, <2>2 DEF NoHandoff, BeginHandoff, SteppedDown, LeaderObserved,
                              HandoffFails, Exit, Ending
<1>5. \E pc \in Ending, handoff \in {Nil, "ok", "failed"} :
        /\ run' = [run EXCEPT !.pc = pc, !.handoff = handoff]
        /\ handoff = "ok" /\ run.handoff # "ok" => leader = "other"
  <2>1. run.handoff \in {Nil, "ok", "failed"} /\ run = [run EXCEPT !.handoff = run.handoff]
    BY <1>1 DEF Run
  <2>2. CASE AllStopped \/ NoHandoff \/ BeginHandoff \/ SteppedDown \/ Exit
    <3>1. PICK pc \in Ending : run' = [run EXCEPT !.pc = pc]
      BY <2>2 DEF AllStopped, NoHandoff, BeginHandoff, SteppedDown, Exit, Goto, Ending
    <3>2. run' = [run EXCEPT !.pc = pc, !.handoff = run.handoff]
      BY <1>1, <3>1, Zenon DEF Run
    <3>3. QED BY <2>1, <3>2, Zenon
  <2>3. CASE LeaderObserved
    BY <2>3 DEF LeaderObserved, Ending
  <2>4. CASE HandoffFails
    BY <2>4 DEF HandoffFails, Ending
  <2>5. QED BY <2>2, <2>3, <2>4, Zenon
<1>6. RunOK' /\ HandoffTaken
  <2>1. PICK pc \in Ending, handoff \in {Nil, "ok", "failed"} :
          /\ run' = [run EXCEPT !.pc = pc, !.handoff = handoff]
          /\ handoff = "ok" /\ run.handoff # "ok" => leader = "other"
    BY <1>5, Zenon
  <2>2. run' \in Run /\ run'.pc = pc /\ run'.handoff = handoff
    BY <1>1, <2>1, Zenon DEF Run, Ending
  <2>3. QED BY <1>4, <2>1, <2>2 DEF RunOK, Ending, HandoffTaken
<1>7. StatusOK'
  <2>1. run'.pc \in Ending
    BY <1>1, <1>5 DEF Run
  <2>2. status' = status \/ publishStatus
    BY DEF AllStopped, NoHandoff, BeginHandoff, SteppedDown, LeaderObserved, HandoffFails, Exit,
           Goto
  <2>3. status' \in [Nodes -> {Nil, "dialing", "connected"}]
    BY <1>1, <2>2 DEF publishStatus, StatusOK
  <2>4. QED BY <2>1, <2>3 DEF StatusOK, Ending
<1>8. QED BY <1>2, <1>3, <1>6, <1>7, RunMoves

\* What observe leaves of the connectors: all but the latch and the clock.
LEMMA ObservedConns ==
  ASSUME ConnsOK, NEW S, ns' = Observed(S)
  PROVE  /\ ConnsOK'
         /\ \A c \in Connectors :
              /\ ns'[c].addr = ns[c].addr /\ ns'[c].stage = ns[c].stage
              /\ ns'[c].retired = ns[c].retired /\ ns'[c].cancelled = ns[c].cancelled
<1>1. ns \in [Connectors -> NodeServer] /\ \A c \in Connectors : SoundConn(ns[c])
  BY DEF ConnsOK
<1>2. \A c \in Connectors : IsConnected(c) \in BOOLEAN
  BY DEF IsConnected
<1>3. ASSUME NEW c \in Connectors
      PROVE  /\ ns'[c] \in NodeServer
             /\ ns'[c].addr = ns[c].addr /\ ns'[c].stage = ns[c].stage
             /\ ns'[c].retired = ns[c].retired /\ ns'[c].cancelled = ns[c].cancelled
             /\ ns'[c].sock = ns[c].sock /\ ns'[c].reply = ns[c].reply
             /\ ns'[c].stop = ns[c].stop
  <2>1. CASE c \notin S
    BY <1>1, <2>1, Zenon DEF Observed
  <2>2. CASE c \in S
    <3>1. PICK silent \in BOOLEAN : silent = IF IsConnected(c) /\ ~ns[c].connected
                                             THEN FALSE ELSE ns[c].silent
      BY <1>1, Zenon DEF NodeServer
    <3>2. PICK connected \in BOOLEAN : connected = IsConnected(c)
      BY <1>2
    <3>3. ns'[c] = [ns[c] EXCEPT !.connected = connected, !.silent = silent]
      BY <2>2, <3>1, <3>2, Zenon DEF Observed
    <3>4. PICK s : s = [ns[c] EXCEPT !.connected = connected, !.silent = silent]
      OBVIOUS
    <3>5. /\ s \in NodeServer
          /\ s.addr = ns[c].addr /\ s.stage = ns[c].stage
          /\ s.retired = ns[c].retired /\ s.cancelled = ns[c].cancelled
          /\ s.sock = ns[c].sock /\ s.reply = ns[c].reply /\ s.stop = ns[c].stop
      BY <1>1, <3>4, ZenonT(30) DEF NodeServer
    <3>6. QED BY <3>3, <3>4, <3>5
  <2>3. QED BY <2>1, <2>2
<1>4. \A c \in Connectors : SoundConn(ns'[c])
  BY <1>1, <1>3 DEF SoundConn
<1>5. ns' \in [Connectors -> NodeServer]
  BY <1>3, Zenon DEF Observed
<1>6. QED BY <1>3, <1>4, <1>5 DEF ConnsOK

\* The serving set stays right while nothing is started, cancelled or dropped.
LEMMA ServersStay ==
  ASSUME ServersOK, servers' = servers,
         \A c \in Connectors : /\ ns'[c].addr = ns[c].addr /\ ns'[c].stage = ns[c].stage
                               /\ (ns'[c].cancelled <=> ns[c].cancelled)
  PROVE  ServersOK' /\ Served' = Served /\ \A a \in Served : servers[a] \in Connectors
BY DEF ServersOK, Served

\* The loop over the serving set keeps a connector.
LEMMA KeepInv ==
  ASSUME LifecycleInv, NEW a \in Nodes, Keep(a)
  PROVE  LifecycleInv' /\ SignsUnretired /\ HandoffTaken
<1>1. Surroundings /\ ConnsOK /\ ServersOK /\ RunOK /\ StatusOK /\ run \in Run
  BY DEF LifecycleInv, RunOK
<1>2. /\ ConnsOK'
      /\ \A c \in Connectors :
           /\ ns'[c].addr = ns[c].addr /\ ns'[c].stage = ns[c].stage
           /\ ns'[c].retired = ns[c].retired /\ ns'[c].cancelled = ns[c].cancelled
  BY <1>1, ObservedConns, Zenon DEF Keep
<1>3. ServersOK' /\ Served' = Served
  BY <1>1, <1>2, ServersStay, Zenon DEF Keep
<1>4. Surroundings'
  BY <1>1 DEF Surroundings, Keep
<1>5. /\ run' \in Run /\ run'.pc = "visit" /\ run'.want = run.want /\ run'.next = run.next
      /\ run'.todo = run.todo \ {a} /\ run'.handoff = run.handoff /\ run.pc = "visit"
  BY <1>1 DEF Keep, Run
<1>6. run.next # "transfer"
  BY <1>1, <1>5 DEF Keep, RunOK, Ending
<1>7. RunOK'
  BY <1>1, <1>3, <1>5, <1>6 DEF RunOK, Ending
<1>8. StatusOK'
  BY <1>1, <1>5 DEF StatusOK, Keep
<1>9. QED BY <1>2, <1>3, <1>4, <1>5, <1>7, <1>8 DEF LifecycleInv, SignsUnretired, HandoffTaken

\* The health scan.
LEMMA WatchInv ==
  ASSUME LifecycleInv, Watch
  PROVE  LifecycleInv' /\ SignsUnretired /\ HandoffTaken
<1>1. Surroundings /\ ConnsOK /\ ServersOK /\ RunOK /\ StatusOK /\ run \in Run
  BY DEF LifecycleInv, RunOK
<1>2. PICK seen \in SUBSET Connectors, asks \in BOOLEAN :
        ns' = Observed(seen) /\ Goto(IF asks THEN "check" ELSE "idle")
  BY DEF Watch
<1>3. /\ ConnsOK'
      /\ \A c \in Connectors :
           /\ ns'[c].addr = ns[c].addr /\ ns'[c].stage = ns[c].stage
           /\ ns'[c].retired = ns[c].retired /\ ns'[c].cancelled = ns[c].cancelled
  BY <1>1, <1>2, ObservedConns
<1>4. ServersOK' /\ Served' = Served
  BY <1>1, <1>3, ServersStay DEF Watch
<1>5. Surroundings'
  BY <1>1, <1>2 DEF Surroundings, Watch, Goto
<1>6. run.next = "start"
  BY <1>1, NotYetTransfer DEF Watch
<1>7. /\ run' \in Run /\ run'.pc \in {"check", "idle"} /\ run'.next = "start"
      /\ run'.handoff = run.handoff
  BY <1>1, <1>2, <1>6 DEF Goto, Run
<1>8. RunOK'
  BY <1>7 DEF RunOK, Ending
<1>9. StatusOK'
  BY <1>3, <1>4, Published DEF Watch, StatusOK, ConnsOK
<1>10. QED BY <1>3, <1>4, <1>5, <1>7, <1>8, <1>9 DEF LifecycleInv, SignsUnretired, HandoffTaken

\* retire, first half.
LEMMA RetireBeginsInv ==
  ASSUME LifecycleInv, NEW a \in Nodes, RetireBegins(a)
  PROVE  LifecycleInv' /\ SignsUnretired /\ HandoffTaken
<1>1. Surroundings /\ ConnsOK /\ ServersOK /\ RunOK /\ StatusOK /\ run \in Run
  BY DEF LifecycleInv, RunOK
<1>2. run.pc = "visit" /\ a \in run.todo /\ run.todo \subseteq Served
  BY <1>1 DEF RetireBegins, RunOK
<1>3. PICK c \in Connectors : c = servers[a]
  BY <1>1, <1>2 DEF ServersOK, Served
<1>4. PICK s : s = [ns[c] EXCEPT !.retired = TRUE]
  BY Zenon
<1>5. ns[c] \in NodeServer /\ SoundConn(ns[c]) /\ ns \in [Connectors -> NodeServer]
  BY <1>1 DEF ConnsOK
<1>6. /\ s \in NodeServer /\ s.addr = ns[c].addr /\ s.stage = ns[c].stage /\ s.retired = TRUE
      /\ s.cancelled = ns[c].cancelled /\ s.sock = ns[c].sock /\ s.reply = ns[c].reply
      /\ s.stop = ns[c].stop
  BY <1>4, <1>5, Zenon DEF NodeServer
<1>7. ns' = [ns EXCEPT ![c] = s]
  BY <1>3, <1>4 DEF RetireBegins, retired
<1>8. ConnsOK'
  <2>1. SoundConn(s)
    BY <1>5, <1>6 DEF SoundConn
  <2>2. QED BY <1>1, <1>5, <1>6, <1>7, <2>1 DEF ConnsOK
<1>9. \A d \in Connectors : /\ ns'[d].addr = ns[d].addr /\ ns'[d].stage = ns[d].stage
                            /\ (ns'[d].cancelled <=> ns[d].cancelled)
  BY <1>5, <1>6, <1>7
<1>10. ServersOK' /\ Served' = Served
  BY <1>1, <1>9, ServersStay DEF RetireBegins
<1>11. Surroundings'
  BY <1>1 DEF Surroundings, RetireBegins
<1>12. /\ run' \in Run /\ run'.pc = "close" /\ run'.want = run.want /\ run'.next = run.next
       /\ run'.todo = run.todo \ {a} /\ run'.victim = a /\ run'.handoff = run.handoff
  BY <1>1, Zenon DEF RetireBegins, Run
<1>13. RunOK'
  <2>1. servers' = servers /\ ns'[c].retired
    BY <1>5, <1>6, <1>7 DEF RetireBegins
  <2>2. run.next = "transfer" => run.want = {} /\ Served \subseteq run.todo
    BY <1>1, <1>2 DEF RunOK, Ending
  <2>3. run'.victim \in Served' \ run'.todo /\ ns'[servers'[run'.victim]].retired
    BY <1>2, <1>3, <1>10, <1>12, <2>1
  <2>4. QED BY <1>2, <1>10, <1>12, <2>2, <2>3 DEF RunOK, Ending
<1>14. StatusOK'
  BY <1>1, <1>12 DEF StatusOK, RetireBegins
<1>15. QED BY <1>8, <1>9, <1>10, <1>11, <1>12, <1>13, <1>14
           DEF LifecycleInv, SignsUnretired, HandoffTaken

\* retire, second half.
LEMMA RetireEndsInv ==
  ASSUME LifecycleInv, RetireEnds
  PROVE  LifecycleInv' /\ SignsUnretired /\ HandoffTaken
<1>1. Surroundings /\ ConnsOK /\ ServersOK /\ RunOK /\ StatusOK /\ run \in Run
  BY DEF LifecycleInv, RunOK
<1>2. /\ run.pc = "close" /\ run.todo \subseteq Served /\ run.victim \in Served \ run.todo
      /\ ns[servers[run.victim]].retired
  BY <1>1 DEF RetireEnds, RunOK
<1>3. PICK a \in Nodes : a = run.victim
  BY <1>2 DEF Served
<1>4. PICK c \in Connectors : c = servers[a]
  BY <1>1, <1>2, <1>3 DEF ServersOK, Served
<1>5. ns[c] \in NodeServer /\ SoundConn(ns[c]) /\ ns \in [Connectors -> NodeServer]
  BY <1>1 DEF ConnsOK
<1>6. c # Nil /\ ns[c].addr = a /\ ns[c].stage # "unused"
  BY <1>1, <1>4, ConnAssumption DEF ServersOK
<1>7. PICK sock \in {"none", "reset"} : sock = abort(ns[c].sock)
  BY DEF abort
<1>8. PICK s : s = [ns[c] EXCEPT !.sock = sock, !.cancelled = TRUE, !.stop = "running"]
  OBVIOUS
<1>9. /\ s \in NodeServer /\ s.addr = a /\ s.stage = ns[c].stage /\ s.sock # "open"
      /\ s.retired = ns[c].retired /\ s.cancelled = TRUE
  BY <1>5, <1>6, <1>7, <1>8, Zenon DEF NodeServer
<1>10. ns' = [ns EXCEPT ![c] = s]
  BY <1>3, <1>4, <1>7, <1>8 DEF RetireEnds, cancelled, closeConn
<1>11. SoundConn(s)
  BY <1>2, <1>3, <1>4, <1>5, <1>6, <1>9 DEF SoundConn
<1>12. ConnsOK'
  BY <1>1, <1>5, <1>9, <1>10, <1>11 DEF ConnsOK
<1>13. servers' = [servers EXCEPT ![a] = Nil]
  BY <1>3 DEF RetireEnds
<1>14. ServersOK'
  <2>1. servers \in [Nodes -> Connectors \cup {Nil}] /\ servers' \in [Nodes -> Connectors \cup {Nil}]
    BY <1>1, <1>13 DEF ServersOK
  <2>2. ASSUME NEW b \in Nodes, servers'[b] # Nil
        PROVE  /\ ns'[servers'[b]].addr = b
               /\ ns'[servers'[b]].stage # "unused" /\ ~ns'[servers'[b]].cancelled
    <3>1. b # a /\ servers'[b] = servers[b] /\ servers[b] \in Connectors
      BY <1>13, <2>1, <2>2
    <3>2. /\ ns[servers[b]].addr = b
          /\ ns[servers[b]].stage # "unused" /\ ~ns[servers[b]].cancelled
      BY <1>1, <2>2, <3>1 DEF ServersOK
    <3>3. servers[b] # c
      BY <1>6, <3>1, <3>2
    <3>4. ns'[servers[b]] = ns[servers[b]]
      BY <1>5, <1>10, <3>1, <3>3
    <3>5. QED BY <3>1, <3>2, <3>4
  <2>3. ASSUME NEW d \in Connectors, ns'[d].stage # "unused", ~ns'[d].cancelled
        PROVE  servers'[ns'[d].addr] = d
    <3>1. d # c /\ ns'[d] = ns[d]
      BY <1>5, <1>9, <1>10, <2>3
    <3>2. ns[d].addr \in Nodes /\ servers[ns[d].addr] = d
      BY <1>1, <2>3, <3>1 DEF ConnsOK, SoundConn, ServersOK
    <3>3. ns[d].addr # a
      BY <1>4, <3>1, <3>2
    <3>4. QED BY <1>13, <2>1, <3>1, <3>2, <3>3
  <2>4. QED BY <2>1, <2>2, <2>3 DEF ServersOK
<1>15. Served' = Served \ {a}
  BY <1>1, <1>13 DEF Served, ServersOK
<1>16. slot' \in [Nodes -> Connectors \cup {Nil, Stale}]
  BY <1>1, <1>3, <1>4, ClosedType DEF Surroundings, RetireEnds
<1>17. Surroundings'
  BY <1>1, <1>16 DEF Surroundings, RetireEnds
<1>18. /\ run' \in Run /\ run'.pc = "visit" /\ run'.want = run.want /\ run'.next = run.next
       /\ run'.todo = run.todo /\ run'.handoff = run.handoff
  BY <1>1, Zenon DEF RetireEnds, Run
<1>19. RunOK'
  <2>1. run.next = "transfer" => run.want = {} /\ Served \subseteq run.todo \cup {a}
    BY <1>1, <1>2, <1>3 DEF RunOK, Ending
  <2>2. run'.todo \subseteq Served'
    BY <1>2, <1>3, <1>15, <1>18
  <2>3. QED BY <1>15, <1>18, <2>1, <2>2 DEF RunOK, Ending
<1>20. StatusOK'
  BY <1>1, <1>18 DEF StatusOK, RetireEnds
<1>21. SignsUnretired
  BY <1>5, <1>9, <1>10 DEF SignsUnretired
<1>22. QED BY <1>12, <1>14, <1>17, <1>18, <1>19, <1>20, <1>21 DEF LifecycleInv, HandoffTaken

\* The end of a pass: connectors for the wanted nodes that have none.
LEMMA StartMissingInv ==
  ASSUME LifecycleInv, StartMissing
  PROVE  LifecycleInv' /\ SignsUnretired /\ HandoffTaken
<1> DEFINE missing == run.want \ Served
<1>1. Surroundings /\ ConnsOK /\ ServersOK /\ RunOK /\ StatusOK /\ run \in Run
  BY DEF LifecycleInv, RunOK
<1>2. PICK pick \in [missing -> {c \in Connectors : Free(c)}] :
        /\ \A a, b \in missing : pick[a] = pick[b] => a = b
        /\ servers' = [a \in Nodes |-> IF a \in missing THEN pick[a] ELSE servers[a]]
        /\ ns' = [c \in Connectors |->
                    IF \E a \in missing : pick[a] = c
                    THEN newNodeServer(CHOOSE a \in missing : pick[a] = c) ELSE ns[c]]
  BY DEF StartMissing
<1>3. missing \subseteq Nodes /\ \A a \in missing : servers[a] = Nil
  BY <1>1 DEF Run, Served
<1> HIDE DEF missing
<1>4. \A a \in missing : pick[a] \in Connectors /\ Free(pick[a])
  BY <1>2
<1>5. ASSUME NEW a \in missing
      PROVE  /\ ns'[pick[a]] \in NodeServer /\ ns'[pick[a]].addr = a
             /\ ns'[pick[a]].stage = "dialing" /\ ~ns'[pick[a]].cancelled
             /\ SoundConn(ns'[pick[a]])
  <2>1. (CHOOSE b \in missing : pick[b] = pick[a]) = a
    BY <1>2
  <2>2. ns'[pick[a]] = newNodeServer(a)
    BY <1>2, <1>4, <2>1
  <2>3. PICK s : s = newNodeServer(a)
    OBVIOUS
  <2>4. /\ s \in NodeServer /\ s.addr = a /\ s.stage = "dialing" /\ s.cancelled = FALSE
        /\ s.stop = "no" /\ a \in Nodes
    BY <1>3, <2>3, Zenon DEF newNodeServer, Unused, NodeServer, Stages
  <2>5. SoundConn(s)
    BY <2>4 DEF SoundConn
  <2>6. QED BY <2>2, <2>3, <2>4, <2>5
<1>6. ASSUME NEW c \in Connectors, \A a \in missing : pick[a] # c
      PROVE  ns'[c] = ns[c]
  BY <1>2, <1>6
<1>7. ConnsOK'
  <2>1. ASSUME NEW c \in Connectors
        PROVE  ns'[c] \in NodeServer /\ SoundConn(ns'[c])
    <3>1. CASE \E a \in missing : pick[a] = c
      BY <1>5, <3>1
    <3>2. CASE \A a \in missing : pick[a] # c
      BY <1>1, <1>6, <3>2 DEF ConnsOK
    <3>3. QED BY <3>1, <3>2
  <2>2. ns' \in [Connectors -> NodeServer]
    BY <1>2, <2>1
  <2>3. QED BY <2>1, <2>2 DEF ConnsOK
<1>8. ServersOK'
  <2>1. servers \in [Nodes -> Connectors \cup {Nil}] /\ servers' \in [Nodes -> Connectors \cup {Nil}]
    BY <1>1, <1>2, <1>4 DEF ServersOK
  <2>2. ASSUME NEW b \in Nodes, servers'[b] # Nil
        PROVE  /\ ns'[servers'[b]].addr = b
               /\ ns'[servers'[b]].stage # "unused" /\ ~ns'[servers'[b]].cancelled
    <3>1. CASE b \in missing
      BY <1>2, <1>5, <3>1, Zenon
    <3>2. CASE b \notin missing
      <4>1. servers'[b] = servers[b] /\ servers[b] \in Connectors
        BY <1>2, <2>1, <2>2, <3>2
      <4>2. /\ ns[servers[b]].addr = b
            /\ ns[servers[b]].stage # "unused" /\ ~ns[servers[b]].cancelled
        BY <1>1, <2>2, <4>1 DEF ServersOK
      <4>3. ~Free(servers[b])
        BY <1>1, <4>1, <4>2 DEF Free, ConnsOK, SoundConn
      <4>4. ns'[servers[b]] = ns[servers[b]]
        BY <1>4, <1>6, <4>1, <4>3
      <4>5. QED BY <4>1, <4>2, <4>4
    <3>3. QED BY <3>1, <3>2
  <2>3. ASSUME NEW c \in Connectors, ns'[c].stage # "unused", ~ns'[c].cancelled
        PROVE  servers'[ns'[c].addr] = c
    <3>1. CASE \E a \in missing : pick[a] = c
      BY <1>2, <1>3, <1>5, <3>1
    <3>2. CASE \A a \in missing : pick[a] # c
      <4>1. ns'[c] = ns[c] /\ ns[c].addr \in Nodes /\ servers[ns[c].addr] = c
        BY <1>1, <1>6, <2>3, <3>2 DEF ServersOK, ConnsOK, SoundConn
      <4>2. ns[c].addr \notin missing
        BY <1>3, <4>1, ConnAssumption
      <4>3. QED BY <1>2, <4>1, <4>2
    <3>3. QED BY <3>1, <3>2
  <2>4. QED BY <2>1, <2>2, <2>3 DEF ServersOK
<1>9. Surroundings'
  BY <1>1 DEF Surroundings, StartMissing, Goto
<1>10. /\ run' \in Run /\ run'.pc = "idle" /\ run'.next = "start" /\ run'.handoff = run.handoff
  BY <1>1 DEF StartMissing, Goto, Run
<1>11. RunOK'
  BY <1>10 DEF RunOK, Ending
<1>12. StatusOK'
  BY <1>7, <1>8, Published, Zenon DEF StartMissing, StatusOK, ConnsOK
<1>13. SignsUnretired
  <2>1. ASSUME NEW c \in Connectors, ns'[c].stage = "signing"
        PROVE  ns'[c] = ns[c]
    BY <1>5, <1>6, <2>1
  <2>2. QED BY <2>1 DEF SignsUnretired
<1>14. QED BY <1>7, <1>8, <1>9, <1>10, <1>11, <1>12, <1>13 DEF LifecycleInv, HandoffTaken
-----------------------------------------------------------------------------
(* The theorems.                                                           *)

\* A replica starts with no connector.
LEMMA LifecycleInit == Init => LifecycleInv
<1> SUFFICES ASSUME Init PROVE LifecycleInv
  OBVIOUS
<1>1. Unused \in NodeServer /\ SoundConn(Unused)
  BY DEF Unused, NodeServer, Stages, SoundConn
<1>2. \A c \in Connectors : ns[c] = Unused
  BY DEF Init, RunInit, ConnInit
<1>3. ConnsOK
  BY <1>1, <1>2 DEF Init, RunInit, ConnInit, ConnsOK
<1>4. Surroundings
  <2>1. slot \in [Nodes -> Connectors \cup {Nil, Stale}] /\ up \subseteq Nodes /\ dns \subseteq Nodes
    BY UpAssumption DEF Init, RunInit, ConnInit
  <2>2. faults \in 0..MaxFaults
    BY ConnAssumption DEF Init, RunInit, ConnInit
  <2>3. QED BY <2>1, <2>2, Zenon DEF Init, RunInit, Surroundings
<1>5. \A c \in Connectors : ns[c].stage = "unused"
  BY <1>2 DEF Unused
<1>6. ServersOK
  BY <1>5 DEF Init, RunInit, ServersOK
<1>7. RunOK
  BY DEF Init, RunInit, RunOK, Run, Ending
<1>8. StatusOK
  BY DEF Init, RunInit, StatusOK, StatusIsServers
<1>9. QED BY <1>3, <1>4, <1>6, <1>7, <1>8 DEF LifecycleInv

\* Every step of the run loop, of a connector and of the environment.
LEMMA LifecycleStep ==
  ASSUME LifecycleInv, [Next]_vars
  PROVE  LifecycleInv' /\ SignsUnretired /\ HandoffTaken
<1>1. CASE RunStep
  BY <1>1, BetweenPasses, ShutdownInv, StartMissingInv, RetireEndsInv, KeepInv, RetireBeginsInv
     DEF RunStep
<1>2. CASE ResolveFails \/ TakeLeaderCh \/ TakeWake \/ Tick \/ Cancel
  BY <1>2, BetweenPasses
<1>3. CASE Watch
  BY <1>3, WatchInv
<1>4. ASSUME NEW c \in Connectors, Connector(c) \/ Arrives(c) \/ FallsSilent(c) \/ StopReturns(c)
      PROVE  LifecycleInv' /\ SignsUnretired /\ HandoffTaken
  <2>1. CASE StopReturns(c)
    BY <2>1, StopInv
  <2>2. CASE Connector(c)
    BY <2>2, DialInv, ServiceInv DEF Connector, Serve
  <2>3. CASE Arrives(c) \/ FallsSilent(c)
    BY <2>3, ServiceInv DEF Arrives, FallsSilent
  <2>4. QED BY <1>4, <2>1, <2>2, <2>3
<1>5. CASE Environment
  BY <1>5, EnvironmentInv
<1>6. CASE UNCHANGED vars
  <2>1. /\ ns' = ns /\ slot' = slot /\ up' = up /\ faults' = faults /\ leader' = leader
        /\ leaderCh' = leaderCh /\ dns' = dns /\ servers' = servers /\ status' = status
        /\ wake' = wake /\ window' = window /\ run' = run
    BY <1>6 DEF vars, connVars, lcVars
  <2>2. Surroundings' /\ StatusOK'
    BY <2>1 DEF LifecycleInv, Surroundings, StatusOK, StatusIsServers
  <2>3. RunOK'
    BY <2>1 DEF LifecycleInv, RunOK, Served
  <2>4. QED BY <2>1, <2>2, <2>3, RunMoves DEF HandoffTaken
<1>7. QED BY <1>1, <1>2, <1>3, <1>4, <1>5, <1>6 DEF Next

\* The serving set is exactly the connectors in use that were not cancelled, one
\* per node; a cancelled connector has its socket closed; a pass retires only what
\* it serves; and after stopAll on shutdown nothing is served (Run, reconcile,
\* stopAll, retire, publishStatus).
THEOREM LifecycleInvariant == Spec => []LifecycleInv
BY LifecycleInit, LifecycleStep, PTL DEF Spec

\* The published status is the serving set whenever the run loop waits
\* (publishStatus after the health scan, a pass and stopAll).
THEOREM StatusIsCurrent == Spec => []StatusCurrent
<1>1. LifecycleInv => StatusCurrent
  <2> SUFFICES ASSUME LifecycleInv PROVE StatusCurrent
    OBVIOUS
  <2>1. TypeOK
    BY DEF LifecycleInv, ConnsOK, SoundConn, Surroundings, ServersOK, RunOK, StatusOK, TypeOK,
           ConnTypeOK
  <2>2. ASSUME run.pc = "idle", NEW a \in Nodes
        PROVE  /\ (status[a] = Nil) = (servers[a] = Nil)
               /\ servers[a] # Nil => (status[a] = "connected") = ns[servers[a]].connected
    <3>1. status[a] = IF servers[a] = Nil THEN Nil
                      ELSE IF ns[servers[a]].connected THEN "connected" ELSE "dialing"
      BY <2>2 DEF LifecycleInv, StatusOK, StatusIsServers
    <3>2. Nil # "connected" /\ Nil # "dialing" /\ "connected" # "dialing"
      BY ConnAssumption
    <3>3. status[a] = Nil <=> servers[a] = Nil
      BY <3>1, <3>2
    <3>4. ASSUME servers[a] # Nil
          PROVE  (status[a] = "connected") = ns[servers[a]].connected
      <4>1. servers[a] \in Connectors
        BY <3>4 DEF LifecycleInv, ServersOK
      <4>2. ns[servers[a]].connected \in BOOLEAN
        BY <4>1 DEF LifecycleInv, ConnsOK, NodeServer
      <4>3. status[a] = "connected" <=> ns[servers[a]].connected
        BY <3>1, <3>2, <3>4
      <4>4. QED BY <4>2, <4>3
    <3>5. QED BY <3>3, <3>4
  <2>3. QED BY <2>1, <2>2 DEF StatusCurrent
<1>2. QED BY <1>1, LifecycleInvariant, PTL

\* Retirement is final and silent: a connector begins to sign only while it is the
\* one served for its node, a refusal never reaches the node, and a cancelled
\* connector's socket is closed (handleRequest, track, handOver, retire).
THEOREM RetirementIsSilent == Spec => RetiredStaysSilent
<1>1. ASSUME LifecycleInv, LifecycleInv', SignsUnretired, NEW c \in Connectors
      PROVE  /\ ns[c].stage = "handling" /\ ns'[c].stage = "signing" => servers[ns[c].addr] = c
             /\ Delivered(c) => ns[c].reply # "refused"
             /\ ns'[c].cancelled /\ ns'[c].stage # "dialing" => ns'[c].sock # "open"
  <2>1. SoundConn(ns[c])
    BY <1>1 DEF LifecycleInv, ConnsOK
  <2>2. SoundConn(ns'[c])
    BY <1>1 DEF LifecycleInv, ConnsOK
  <2>3. ns[c].stage = "handling" /\ ns'[c].stage = "signing" => servers[ns[c].addr] = c
    BY <1>1, <2>1 DEF SignsUnretired, SoundConn, LifecycleInv, ServersOK
  <2>4. Delivered(c) => ns[c].reply # "refused"
    BY <2>1 DEF Delivered, SoundConn
  <2>5. QED BY <2>2, <2>3, <2>4 DEF SoundConn
<1>2. LifecycleInv /\ [Next]_vars =>
        [\A c \in Connectors :
           /\ ns[c].stage = "handling" /\ ns'[c].stage = "signing" => servers[ns[c].addr] = c
           /\ Delivered(c) => ns[c].reply # "refused"
           /\ ns'[c].cancelled /\ ns'[c].stage # "dialing" => ns'[c].sock # "open"]_vars
  BY <1>1, LifecycleStep
<1>3. QED BY <1>2, LifecycleInvariant, PTL DEF Spec, RetiredStaysSilent

\* From the moment leadership may be given up at shutdown no answer reaches a node,
\* and a handoff is reported only when another leader has been seen (Run,
\* TransferLeadership).
THEOREM HandoffIsQuiet == Spec => QuietHandoff
<1>1. ASSUME LifecycleInv, NEW c \in Connectors, Delivered(c)
      PROVE  run.pc \notin {"transfer", "future", "observe", "wait", "done"}
  <2>1. SoundConn(ns[c]) /\ ns[c].stage = "replying" /\ ns[c].sock = "open"
    BY <1>1 DEF LifecycleInv, ConnsOK, Delivered
  <2>2. ns[c].addr \in Nodes /\ servers[ns[c].addr] = c
    BY <1>1, <2>1 DEF SoundConn, LifecycleInv, ServersOK
  <2>3. Served # {}
    BY <2>2, ConnAssumption DEF Served
  <2>4. QED BY <1>1, <2>3 DEF LifecycleInv, RunOK, Ending
<1>2. LifecycleInv /\ [Next]_vars =>
        [/\ \A c \in Connectors :
              Delivered(c) => run.pc \notin {"transfer", "future", "observe", "wait", "done"}
         /\ run'.handoff = "ok" /\ run.handoff # "ok" => leader = "other"]_vars
  BY <1>1, LifecycleStep DEF HandoffTaken
<1>3. QED BY <1>2, LifecycleInvariant, PTL DEF Spec, QuietHandoff
=============================================================================
