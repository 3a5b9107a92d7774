-------------------------- MODULE KeyImportProofs --------------------------
(* What `import` and `provision` report is what the key store holds, for   *)
(* any number of commands, keys, versions and protection levels: the       *)
(* inductive invariant of Vault, and that of the three types together.     *)
EXTENDS CloudImportProofs
-----------------------------------------------------------------------------
(* `import` and `provision` with Vault.                                    *)

\* Some version of the Transit key t can sign with k.
HasPrivate(t, k) == \E v \in DOMAIN t : t[v] = [key |-> k, private |-> TRUE]

\* A command that goes on to verify has seen, or put, its private key in Vault.
SoundImport(t, m) ==
  /\ m.pc # "idle" => m.source \in Keys
  /\ m.pc \in {"probe", "complete"} => m.selected \in 1..Len(t) /\ t[m.selected].key = m.source
  /\ m.pc = "verify" => HasPrivate(t, m.source)

\* An open backend has pinned the version whose key it announces.
SoundSigner(t, s) == s = Vault!Closed \/ (s.version \in 1..Len(t) /\ t[s.version].key = s.pub)

TransitInv ==
  /\ Vault!TypeOK
  /\ \A i \in Importers : SoundImport(transit, imp[i])
  /\ \A s \in Signers : SoundSigner(transit, signer[s])
  /\ \A k \in reported : HasPrivate(transit, k)
  /\ \A s \in signed : s[1] = s[2]

\* Versions are added and completed, never removed or changed.
Grows(t, u) ==
  /\ Len(t) <= Len(u)
  /\ \A v \in 1..Len(t) : u[v].key = t[v].key /\ (t[v].private => u[v].private)

\* The versions are a sequence of bounded length.
LEMMA TransitIsSeq ==
  ASSUME NEW t
  PROVE  t \in UNION {[1..n -> Vault!Version] : n \in 0..MaxVersions} <=>
           t \in Seq(Vault!Version) /\ Len(t) <= MaxVersions
<1>1. ASSUME t \in UNION {[1..n -> Vault!Version] : n \in 0..MaxVersions}
      PROVE  t \in Seq(Vault!Version) /\ Len(t) <= MaxVersions
  <2>1. PICK n \in 0..MaxVersions : t \in [1..n -> Vault!Version]
    BY <1>1
  <2>2. QED BY <2>1, VaultImportAssumption
<1>2. ASSUME t \in Seq(Vault!Version), Len(t) <= MaxVersions
      PROVE  t \in UNION {[1..n -> Vault!Version] : n \in 0..MaxVersions}
  <2>1. Len(t) \in 0..MaxVersions /\ t \in [1..Len(t) -> Vault!Version]
    BY <1>2, VaultImportAssumption
  <2>2. QED BY <2>1
<1>3. QED BY <1>1, <1>2

\* What can sign keeps being able to.
LEMMA PrivateKept ==
  ASSUME NEW t \in Seq(Vault!Version), NEW u \in Seq(Vault!Version), Grows(t, u),
         NEW k, HasPrivate(t, k)
  PROVE  HasPrivate(u, k)
<1> DOMAIN t = 1..Len(t) /\ DOMAIN u = 1..Len(u)
  OBVIOUS
<1>1. PICK v \in 1..Len(t) : t[v] = [key |-> k, private |-> TRUE]
  BY Zenon DEF HasPrivate
<1>2. v \in 1..Len(u) /\ u[v].key = k /\ u[v].private /\ u[v] \in Vault!Version
  BY <1>1 DEF Grows
<1>3. u[v] = [key |-> k, private |-> TRUE]
  BY <1>2 DEF Vault!Version
<1>4. QED BY <1>2, <1>3, Zenon DEF HasPrivate

\* Commands and backends that do not move stay sound while the key grows.
LEMMA TransitFrame ==
  ASSUME TransitInv, Vault!TypeOK', Grows(transit, transit'),
         \A i \in Importers : imp'[i] = imp[i] \/ SoundImport(transit', imp'[i]),
         \A s \in Signers : signer'[s] = signer[s] \/ SoundSigner(transit', signer'[s]),
         \A k \in reported' : k \in reported \/ HasPrivate(transit', k),
         \A s \in signed' : s \in signed \/ s[1] = s[2]
  PROVE  TransitInv'
<1>1. transit \in Seq(Vault!Version) /\ transit' \in Seq(Vault!Version)
  BY TransitIsSeq DEF TransitInv, Vault!TypeOK
<1>2. \A k : HasPrivate(transit, k) => HasPrivate(transit', k)
  BY <1>1, PrivateKept
<1>3. ASSUME NEW m, SoundImport(transit, m)
      PROVE  SoundImport(transit', m)
  BY <1>1, <1>2, <1>3 DEF SoundImport, Grows
<1>4. ASSUME NEW s, SoundSigner(transit, s)
      PROVE  SoundSigner(transit', s)
  BY <1>1, <1>4 DEF SoundSigner, Grows
<1>5. \A i \in Importers : SoundImport(transit', imp'[i])
  BY <1>3 DEF TransitInv
<1>6. \A s \in Signers : SoundSigner(transit', signer'[s])
  BY <1>4 DEF TransitInv
<1>7. QED BY <1>2, <1>5, <1>6 DEF TransitInv

\* The types of a state of the invariant.
LEMMA TransitTypes ==
  ASSUME TransitInv
  PROVE  /\ transit \in Seq(Vault!Version) /\ Len(transit) \in Nat /\ Len(transit) <= MaxVersions
         /\ minimum \in Nat /\ minimum <= MaxVersions /\ MaxVersions \in Nat /\ MaxVersions > 0
         /\ imp \in [Importers -> Vault!Command] /\ signer \in [Signers -> Vault!Backend]
         /\ reported \subseteq Keys /\ signed \subseteq Keys \X Keys
         /\ calls \in Nat /\ calls <= MaxCalls /\ MaxCalls \in Nat
BY TransitIsSeq, VaultImportAssumption DEF TransitInv, Vault!TypeOK

\* The key may be left alone.
LEMMA GrowsReflexive ==
  ASSUME Len(transit) \in Nat
  PROVE  Grows(transit, transit)
BY DEF Grows

\* A command that goes on, or ends.
LEMMA ImportMoves ==
  ASSUME imp \in [Importers -> Vault!Command], NEW i \in Importers,
         NEW pc \in {"idle", "fetch", "probe", "complete", "create", "verify"},
         NEW v \in 0..MaxVersions,
         \/ imp' = [imp EXCEPT ![i].pc = pc] /\ v = imp[i].selected
         \/ imp' = [imp EXCEPT ![i].pc = pc, ![i].selected = v]
  PROVE  /\ imp' \in [Importers -> Vault!Command]
         /\ imp'[i].pc = pc /\ imp'[i].source = imp[i].source /\ imp'[i].selected = v
         /\ \A j \in Importers : j # i => imp'[j] = imp[j]
<1>1. PICK r \in Vault!Command : r = imp[i]
  OBVIOUS
<1>2. PICK q : q = IF imp' = [imp EXCEPT ![i].pc = pc] /\ v = r.selected
                   THEN [r EXCEPT !.pc = pc] ELSE [r EXCEPT !.pc = pc, !.selected = v]
  BY Zenon
<1>3. q \in Vault!Command
  BY <1>1, <1>2 DEF Vault!Command
<1>4. q.pc = pc /\ q.source = r.source /\ q.selected = v
  BY <1>1, <1>2 DEF Vault!Command
<1>5. imp' = [imp EXCEPT ![i] = q]
  BY <1>1, <1>2, Zenon
<1>6. QED BY <1>1, <1>3, <1>4, <1>5

\* A command goes on to pc.
LEMMA ImportGoes ==
  ASSUME imp \in [Importers -> Vault!Command], NEW i \in Importers,
         NEW pc \in {"idle", "fetch", "probe", "complete", "create", "verify"}, Vault!Goto(i, pc)
  PROVE  /\ imp' \in [Importers -> Vault!Command]
         /\ imp'[i].pc = pc /\ imp'[i].source = imp[i].source
         /\ imp'[i].selected = imp[i].selected
         /\ \A j \in Importers : j # i => imp'[j] = imp[j]
<1>1. PICK r \in Vault!Command : r = imp[i]
  OBVIOUS
<1>2. PICK q : q = [r EXCEPT !.pc = pc]
  BY Zenon
<1>3. q \in Vault!Command /\ q.pc = pc /\ q.source = r.source /\ q.selected = r.selected
  BY <1>1, <1>2 DEF Vault!Command
<1>4. imp' = [imp EXCEPT ![i] = q]
  BY <1>1, <1>2 DEF Vault!Goto
<1>5. QED BY <1>1, <1>3, <1>4

\* A command ends with an error.
LEMMA ImportFails ==
  ASSUME imp \in [Importers -> Vault!Command], NEW i \in Importers, Vault!Fail(i)
  PROVE  /\ imp' \in [Importers -> Vault!Command]
         /\ imp'[i] = Vault!NoCommand /\ \A t : SoundImport(t, imp'[i])
         /\ \A j \in Importers : j # i => imp'[j] = imp[j]
<1>1. Vault!NoCommand \in Vault!Command
  BY VaultImportAssumption DEF Vault!NoCommand, Vault!Command
<1>2. \A t : SoundImport(t, Vault!NoCommand)
  BY DEF SoundImport, Vault!NoCommand
<1>3. QED BY <1>1, <1>2 DEF Vault!Fail

\* import and provision.
LEMMA StartImportInv ==
  ASSUME TransitInv, NEW i \in Importers, NEW k \in Keys, NEW v \in 0..MaxVersions,
         Vault!Import(i, k, v)
  PROVE  TransitInv'
<1>1. PICK m : m = [pc |-> "fetch", source |-> k, requested |-> v, selected |-> 0]
  BY Zenon
<1>2. m \in Vault!Command /\ SoundImport(transit, m)
  BY <1>1, VaultImportAssumption DEF Vault!Command, SoundImport
<1>3. /\ imp' = [imp EXCEPT ![i] = m] /\ calls' = calls + 1 /\ calls < MaxCalls
      /\ UNCHANGED <<transit, minimum, signer, reported, signed>>
  BY <1>1 DEF Vault!Import
<1>4. calls' \in 0..MaxCalls
  BY <1>3, TransitTypes
<1>5. Vault!TypeOK'
  BY <1>2, <1>3, <1>4 DEF TransitInv, Vault!TypeOK
<1>6. \A j \in Importers : imp'[j] = imp[j] \/ SoundImport(transit', imp'[j])
  BY <1>2, <1>3, TransitTypes
<1>7. QED BY <1>3, <1>5, <1>6, TransitFrame, TransitTypes, GrowsReflexive

\* A step that reads Vault and moves the command.
LEMMA ReadOnlyStep ==
  ASSUME TransitInv, NEW i \in Importers, UNCHANGED <<transit, reported>>, Vault!Rest,
         imp' \in [Importers -> Vault!Command], SoundImport(transit, imp'[i]),
         \A j \in Importers : j # i => imp'[j] = imp[j]
  PROVE  TransitInv'
<1>1. Vault!TypeOK'
  BY DEF TransitInv, Vault!TypeOK, Vault!Rest
<1>2. \A j \in Importers : imp'[j] = imp[j] \/ SoundImport(transit', imp'[j])
  OBVIOUS
<1>3. QED BY <1>1, <1>2, TransitFrame, TransitTypes, GrowsReflexive DEF Vault!Rest

\* fetchVaultTransitKey selects the version of the command's key, if there is one.
LEMMA FetchInv ==
  ASSUME TransitInv, NEW i \in Importers, Vault!Fetch(i)
  PROVE  TransitInv'
<1> USE DEF Vault!Latest
<1>1. imp \in [Importers -> Vault!Command] /\ imp[i] \in Vault!Command
  BY TransitTypes
<1>2. imp[i].source \in Keys
  BY DEF Vault!Fetch, Vault!At, TransitInv, SoundImport
<1>3. UNCHANGED <<transit, reported>> /\ Vault!Rest
  BY DEF Vault!Fetch
<1>4. CASE Vault!Goto(i, "create")
  <2>1. /\ imp' \in [Importers -> Vault!Command]
        /\ imp'[i].pc = "create" /\ imp'[i].source = imp[i].source
        /\ \A j \in Importers : j # i => imp'[j] = imp[j]
    BY <1>1, <1>4, ImportGoes
  <2>2. SoundImport(transit, imp'[i])
    BY <1>2, <2>1 DEF SoundImport
  <2>3. QED BY <1>3, <2>1, <2>2, ReadOnlyStep
<1>5. ASSUME NEW v, v = Vault!Select(imp[i].requested), Vault!Fetched(imp[i].requested, FALSE),
             transit[v].key = imp[i].source,
             imp' = [imp EXCEPT ![i].pc = IF v >= minimum THEN "probe" ELSE "complete",
                                ![i].selected = v]
      PROVE  TransitInv'
  <2>1. v \in 1..Len(transit) /\ v \in 0..MaxVersions
    BY <1>5, TransitTypes DEF Vault!Fetched
  <2>2. PICK pc \in {"probe", "complete"} : pc = IF v >= minimum THEN "probe" ELSE "complete"
    OBVIOUS
  <2>3. /\ imp' \in [Importers -> Vault!Command]
        /\ imp'[i].pc = pc /\ imp'[i].source = imp[i].source /\ imp'[i].selected = v
        /\ \A j \in Importers : j # i => imp'[j] = imp[j]
    BY <1>1, <1>5, <2>1, <2>2, ImportMoves, ZenonT(30)
  <2>4. SoundImport(transit, imp'[i])
    BY <1>2, <1>5, <2>1, <2>3 DEF SoundImport
  <2>5. QED BY <1>3, <2>3, <2>4, ReadOnlyStep
<1>6. CASE Vault!Fail(i)
  BY <1>1, <1>3, <1>6, ImportFails, ReadOnlyStep
<1>7. QED BY <1>4, <1>5, <1>6, Zenon DEF Vault!Fetch

\* The probe's signature shows that the selected version has its private key.
LEMMA ProbeInv ==
  ASSUME TransitInv, NEW i \in Importers, Vault!Probe(i)
  PROVE  TransitInv'
<1>1. imp \in [Importers -> Vault!Command] /\ imp[i] \in Vault!Command
  BY TransitTypes
<1>2. /\ imp[i].source \in Keys /\ imp[i].selected \in 1..Len(transit)
      /\ transit[imp[i].selected].key = imp[i].source
  BY DEF Vault!Probe, Vault!At, TransitInv, SoundImport
<1>3. UNCHANGED <<transit, reported>> /\ Vault!Rest
  BY DEF Vault!Probe
<1>4. ASSUME NEW pc \in {"complete", "verify"}, Vault!Goto(i, pc),
             pc = "verify" => Vault!CanSign(imp[i].selected)
      PROVE  TransitInv'
  <2>1. /\ imp' \in [Importers -> Vault!Command]
        /\ imp'[i].pc = pc /\ imp'[i].source = imp[i].source
        /\ imp'[i].selected = imp[i].selected
        /\ \A j \in Importers : j # i => imp'[j] = imp[j]
    BY <1>1, <1>4, ImportGoes
  <2>2. pc = "verify" => HasPrivate(transit, imp[i].source)
    <3>1. transit[imp[i].selected] \in Vault!Version /\ DOMAIN transit = 1..Len(transit)
      BY <1>2, TransitTypes
    <3>2. transit[imp[i].selected].private =>
            transit[imp[i].selected] = [key |-> imp[i].source, private |-> TRUE]
      BY <1>2, <3>1, Zenon DEF Vault!Version
    <3>3. QED BY <1>2, <1>4, <3>1, <3>2 DEF HasPrivate, Vault!CanSign
  <2>3. SoundImport(transit, imp'[i])
    BY <1>2, <2>1, <2>2 DEF SoundImport
  <2>4. QED BY <1>3, <2>1, <2>3, ReadOnlyStep
<1>5. QED BY <1>4 DEF Vault!Probe

\* A request that may change the key and then goes on to verify, or ends.
LEMMA WriteStep ==
  ASSUME TransitInv, NEW i \in Importers, UNCHANGED reported, Vault!Rest,
         transit' \in Seq(Vault!Version), Len(transit') <= MaxVersions, Grows(transit, transit'),
         \/ Vault!Goto(i, "verify") /\ imp[i].source \in Keys /\ HasPrivate(transit', imp[i].source)
         \/ Vault!Fail(i)
  PROVE  TransitInv'
<1>1. imp \in [Importers -> Vault!Command]
  BY TransitTypes
<1>2. /\ imp' \in [Importers -> Vault!Command] /\ SoundImport(transit', imp'[i])
      /\ \A j \in Importers : j # i => imp'[j] = imp[j]
  <2>1. CASE Vault!Fail(i)
    BY <1>1, <2>1, ImportFails, Zenon
  <2>2. CASE Vault!Goto(i, "verify") /\ imp[i].source \in Keys
             /\ HasPrivate(transit', imp[i].source)
    <3>1. /\ imp' \in [Importers -> Vault!Command]
          /\ imp'[i].pc = "verify" /\ imp'[i].source = imp[i].source
          /\ \A j \in Importers : j # i => imp'[j] = imp[j]
      BY <1>1, <2>2, ImportGoes
    <3>2. QED BY <2>2, <3>1 DEF SoundImport
  <2>3. QED BY <2>1, <2>2
<1>3. Vault!TypeOK'
  BY <1>2, TransitIsSeq DEF TransitInv, Vault!TypeOK, Vault!Rest
<1>4. \A j \in Importers : imp'[j] = imp[j] \/ SoundImport(transit', imp'[j])
  BY <1>2
<1>5. QED BY <1>3, <1>4, TransitFrame DEF Vault!Rest

\* The private key of a public-only version is put in Vault.
LEMMA CompleteInv ==
  ASSUME TransitInv, NEW i \in Importers, Vault!Complete(i)
  PROVE  TransitInv'
<1>1. /\ imp[i].source \in Keys /\ imp[i].selected \in 1..Len(transit)
      /\ transit[imp[i].selected].key = imp[i].source
  BY DEF Vault!Complete, Vault!At, TransitInv, SoundImport
<1>2. UNCHANGED reported /\ Vault!Rest
  BY DEF Vault!Complete
<1>3. transit \in Seq(Vault!Version) /\ Len(transit) \in Nat /\ Len(transit) <= MaxVersions
  BY TransitTypes
<1>4. CASE transit' = [transit EXCEPT ![imp[i].selected].private = TRUE]
  <2>1. PICK v \in 1..Len(transit) : v = imp[i].selected
    BY <1>1
  <2>2. PICK o \in Vault!Version : o = transit[v]
    BY <1>3
  <2>3. PICK n : n = [o EXCEPT !.private = TRUE]
    BY Zenon
  <2>4. n \in Vault!Version /\ n.key = transit[v].key /\ n.private
    BY <2>2, <2>3, Zenon DEF Vault!Version
  <2>5. transit' = [transit EXCEPT ![v] = n]
    BY <1>4, <2>1, <2>2, <2>3
  <2>6. /\ transit' \in Seq(Vault!Version) /\ Len(transit') = Len(transit)
        /\ transit'[v] = n /\ \A w \in 1..Len(transit) : w # v => transit'[w] = transit[w]
    BY <1>3, <2>4, <2>5
  <2>7. Grows(transit, transit')
    BY <1>3, <2>4, <2>6 DEF Grows
  <2>8. HasPrivate(transit', imp[i].source)
    <3>1. n = [key |-> imp[i].source, private |-> TRUE]
      BY <1>1, <2>1, <2>4 DEF Vault!Version
    <3>2. QED BY <2>1, <2>6, <3>1 DEF HasPrivate
  <2>9. QED BY <1>1, <1>2, <1>3, <1>4, <2>6, <2>7, <2>8, WriteStep, Zenon DEF Vault!Complete
<1>5. CASE UNCHANGED transit /\ Vault!Fail(i)
  BY <1>2, <1>3, <1>5, WriteStep, GrowsReflexive
<1>6. QED BY <1>4, <1>5 DEF Vault!Complete

\* The key is created, or was by another command.
LEMMA CreateInv ==
  ASSUME TransitInv, NEW i \in Importers, Vault!Create(i)
  PROVE  TransitInv'
<1>1. imp[i].source \in Keys
  BY DEF Vault!Create, Vault!At, TransitInv, SoundImport
<1>2. UNCHANGED reported /\ Vault!Rest
  BY DEF Vault!Create
<1>3. /\ transit \in Seq(Vault!Version) /\ Len(transit) \in Nat /\ Len(transit) <= MaxVersions
      /\ MaxVersions \in Nat /\ MaxVersions > 0
  BY TransitTypes
<1>4. CASE transit = <<>> /\ transit' = <<[key |-> imp[i].source, private |-> TRUE]>>
  <2>1. PICK n : n = [key |-> imp[i].source, private |-> TRUE]
    BY Zenon
  <2>2. n \in Vault!Version
    BY <1>1, <2>1 DEF Vault!Version
  <2>3. /\ transit' \in Seq(Vault!Version) /\ Len(transit') = 1 /\ transit'[1] = n
        /\ Len(transit) = 0
    BY <1>4, <2>1, <2>2
  <2>4. Grows(transit, transit')
    BY <2>3 DEF Grows
  <2>5. HasPrivate(transit', imp[i].source)
    BY <2>1, <2>3 DEF HasPrivate
  <2>6. QED BY <1>1, <1>2, <1>3, <2>3, <2>4, <2>5, WriteStep DEF Vault!Create
<1>5. CASE UNCHANGED transit /\ Vault!Fail(i)
  BY <1>2, <1>3, <1>5, WriteStep, GrowsReflexive
<1>6. QED BY <1>4, <1>5 DEF Vault!Create

\* verifyImportedKey reports the identity that the command has left in Vault.
LEMMA VerifyImportedInv ==
  ASSUME TransitInv, NEW i \in Importers, Vault!VerifyImported(i)
  PROVE  TransitInv'
<1>1. imp[i].source \in Keys /\ HasPrivate(transit, imp[i].source)
  BY DEF Vault!VerifyImported, Vault!At, TransitInv, SoundImport
<1>2. reported' \subseteq reported \cup {imp[i].source} /\ UNCHANGED transit /\ Vault!Rest
  BY Zenon DEF Vault!VerifyImported
<1>3. /\ imp' \in [Importers -> Vault!Command] /\ SoundImport(transit', imp'[i])
      /\ \A j \in Importers : j # i => imp'[j] = imp[j]
  BY TransitTypes, ImportFails DEF Vault!VerifyImported
<1>4. Vault!TypeOK'
  BY <1>1, <1>2, <1>3 DEF TransitInv, Vault!TypeOK, Vault!Rest
<1>5. /\ \A j \in Importers : imp'[j] = imp[j] \/ SoundImport(transit', imp'[j])
      /\ \A k \in reported' : k \in reported \/ HasPrivate(transit', k)
  BY <1>1, <1>2, <1>3
<1>6. QED BY <1>2, <1>4, <1>5, TransitFrame, TransitTypes, GrowsReflexive DEF Vault!Rest

\* A new version, of provision or of Vault's operator.
LEMMA AppendInv ==
  ASSUME TransitInv, NEW n \in Vault!Version, Len(transit) < MaxVersions,
         transit' = Append(transit, n), calls' \in 0..MaxCalls,
         UNCHANGED <<minimum, imp, signer, reported, signed>>
  PROVE  TransitInv'
<1>1. transit \in Seq(Vault!Version) /\ Len(transit) \in Nat /\ MaxVersions \in Nat
  BY TransitTypes
<1>2. /\ transit' \in Seq(Vault!Version) /\ Len(transit') = Len(transit) + 1
      /\ \A v \in 1..Len(transit) : transit'[v] = transit[v]
  BY <1>1
<1>3. Grows(transit, transit') /\ Len(transit') <= MaxVersions
  BY <1>1, <1>2 DEF Grows
<1>4. Vault!TypeOK'
  BY <1>2, <1>3, TransitIsSeq, Zenon DEF TransitInv, Vault!TypeOK
<1>5. QED BY <1>3, <1>4, TransitFrame

\* Public-only versions and rotations add versions, and change none.
LEMMA VersionsInv ==
  ASSUME TransitInv,
         Vault!Rotate \/ Vault!RaiseMinimum
         \/ \E k \in Keys : Vault!Provision(k) \/ Vault!AddPublic(k)
  PROVE  TransitInv'
<1> USE DEF Vault!Latest
<1>1. /\ transit \in Seq(Vault!Version) /\ Len(transit) \in Nat /\ Len(transit) <= MaxVersions
      /\ MaxVersions \in Nat /\ MaxVersions > 0 /\ minimum \in Nat
      /\ calls \in 0..MaxCalls /\ calls \in Nat /\ MaxCalls \in Nat
  BY TransitTypes DEF TransitInv, Vault!TypeOK
<1>2. \A k \in Keys, p \in BOOLEAN : [key |-> k, private |-> p] \in Vault!Version
  BY DEF Vault!Version
<1>3. CASE Vault!Rotate
  <2>1. PICK k \in Keys : transit' = Append(transit, [key |-> k, private |-> TRUE])
    BY <1>3, Zenon DEF Vault!Rotate
  <2>2. Len(transit) < MaxVersions /\ UNCHANGED <<minimum, imp, signer, reported, signed, calls>>
    BY <1>1, <1>3 DEF Vault!Rotate
  <2>3. QED BY <1>1, <1>2, <2>1, <2>2, AppendInv, Zenon
<1>4. ASSUME NEW k \in Keys, Vault!AddPublic(k)
      PROVE  TransitInv'
  BY <1>1, <1>2, <1>4, AppendInv, Zenon DEF Vault!AddPublic
<1>5. ASSUME NEW k \in Keys, Vault!Provision(k)
      PROVE  TransitInv'
  <2>1. /\ calls' \in 0..MaxCalls /\ UNCHANGED <<minimum, imp, signer, reported, signed>>
        /\ transit = <<>> /\ transit' = <<[key |-> k, private |-> TRUE]>>
    BY <1>1, <1>5 DEF Vault!Provision
  <2>2. Len(transit) < MaxVersions /\ transit' = Append(transit, [key |-> k, private |-> TRUE])
    BY <1>1, <2>1
  <2>3. QED BY <1>2, <2>1, <2>2, AppendInv, Zenon
<1>6. CASE Vault!RaiseMinimum
  <2>1. minimum' \in 0..MaxVersions /\ UNCHANGED <<transit, imp, signer, reported, signed, calls>>
    BY <1>1, <1>6 DEF Vault!RaiseMinimum
  <2>2. Vault!TypeOK'
    BY <2>1 DEF TransitInv, Vault!TypeOK
  <2>3. QED BY <1>1, <2>1, <2>2, TransitFrame, GrowsReflexive
<1>7. QED BY <1>3, <1>4, <1>5, <1>6

\* NewVault pins the version whose key it announces, and signs with that.
LEMMA SignersInv ==
  ASSUME TransitInv, NEW s \in Signers,
         Vault!Sign(s) \/ \E v \in 0..MaxVersions : Vault!Open(s, v)
  PROVE  TransitInv'
<1> USE DEF Vault!Latest
<1>1. /\ transit \in Seq(Vault!Version) /\ Len(transit) \in Nat /\ Len(transit) <= MaxVersions
      /\ MaxVersions \in Nat /\ signer \in [Signers -> Vault!Backend]
      /\ calls \in Nat /\ MaxCalls \in Nat
  BY TransitTypes
<1>2. ASSUME NEW v \in 1..Len(transit)
      PROVE  transit[v].key \in Keys
  <2>1. transit[v] \in Vault!Version
    BY <1>1
  <2>2. QED BY <2>1 DEF Vault!Version
<1>3. CASE Vault!Sign(s)
  <2>1. /\ signer[s].version \in 1..Len(transit) /\ transit[signer[s].version].key = signer[s].pub
        /\ UNCHANGED <<transit, minimum, imp, signer, reported, calls>>
        /\ signed' = signed \cup {<<signer[s].pub, transit[signer[s].version].key>>}
    BY <1>3 DEF Vault!Sign, TransitInv, SoundSigner
  <2>2. Vault!TypeOK'
    BY <1>2, <2>1 DEF TransitInv, Vault!TypeOK
  <2>3. \A p \in signed' : p \in signed \/ p[1] = p[2]
    BY <2>1
  <2>4. QED BY <1>1, <2>1, <2>2, <2>3, TransitFrame, GrowsReflexive
<1>4. ASSUME NEW v \in 0..MaxVersions, Vault!Open(s, v)
      PROVE  TransitInv'
  <2>1. PICK w \in 1..Len(transit) : w = Vault!Select(v)
    BY <1>4 DEF Vault!Open, Vault!Fetched
  <2>2. PICK b : b = [pub |-> transit[w].key, version |-> w]
    BY Zenon
  <2>3. b \in Vault!Backend /\ b.pub = transit[w].key /\ b.version = w
    BY <1>1, <1>2, <2>1, <2>2 DEF Vault!Backend
  <2>4. /\ signer' = [signer EXCEPT ![s] = b] /\ calls' \in 0..MaxCalls
        /\ UNCHANGED <<transit, minimum, imp, reported, signed>>
    BY <1>1, <1>4, <2>1, <2>2 DEF Vault!Open
  <2>5. Vault!TypeOK'
    BY <2>3, <2>4 DEF TransitInv, Vault!TypeOK
  <2>6. \A x \in Signers : signer'[x] = signer[x] \/ SoundSigner(transit', signer'[x])
    BY <1>1, <2>1, <2>3, <2>4 DEF SoundSigner
  <2>7. QED BY <1>1, <2>4, <2>5, <2>6, TransitFrame, GrowsReflexive
<1>5. QED BY <1>3, <1>4

\* There is no Transit key, and no command has started.
LEMMA TransitInit ==
  ASSUME Vault!Init
  PROVE  TransitInv
<1>1. Vault!NoCommand \in Vault!Command /\ Vault!Closed \in Vault!Backend
  BY VaultImportAssumption DEF Vault!NoCommand, Vault!Command, Vault!Closed, Vault!Backend
<1>2. transit \in Seq(Vault!Version) /\ Len(transit) = 0
  BY DEF Vault!Init
<1>3. Vault!TypeOK
  <2>1. transit \in UNION {[1..n -> Vault!Version] : n \in 0..MaxVersions}
    BY <1>2, TransitIsSeq, VaultImportAssumption
  <2>2. minimum \in 0..MaxVersions /\ calls \in 0..MaxCalls
    BY VaultImportAssumption DEF Vault!Init
  <2>3. QED BY <1>1, <2>1, <2>2, Zenon DEF Vault!Init, Vault!TypeOK
<1>4. \A i \in Importers : SoundImport(transit, imp[i])
  BY DEF Vault!Init, SoundImport, Vault!NoCommand
<1>5. \A s \in Signers : SoundSigner(transit, signer[s])
  BY DEF Vault!Init, SoundSigner
<1>6. QED BY <1>3, <1>4, <1>5 DEF Vault!Init, TransitInv

\* Every step keeps the invariant of Vault.
LEMMA TransitStep ==
  ASSUME TransitInv, Vault!Next \/ UNCHANGED vaultVars
  PROVE  TransitInv'
<1>1. ASSUME NEW i \in Importers, Vault!Step(i)
      PROVE  TransitInv'
  BY <1>1, FetchInv, ProbeInv, CompleteInv, CreateInv, VerifyImportedInv DEF Vault!Step
<1>2. CASE UNCHANGED vaultVars
  BY <1>2 DEF vaultVars, TransitInv, Vault!TypeOK, SoundImport, SoundSigner, HasPrivate
<1>3. CASE Vault!Finished
  BY <1>2, <1>3 DEF Vault!Finished, Vault!vars, vaultVars
<1>4. QED BY <1>1, <1>2, <1>3, StartImportInv, SignersInv, VersionsInv DEF Vault!Next
-----------------------------------------------------------------------------
\* The type is chosen once, and the invariant of its store holds.
ImportInv ==
  /\ type \in {"vault", "awskms", "gcpkms"}
  /\ type = "vault" => TransitInv
  /\ type = "awskms" => AWSInv
  /\ type = "gcpkms" => GCPInv

\* The invariant holds in every run of `import` and `provision`, for every number of
\* commands, keys and versions: the type of the backend never changes, and each step
\* is one of that backend's (VaultImportKey, AWSImportKey, GCPImportKey and Provision).
THEOREM ImportInvariant == ImportSpec => []ImportInv
<1>1. ImportInit => ImportInv
  BY TransitInit, AWSInit, GCPInit DEF ImportInit, ImportInv
<1>2. ImportInv /\ [ImportNext]_importVars => ImportInv'
  <2> SUFFICES ASSUME ImportInv, [ImportNext]_importVars
               PROVE  ImportInv'
    OBVIOUS
  <2>1. CASE IsVault(Vault!Next)
    <3>1. type = "vault" /\ type' = type /\ Vault!Next
      BY <2>1 DEF IsVault
    <3>2. QED BY <3>1, TransitStep DEF ImportInv
  <2>2. CASE IsAWS(AWS!Next)
    <3>1. type = "awskms" /\ type' = type /\ AWS!Next
      BY <2>2 DEF IsAWS
    <3>2. QED BY <3>1, AWSStep DEF ImportInv
  <2>3. CASE IsGCP(GCP!Next)
    <3>1. type = "gcpkms" /\ type' = type /\ GCP!Next
      BY <2>3 DEF IsGCP
    <3>2. QED BY <3>1, GCPStep DEF ImportInv
  <2>4. CASE UNCHANGED importVars
    <3>1. type' = type /\ UNCHANGED vaultVars /\ UNCHANGED <<cmd, awsVars>> /\ UNCHANGED <<cmd, gcpVars>>
      BY <2>4 DEF importVars
    <3>2. QED BY <3>1, TransitStep, AWSStep, GCPStep DEF ImportInv
  <2>5. QED BY <2>1, <2>2, <2>3, <2>4 DEF ImportNext
<1>3. QED BY <1>1, <1>2, PTL DEF ImportSpec

\* Whatever other creators, public-only versions and rotations come between the steps
\* of VaultImportKey, an import that reports a verified identity has left the private
\* key in Vault, and a signer's signatures are made with the key it announces.
THEOREM VaultHoldsReportedKeys == ImportSpec => []VaultKeyAsSaid
<1>1. ImportInv => VaultKeyAsSaid
  BY DEF ImportInv, VaultKeyAsSaid, TransitInv, HasPrivate
<1>2. QED BY <1>1, ImportInvariant, PTL

\* The key that AWSImportKey reports has the identity of the command's key file, and is
\* the one that the alias names if the import went through the alias, for any number of
\* racing commands.
THEOREM ReportsNameTheSource == ImportSpec => []ReportedIsSource
<1>1. ImportInv => ReportedIsSource
  BY DEF ImportInv, ReportedIsSource, AWSInv, SoundReport
<1>2. QED BY <1>1, ImportInvariant, PTL

\* No command creates two AWS keys, and one whose CreateKey was answered is named in
\* the command's report or error before the command ends.
THEOREM NoAWSKeyIsLost == ImportSpec => []CreatedIsNamed
<1>1. ImportInv => CreatedIsNamed
  BY DEF ImportInv, CreatedIsNamed, AWSInv, OneKeyEach, SoundAWS, Accounted
<1>2. QED BY <1>1, ImportInvariant, PTL

\* A GCP version is imported only into a key for validators and at the level its command
\* asked for, whoever created the key and the job, and at most one provision reports the
\* key as its own.
THEOREM ImportsAreAsAsked == ImportSpec => []CreatedAsAsked
<1>1. ImportInv => CreatedAsAsked
  BY DEF ImportInv, CreatedAsAsked, GCPInv, SoundGCP, SoundCreation, KeyFits
<1>2. QED BY <1>1, ImportInvariant, PTL
=============================================================================
