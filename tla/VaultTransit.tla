---------------------------- MODULE VaultTransit ----------------------------
(***************************************************************************)
(* One Vault Transit key and what is done with it: `import` and `provision`*)
(* run by several operators, the backends that sign with it, and the       *)
(* rotations, public-only versions and minimum versions that an operator   *)
(* of Vault may set at any time.                                           *)
(***************************************************************************)
EXTENDS Naturals, Sequences

CONSTANTS Importers, Signers, Keys, Nil,
          MaxVersions, \* bound: versions of the Transit key
          MaxCalls     \* bound: commands and backends begun

VARIABLES transit,  \* its versions, [key, private]; empty when there is no key
          minimum,  \* min_encryption_version
          imp,      \* importer -> its command
          signer,   \* signer -> its backend
          reported, \* history: the source keys of verified imports
          signed,   \* history: <<cached key, key that signed>>
          calls

vars == <<transit, minimum, imp, signer, reported, signed, calls>>

Version == [key : Keys, private : BOOLEAN]
Command == [pc : {"idle", "fetch", "probe", "complete", "create", "verify"},
            source : Keys \cup {Nil}, requested : 0..MaxVersions, selected : 0..MaxVersions]
NoCommand == [pc |-> "idle", source |-> Nil, requested |-> 0, selected |-> 0]
Backend == [pub : Keys \cup {Nil}, version : 0..MaxVersions]
Closed == [pub |-> Nil, version |-> 0]

TypeOK ==
  /\ transit \in UNION {[1..n -> Version] : n \in 0..MaxVersions}
  /\ minimum \in 0..MaxVersions
  /\ imp \in [Importers -> Command]
  /\ signer \in [Signers -> Backend]
  /\ reported \subseteq Keys /\ signed \subseteq Keys \X Keys
  /\ calls \in 0..MaxCalls

Init ==
  /\ transit = <<>> /\ minimum = 0
  /\ imp = [i \in Importers |-> NoCommand]
  /\ signer = [s \in Signers |-> Closed]
  /\ reported = {} /\ signed = {} /\ calls = 0

Latest == Len(transit)
Select(requested) == IF requested = 0 THEN Latest ELSE requested
\* Transit signs with a version that has its private half and is not too old.
CanSign(v) == v \in 1..Latest /\ transit[v].private /\ v >= minimum

\* fetchPubKeyIfExists: the version is there, and may sign where that is required.
Fetched(requested, requireSigningVersion) ==
  /\ Select(requested) \in 1..Latest
  /\ requireSigningVersion => Select(requested) >= minimum

At(i, pc) == imp[i].pc = pc
Goto(i, pc) == imp' = [imp EXCEPT ![i].pc = pc]
Fail(i) == imp' = [imp EXCEPT ![i] = NoCommand]
Rest == UNCHANGED <<minimum, signer, signed, calls>>
-----------------------------------------------------------------------------
Import(i, k, v) ==
  /\ At(i, "idle") /\ calls < MaxCalls /\ calls' = calls + 1
  /\ imp' = [imp EXCEPT ![i] = [pc |-> "fetch", source |-> k, requested |-> v, selected |-> 0]]
  /\ UNCHANGED <<transit, minimum, signer, reported, signed>>

\* Mutant of Fetch: the public key says it all.
FetchTrusts(i) ==
  /\ At(i, "fetch")
  /\ IF transit = <<>> THEN (imp[i].requested <= 1 /\ Goto(i, "create"))
     ELSE IF /\ Fetched(imp[i].requested, FALSE)
             /\ transit[Select(imp[i].requested)].key = imp[i].source
     THEN imp' = [imp EXCEPT ![i].pc = "verify"] ELSE Fail(i)
  /\ UNCHANGED <<transit, reported>> /\ Rest

\* No key: it is created, as version 1.  A key: its version must have the public
\* key of the source, and then prove that it has the private one.
Fetch(i) ==
  /\ At(i, "fetch")
  /\ LET v == Select(imp[i].requested) IN
     \/ transit = <<>> /\ imp[i].requested <= 1 /\ Goto(i, "create")
     \/ /\ transit # <<>> /\ Fetched(imp[i].requested, FALSE) /\ transit[v].key = imp[i].source
        /\ imp' = [imp EXCEPT ![i].pc = IF v >= minimum THEN "probe" ELSE "complete",
                              ![i].selected = v]
     \/ Fail(i)
  /\ UNCHANGED <<transit, reported>> /\ Rest

\* verifySigningKey: a probe that fails, for whatever reason, leads to completion.
Probe(i) ==
  /\ At(i, "probe")
  /\ Goto(i, "complete") \/ (CanSign(imp[i].selected) /\ Goto(i, "verify"))
  /\ UNCHANGED <<transit, reported>> /\ Rest

\* import_version: completes a version that lacks its private half; one that has
\* it answers so, which counts as success.  The call or its answer may be lost.
Complete(i) ==
  /\ At(i, "complete")
  /\ \/ /\ transit' = [transit EXCEPT ![imp[i].selected].private = TRUE]
        /\ Goto(i, "verify") \/ Fail(i)
     \/ UNCHANGED transit /\ Fail(i)
  /\ UNCHANGED reported /\ Rest

\* import creates only; the call or its answer may be lost.
Create(i) ==
  /\ At(i, "create")
  /\ \/ /\ transit = <<>> /\ transit' = <<[key |-> imp[i].source, private |-> TRUE]>>
        /\ Goto(i, "verify") \/ Fail(i)
     \/ UNCHANGED transit /\ Fail(i)
  /\ UNCHANGED reported /\ Rest

\* verifyImportedKey: a backend is built and its public key compared.
VerifyImported(i) ==
  /\ At(i, "verify")
  /\ reported' = IF /\ Fetched(imp[i].requested, TRUE)
                    /\ transit[Select(imp[i].requested)].key = imp[i].source
                 THEN reported \cup {imp[i].source} ELSE reported
  /\ Fail(i)
  /\ UNCHANGED transit /\ Rest

\* A key that nobody had before.
Fresh(k) == /\ \A v \in 1..Latest : transit[v].key # k
            /\ \A i \in Importers : imp[i].source # k
            /\ k \notin reported

\* provisionVault: creating a key that exists changes nothing.
Provision(k) ==
  /\ calls < MaxCalls /\ calls' = calls + 1
  /\ Fresh(k) /\ transit = <<>>
  /\ transit' = <<[key |-> k, private |-> TRUE]>>
  /\ UNCHANGED <<minimum, imp, signer, reported, signed>>
-----------------------------------------------------------------------------
\* NewVault caches the key and pins its version; VerifyCanSign then probes it.
Open(s, v) ==
  /\ signer[s] = Closed /\ calls < MaxCalls /\ calls' = calls + 1
  /\ Fetched(v, TRUE) /\ CanSign(Select(v))
  /\ signer' = [signer EXCEPT ![s] = [pub |-> transit[Select(v)].key, version |-> Select(v)]]
  /\ UNCHANGED <<transit, minimum, imp, reported, signed>>

\* Mutant of Sign: Vault chooses the version.
SignLatest(s) ==
  /\ signer[s] # Closed /\ CanSign(Latest)
  /\ signed' = signed \cup {<<signer[s].pub, transit[Latest].key>>}
  /\ UNCHANGED <<transit, minimum, imp, signer, reported, calls>>

\* signWithClient names the pinned version; if that may not sign, it fails.
Sign(s) ==
  /\ signer[s] # Closed /\ CanSign(signer[s].version)
  /\ signed' = signed \cup {<<signer[s].pub, transit[signer[s].version].key>>}
  /\ UNCHANGED <<transit, minimum, imp, signer, reported, calls>>

\* External: Vault's operator rotates the key, adds a version of which only the
\* public half is known, or raises the minimum version.
Rotate ==
  /\ Latest \in 1..MaxVersions - 1
  /\ \E k \in Keys : Fresh(k) /\ transit' = Append(transit, [key |-> k, private |-> TRUE])
  /\ UNCHANGED <<minimum, imp, signer, reported, signed, calls>>
AddPublic(k) ==
  /\ Latest < MaxVersions
  /\ transit' = Append(transit, [key |-> k, private |-> FALSE])
  /\ UNCHANGED <<minimum, imp, signer, reported, signed, calls>>
RaiseMinimum ==
  /\ minimum < Latest /\ minimum' = minimum + 1
  /\ UNCHANGED <<transit, imp, signer, reported, signed, calls>>

Step(i) == Fetch(i) \/ Probe(i) \/ Complete(i) \/ Create(i) \/ VerifyImported(i)
Finished == calls = MaxCalls /\ (\A i \in Importers : At(i, "idle")) /\ UNCHANGED vars

Next ==
  \/ \E i \in Importers : (\E k \in Keys, v \in 0..MaxVersions : Import(i, k, v)) \/ Step(i)
  \/ \E s \in Signers : (\E v \in 0..MaxVersions : Open(s, v)) \/ Sign(s)
  \/ \E k \in Keys : Provision(k) \/ AddPublic(k)
  \/ Rotate \/ RaiseMinimum \/ Finished

Spec == Init /\ [][Next]_vars
=============================================================================
