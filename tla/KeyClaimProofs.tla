--------------------------- MODULE KeyClaimProofs ---------------------------
(* The claim of a key is one owner for ever, whichever store keeps it: for *)
(* any number of claimers, clusters, keys and faults.  Each store has an   *)
(* invariant of its own; the refinement of KeyOwnership follows from it.   *)
EXTENDS KeyClaim, TLAPS

\* What the promise of KeyOwnership allows a step to do: the owner appears, or is
\* told, or nothing changes.
OwnerStep(o, new, t, newTold) ==
  \/ newTold = t /\ (new = o \/ (o = Nil /\ new \in Clusters))
  \/ newTold = t \cup {o} /\ o \in Clusters /\ new = o

\* The clusters whose claim was reported by a store behind an API.
Told == {k \in Clusters : <<k, "claimed">> \in reported}

Results == {"claimed", "mismatch", "unclaimed", "corrupt", "unreadable"}
Call == [pc : {"idle", "read", "metadata", "reread", "write"},
         id : Clusters \cup {Nil}, wrote : BOOLEAN, tries : Nat]
NoCall == [pc |-> "idle", id |-> Nil, wrote |-> FALSE, tries |-> 0]

CallsOK ==
  /\ call \in [Claimers -> Call]
  /\ reported \subseteq Clusters \X Results
  /\ faults \in 0..MaxFaults
  /\ \A p \in Claimers : call[p].pc # "idle" => call[p].id \in Clusters

\* A call ends with a result.
Returned(p, result) ==
  /\ call' = [call EXCEPT ![p] = NoCall]
  /\ reported' = reported \cup {<<call[p].id, result>>}
-----------------------------------------------------------------------------
(* Calls, whichever store they are about.                                  *)

\* A claimer without a call has not written.
LEMMA NoCallFacts == NoCall \in Call /\ NoCall.pc = "idle" /\ ~NoCall.wrote
BY DEF NoCall, Call

\* A step of one call keeps the calls well formed.
LEMMA CallStep ==
  ASSUME CallsOK, NEW p \in Claimers, NEW c \in Call,
         c.pc # "idle" => c.id \in Clusters,
         call' = [call EXCEPT ![p] = c],
         reported' \subseteq Clusters \X Results, faults' \in 0..MaxFaults
  PROVE  /\ CallsOK' /\ call'[p] = c
         /\ \A q \in Claimers \ {p} : call'[q] = call[q]
BY DEF CallsOK

\* A step of none does too.
LEMMA NoCallStep ==
  ASSUME CallsOK, call' = call, reported' = reported, faults' \in 0..MaxFaults
  PROVE  CallsOK'
BY DEF CallsOK

\* What ends a call tells its cluster, or nobody, of its claim.
LEMMA ReturnedStep ==
  ASSUME CallsOK, NEW p \in Claimers, call[p].pc # "idle", NEW result \in Results,
         Returned(p, result), faults' \in 0..MaxFaults
  PROVE  /\ CallsOK' /\ call'[p] = NoCall /\ call[p].id \in Clusters
         /\ \A q \in Claimers \ {p} : call'[q] = call[q]
         /\ Told' = IF result = "claimed" THEN Told \cup {call[p].id} ELSE Told
         /\ \A k, x : <<k, x>> \in reported' =>
              <<k, x>> \in reported \/ (k = call[p].id /\ x = result)
<1>1. call[p].id \in Clusters
  BY DEF CallsOK
<1>2. reported' \subseteq Clusters \X Results
  BY <1>1 DEF CallsOK, Returned
<1>3. /\ CallsOK' /\ call'[p] = NoCall
      /\ \A q \in Claimers \ {p} : call'[q] = call[q]
  BY <1>2, NoCallFacts, CallStep, Zenon DEF Returned
<1>4. /\ \A k, x : <<k, x>> \in reported' =>
           <<k, x>> \in reported \/ (k = call[p].id /\ x = result)
  BY DEF Returned
<1>5. Told' = IF result = "claimed" THEN Told \cup {call[p].id} ELSE Told
  BY <1>1 DEF Returned, Told
<1>6. QED BY <1>1, <1>3, <1>4, <1>5

\* A fault keeps within its bound.
LEMMA FaultStep ==
  ASSUME faults \in 0..MaxFaults
  PROVE  /\ (faults < MaxFaults /\ faults' = faults + 1) \/ faults' = faults =>
              faults' \in 0..MaxFaults
BY ValuesAssumption
-----------------------------------------------------------------------------
(* Vault.  A record, once it exists, keeps its owner; only its owner was    *)
(* told, and only a deleted record was called corrupt.                     *)

VaultInv ==
  /\ CallsOK
  /\ kv \in Vault!Record \cup {Nil}
  /\ Told \subseteq (IF kv = Nil THEN {} ELSE {kv.owner})
  /\ \A p \in Claimers : call[p].pc = "reread" => kv # Nil
  /\ (\E k \in Clusters : <<k, "corrupt">> \in reported) => kv # Nil /\ kv.deleted

VaultOwner == IF kv = Nil THEN Nil ELSE kv.owner

\* The owner of a record is a cluster.
LEMMA RecordFacts ==
  ASSUME NEW r \in Vault!Record
  PROVE  r # Nil /\ r.owner \in Clusters /\ r.deleted \in BOOLEAN
BY ValuesAssumption DEF Vault!Record

\* A read that ends the call with what it has found.
LEMMA VaultReturn ==
  ASSUME VaultInv, NEW p \in Claimers, call[p].pc # "idle", NEW result \in Results,
         Returned(p, result), faults' \in 0..MaxFaults, kv' = kv,
         result = "claimed" => kv # Nil /\ kv.owner = call[p].id,
         result = "corrupt" => kv # Nil /\ kv.deleted
  PROVE  VaultInv' /\ OwnerStep(VaultOwner, VaultOwner', Told, Told')
<1>1. /\ CallsOK' /\ call'[p] = NoCall /\ call[p].id \in Clusters
      /\ \A q \in Claimers \ {p} : call'[q] = call[q]
      /\ Told' = IF result = "claimed" THEN Told \cup {call[p].id} ELSE Told
      /\ \A k, x : <<k, x>> \in reported' =>
           <<k, x>> \in reported \/ (k = call[p].id /\ x = result)
  BY ReturnedStep DEF VaultInv
<1>2. Told' \subseteq (IF kv = Nil THEN {} ELSE {kv.owner})
  BY <1>1 DEF VaultInv
<1>3. \A q \in Claimers : call'[q].pc = "reread" => kv # Nil
  BY <1>1, NoCallFacts DEF VaultInv
<1>4. (\E k \in Clusters : <<k, "corrupt">> \in reported') => kv # Nil /\ kv.deleted
  BY <1>1 DEF VaultInv
<1>5. VaultInv'
  BY <1>1, <1>2, <1>3, <1>4 DEF VaultInv
<1>6. OwnerStep(VaultOwner, VaultOwner', Told, Told')
  BY <1>1 DEF OwnerStep, VaultOwner
<1>7. QED BY <1>5, <1>6

\* A step of a call that goes on.
LEMMA VaultMove ==
  ASSUME VaultInv, NEW p \in Claimers, NEW c \in Call, c.id \in Clusters \/ c.pc = "idle",
         call' = [call EXCEPT ![p] = c], reported' = reported, faults' \in 0..MaxFaults,
         kv' = kv \/ (kv = Nil /\ kv' \in Vault!Record),
         c.pc = "reread" => kv' # Nil
  PROVE  VaultInv' /\ OwnerStep(VaultOwner, VaultOwner', Told, Told')
<1>1. /\ CallsOK' /\ call'[p] = c
      /\ \A q \in Claimers \ {p} : call'[q] = call[q]
  BY CallStep DEF VaultInv, CallsOK
<1>2. Told' = Told
  BY DEF Told
<1>3. kv = Nil => Told = {}
  BY DEF VaultInv
<1>4. kv' \in Vault!Record \cup {Nil}
  BY DEF VaultInv
<1>5. kv # Nil => kv' = kv
  OBVIOUS
<1>6. \A q \in Claimers : call'[q].pc = "reread" => kv' # Nil
  BY <1>1, <1>5 DEF VaultInv
<1>7. Told' \subseteq (IF kv' = Nil THEN {} ELSE {kv'.owner})
  BY <1>2, <1>3, <1>5 DEF VaultInv
<1>8. (\E k \in Clusters : <<k, "corrupt">> \in reported') => kv' # Nil /\ kv'.deleted
  BY <1>5 DEF VaultInv
<1>9. VaultInv'
  BY <1>1, <1>4, <1>6, <1>7, <1>8 DEF VaultInv
<1>10. OwnerStep(VaultOwner, VaultOwner', Told, Told')
  BY <1>2, RecordFacts DEF OwnerStep, VaultOwner
<1>11. QED BY <1>9, <1>10

\* Every step of Vault's ClaimCluster keeps the invariant and is a step of the
\* promise.
LEMMA VaultStep ==
  ASSUME VaultInv, Vault!Next
  PROVE  VaultInv' /\ OwnerStep(VaultOwner, VaultOwner', Told, Told')
<1>0. /\ CallsOK /\ faults \in 0..MaxFaults /\ kv \in Vault!Record \cup {Nil}
      /\ call \in [Claimers -> Call]
  BY DEF VaultInv, CallsOK
<1>1. ASSUME NEW p \in Claimers, NEW result \in Results, Vault!Return(p, result)
      PROVE  Returned(p, result)
  BY <1>1 DEF Vault!Return, Returned, Vault!NoCall, NoCall
<1>2. ASSUME NEW p \in Claimers, NEW pc \in {"read", "metadata", "reread", "write"},
             Vault!Goto(p, pc), call[p].pc # "idle", faults' = faults, kv' = kv,
             pc = "reread" => kv # Nil
      PROVE  VaultInv' /\ OwnerStep(VaultOwner, VaultOwner', Told, Told')
  <2> DEFINE c == [call[p] EXCEPT !.pc = pc]
  <2>1. call[p] \in Call /\ call[p].id \in Clusters
    BY <1>0, <1>2 DEF CallsOK
  <2>2. c \in Call /\ c.pc = pc /\ c.id = call[p].id
    BY <2>1 DEF Call
  <2>3. call' = [call EXCEPT ![p] = c] /\ reported' = reported
    BY <1>2 DEF Vault!Goto
  <2> HIDE DEF c
  <2>4. QED BY <1>0, <1>2, <2>1, <2>2, <2>3, VaultMove, Zenon
<1>3. ASSUME NEW p \in Claimers, call[p].pc # "idle", kv # Nil, Vault!Parse(p),
             faults' = faults, kv' = kv
      PROVE  VaultInv' /\ OwnerStep(VaultOwner, VaultOwner', Told, Told')
  <2>1. CASE kv.deleted
    BY <1>0, <1>1, <1>3, <2>1, VaultReturn DEF Vault!Parse, Results
  <2>2. CASE ~kv.deleted
    <3>1. PICK result \in {"claimed", "mismatch"} :
            /\ Vault!Return(p, result)
            /\ result = "claimed" => kv.owner = call[p].id
      BY <1>3, <2>2 DEF Vault!Parse, Vault!requireClaimOwner
    <3>2. QED BY <1>0, <1>1, <1>3, <3>1, VaultReturn DEF Results
  <2>3. QED BY <2>1, <2>2
<1>4. ASSUME NEW p \in Claimers, Vault!ReadData(p) \/ Vault!ReadAgain(p)
      PROVE  VaultInv' /\ OwnerStep(VaultOwner, VaultOwner', Told, Told')
  <2>1. call[p].pc \in {"read", "reread"} /\ faults' = faults /\ kv' = kv
    BY <1>4 DEF Vault!ReadData, Vault!ReadAgain
  <2>2. CASE kv # Nil
    BY <1>3, <1>4, <2>1, <2>2 DEF Vault!ReadData, Vault!ReadAgain
  <2>3. CASE kv = Nil
    <3>1. Vault!ReadData(p) /\ Vault!Goto(p, "metadata")
      BY <1>4, <2>3 DEF Vault!ReadData, Vault!ReadAgain, VaultInv
    <3>2. QED BY <1>2, <2>1, <3>1
  <2>4. QED BY <2>2, <2>3
<1>5. ASSUME NEW p \in Claimers, Vault!ReadMetadata(p)
      PROVE  VaultInv' /\ OwnerStep(VaultOwner, VaultOwner', Told, Told')
  <2>1. call[p].pc = "metadata" /\ faults' = faults /\ kv' = kv
    BY <1>5 DEF Vault!ReadMetadata
  <2>2. CASE Vault!Return(p, "unclaimed")
    BY <1>0, <1>1, <2>1, <2>2, VaultReturn DEF Results
  <2>3. CASE Vault!Goto(p, "write") \/ (kv # Nil /\ Vault!Goto(p, "reread"))
    BY <1>2, <2>1, <2>3
  <2>4. QED BY <1>5, <2>2, <2>3 DEF Vault!ReadMetadata, Vault!Unclaimed
<1>6. ASSUME NEW p \in Claimers, Vault!ReadFails(p)
      PROVE  VaultInv' /\ OwnerStep(VaultOwner, VaultOwner', Told, Told')
  <2>1. /\ call[p].pc # "idle" /\ kv' = kv /\ Vault!Return(p, "unreadable")
        /\ faults < MaxFaults /\ faults' = faults + 1
    BY <1>6 DEF Vault!ReadFails, Vault!Fault
  <2>2. faults' \in 0..MaxFaults
    BY <1>0, <2>1, FaultStep
  <2>3. QED BY <1>1, <2>1, <2>2, VaultReturn DEF Results
<1>7. ASSUME NEW p \in Claimers, Vault!Write(p) \/ Vault!WriteFails(p)
      PROVE  VaultInv' /\ OwnerStep(VaultOwner, VaultOwner', Told, Told')
  <2> DEFINE c == [call[p] EXCEPT !.pc = "read", !.wrote = TRUE]
  <2>1. /\ call[p].pc = "write" /\ reported' = reported
        /\ call' = [call EXCEPT ![p].pc = "read", ![p].wrote = TRUE]
        /\ (faults < MaxFaults /\ faults' = faults + 1) \/ faults' = faults
        /\ kv' = kv \/ (kv = Nil /\ kv' = [owner |-> call[p].id, deleted |-> FALSE])
    BY <1>7 DEF Vault!Write, Vault!WriteFails, Vault!Fault
  <2>2. call[p] \in Call /\ call[p].id \in Clusters
    BY <1>0, <2>1 DEF CallsOK
  <2>3. c \in Call /\ c.pc = "read" /\ c.id = call[p].id
    BY <2>2, Zenon DEF Call
  <2>4. call' = [call EXCEPT ![p] = c]
    BY <1>0, <2>1, Zenon DEF Call
  <2>5. [owner |-> call[p].id, deleted |-> FALSE] \in Vault!Record
    BY <2>2 DEF Vault!Record
  <2>6. faults' \in 0..MaxFaults
    BY <1>0, <2>1, FaultStep
  <2> HIDE DEF c
  <2>7. QED BY <2>1, <2>2, <2>3, <2>4, <2>5, <2>6, VaultMove, Zenon
<1>8. ASSUME NEW p \in Claimers, NEW c \in Call, c.id \in Clusters \/ c.pc = "idle",
             c.pc # "reread", call' = [call EXCEPT ![p] = c], reported' = reported, kv' = kv,
             (faults < MaxFaults /\ faults' = faults + 1) \/ faults' = faults
      PROVE  VaultInv' /\ OwnerStep(VaultOwner, VaultOwner', Told, Told')
  <2>1. faults' \in 0..MaxFaults
    BY <1>0, <1>8, FaultStep
  <2>2. QED BY <1>8, <2>1, VaultMove, Zenon
<1>9. ASSUME NEW p \in Claimers, NEW k \in Clusters, Vault!Begin(p, k), kv' = kv
      PROVE  VaultInv' /\ OwnerStep(VaultOwner, VaultOwner', Told, Told')
  <2> DEFINE c == [NoCall EXCEPT !.pc = "read", !.id = k]
  <2>1. c \in Call /\ c.pc = "read" /\ c.id = k
    BY Zenon DEF NoCall, Call
  <2>2. call' = [call EXCEPT ![p] = c] /\ reported' = reported /\ faults' = faults
    BY <1>9 DEF Vault!Begin, Vault!NoCall, NoCall
  <2> HIDE DEF c
  <2>3. QED BY <1>8, <1>9, <2>1, <2>2, Zenon
<1>10. ASSUME NEW p \in Claimers, Vault!Crash(p), kv' = kv
       PROVE  VaultInv' /\ OwnerStep(VaultOwner, VaultOwner', Told, Told')
  BY <1>8, <1>10, NoCallFacts, Zenon DEF Vault!Crash, Vault!Fault, Vault!NoCall, NoCall
<1>11. CASE Vault!Delete
  <2>1. /\ kv # Nil /\ call' = call /\ reported' = reported
        /\ faults < MaxFaults /\ faults' = faults + 1
        /\ kv' = [kv EXCEPT !.deleted = TRUE]
    BY <1>11 DEF Vault!Delete, Vault!Fault
  <2>2. kv' \in Vault!Record /\ kv'.owner = kv.owner /\ kv'.deleted
    BY <1>0, <2>1, Zenon DEF Vault!Record
  <2>3. kv' # Nil /\ kv.owner \in Clusters
    BY <1>0, <2>1, <2>2, RecordFacts, Zenon
  <2>4. faults' \in 0..MaxFaults
    BY <1>0, <2>1, FaultStep
  <2>5. CallsOK' /\ Told' = Told
    BY <1>0, <2>1, <2>4, NoCallStep DEF Told
  <2>6. VaultInv'
    BY <2>1, <2>2, <2>3, <2>5 DEF VaultInv
  <2>7. QED BY <2>1, <2>2, <2>3, <2>5, <2>6 DEF OwnerStep, VaultOwner
<1>12. QED BY <1>4, <1>5, <1>6, <1>7, <1>9, <1>10, <1>11 DEF Vault!Next
-----------------------------------------------------------------------------
(* The labels and tags of the cloud, where claims are serialized.  A reader *)
(* sees the claim, or nothing yet; and while it may see nothing the cluster *)
(* that claims is the one that owns the key.                               *)

SoundCall(c) ==
  c.pc # "idle" => /\ c.id \in Clusters
                   /\ before # claim => claim = c.id
                   /\ c.pc = "write" => claim \in {Nil, c.id}
                   /\ c.wrote => claim = c.id

\* An unrelated label is edited at most once per fault, and copies are of old ones.
LabelsOK ==
  /\ other \in Nat /\ other <= faults
  /\ copy \in [Claimers -> Nat] /\ \A p \in Claimers : copy[p] <= faults

CloudInv ==
  /\ CallsOK /\ LabelsOK
  /\ claim \in Clusters \cup {Nil} /\ before \in {claim, Nil}
  /\ Told \subseteq {claim}
  /\ \A p \in Claimers : SoundCall(call[p])
  /\ \A p, q \in Claimers : call[p].pc # "idle" /\ call[q].pc # "idle" => p = q

\* A step of the one call there is.
LEMMA CloudCall ==
  ASSUME CloudInv, LabelsOK', NEW p \in Claimers, NEW c \in Call,
         \A q \in Claimers \ {p} : call[q].pc = "idle",
         call' = [call EXCEPT ![p] = c], c.pc # "idle" => c.id \in Clusters,
         SoundCall(c)', reported' \subseteq Clusters \X Results, faults' \in 0..MaxFaults,
         claim' \in Clusters \cup {Nil}, before' \in {claim', Nil}, Told' \subseteq {claim'}
  PROVE  CloudInv'
<1>1. /\ CallsOK' /\ call'[p] = c
      /\ \A q \in Claimers \ {p} : call'[q].pc = "idle"
  BY CallStep, ZenonT(30) DEF CloudInv
<1>2. ASSUME NEW q \in Claimers
      PROVE  SoundCall(call[q])'
  <2>1. CASE q = p
    BY <1>1, <2>1 DEF SoundCall
  <2>2. CASE q # p
    BY <1>1, <2>2 DEF SoundCall
  <2>3. QED BY <2>1, <2>2
<1>3. QED BY <1>1, <1>2 DEF CloudInv

\* A fault leaves the labels within their bound, and so does a copy of them.
LEMMA LabelsStep ==
  ASSUME LabelsOK, faults \in Nat, faults' \in {faults, faults + 1}, NEW p \in Claimers,
         \/ other' = other /\ (copy' = copy \/ copy' = [copy EXCEPT ![p] = other])
         \/ other' = copy[p] /\ copy' = copy
         \/ other' = other + 1 /\ copy' = copy /\ faults' = faults + 1
  PROVE  LabelsOK'
<1>1. faults <= faults'
  OBVIOUS
<1>2. /\ other \in Nat /\ other <= faults
      /\ copy \in [Claimers -> Nat] /\ \A q \in Claimers : copy[q] \in Nat /\ copy[q] <= faults
  BY DEF LabelsOK
<1>3. other' \in Nat /\ other' <= faults'
  BY <1>1, <1>2
<1>4. copy' \in [Claimers -> Nat]
  BY <1>2
<1>5. \A q \in Claimers : copy'[q] \in {copy[q], other}
  BY <1>2
<1>6. \A q \in Claimers : copy'[q] <= faults'
  BY <1>1, <1>2, <1>5
<1>7. QED BY <1>3, <1>4, <1>6 DEF LabelsOK

\* A call ends, whether or not its write had an effect.
LEMMA CloudReturn ==
  ASSUME CloudInv, NEW p \in Claimers, call[p].pc # "idle", NEW result \in Results,
         Returned(p, result), faults' \in 0..MaxFaults, LabelsOK',
         \/ claim' = claim /\ before' = before
         \/ /\ call[p].pc = "write" /\ result # "claimed"
            /\ claim' = call[p].id /\ before' = claim,
         result = "claimed" => claim = call[p].id
  PROVE  CloudInv' /\ OwnerStep(claim, claim', Told, Told')
<1>1. /\ CallsOK' /\ call[p].id \in Clusters
      /\ Told' = IF result = "claimed" THEN Told \cup {call[p].id} ELSE Told
  BY ReturnedStep DEF CloudInv
<1>2. SoundCall(call[p]) /\ Told \subseteq {claim} /\ Told \subseteq Clusters
  BY DEF CloudInv, Told
<1>3. claim' \in Clusters \cup {Nil} /\ before' \in {claim', Nil}
  BY <1>1, <1>2 DEF CloudInv, SoundCall
<1>4. claim # Nil => claim' = claim
  BY <1>2 DEF SoundCall
<1>5. Told' \subseteq {claim'}
  BY <1>1, <1>2, <1>4, ValuesAssumption
<1>6. \A q \in Claimers \ {p} : call[q].pc = "idle"
  BY DEF CloudInv
<1>7. SoundCall(NoCall)'
  BY NoCallFacts DEF SoundCall
<1>8. reported' \subseteq Clusters \X Results
  BY <1>1 DEF CallsOK
<1>9. CloudInv'
  BY <1>3, <1>5, <1>6, <1>7, <1>8, NoCallFacts, CloudCall, Zenon DEF Returned
<1>10. OwnerStep(claim, claim', Told, Told')
  BY <1>1, <1>2, <1>4 DEF OwnerStep
<1>11. QED BY <1>9, <1>10

\* A call goes on, having written or not.
LEMMA CloudMove ==
  ASSUME CloudInv, NEW p \in Claimers, call[p].pc # "idle", NEW c \in Call,
         call' = [call EXCEPT ![p] = c], reported' = reported, faults' = faults,
         LabelsOK', c.pc # "idle", c.id = call[p].id,
         \/ /\ claim' = claim /\ before' = before /\ (c.wrote <=> call[p].wrote)
            /\ c.pc = "write" => before = Nil \/ claim = Nil
         \/ /\ call[p].pc = "write" /\ claim' = call[p].id /\ before' = claim
            /\ c.pc = "read"
  PROVE  CloudInv' /\ OwnerStep(claim, claim', Told, Told')
<1>1. SoundCall(call[p]) /\ Told \subseteq {claim} /\ Told' = Told /\ Told \subseteq Clusters
  BY DEF CloudInv, Told
<1>2. call[p].id \in Clusters /\ claim \in Clusters \cup {Nil} /\ before \in {claim, Nil}
  BY <1>1 DEF CloudInv, SoundCall
<1>3. claim' \in Clusters \cup {Nil} /\ before' \in {claim', Nil}
  BY <1>1, <1>2 DEF SoundCall
<1>4. claim # Nil => claim' = claim
  BY <1>1 DEF SoundCall
<1>5. Told' \subseteq {claim'}
  BY <1>1, <1>4, ValuesAssumption
<1>6. SoundCall(c)'
  BY <1>1, <1>2 DEF SoundCall
<1>7. \A q \in Claimers \ {p} : call[q].pc = "idle"
  BY DEF CloudInv
<1>8. reported' \subseteq Clusters \X Results /\ faults' \in 0..MaxFaults
  BY DEF CloudInv, CallsOK
<1>9. CloudInv'
  BY <1>2, <1>3, <1>5, <1>6, <1>7, <1>8, CloudCall, Zenon
<1>10. OwnerStep(claim, claim', Told, Told')
  BY <1>1, <1>2, <1>4 DEF OwnerStep
<1>11. QED BY <1>9, <1>10

\* Every step of ClaimCluster for a label or a tag keeps the invariant and is a
\* step of the promise.
LEMMA CloudStep ==
  ASSUME CloudInv, GCP!Next \/ AWS!Next
  PROVE  CloudInv' /\ OwnerStep(claim, claim', Told, Told')
<1>0. /\ CallsOK /\ LabelsOK /\ faults \in 0..MaxFaults /\ faults \in Nat
      /\ call \in [Claimers -> Call] /\ before \in {claim, Nil}
  BY DEF CloudInv, CallsOK
<1> DEFINE Fault == faults < MaxFaults /\ faults' = faults + 1
           Good == CloudInv' /\ OwnerStep(claim, claim', Told, Told')
<1>1. ASSUME Fault \/ faults' = faults
      PROVE  faults' \in 0..MaxFaults /\ faults' \in {faults, faults + 1}
  BY <1>0, <1>1, FaultStep
<1>2. ASSUME NEW p \in Claimers, call[p].pc # "idle"
      PROVE  call[p] \in Call /\ call[p].id \in Clusters
  BY <1>0, <1>2 DEF CallsOK
<1> HIDE DEF Good
<1>3. ASSUME NEW p \in Claimers, GCP!Read(p) \/ AWS!Read(p)
      PROVE  Good
  <2>1. /\ call[p].pc = "read" /\ claim' = claim /\ before' = before
        /\ other' = other /\ copy' = [copy EXCEPT ![p] = other]
        /\ Fault \/ faults' = faults
    BY <1>3 DEF GCP!Read, AWS!Read, GCP!Fault, AWS!Fault
  <2>2. LabelsOK' /\ faults' \in 0..MaxFaults
    BY <1>0, <1>1, <2>1, LabelsStep, Zenon
  <2>3. \/ Returned(p, "unreadable")
        \/ \E seen \in {claim, before} :
             /\ seen = Nil /\ faults' = faults /\ reported' = reported
             /\ call' = [call EXCEPT ![p].pc = "write"]
        \/ \E seen \in {claim, before} :
             seen # Nil /\ Returned(p, IF seen = call[p].id THEN "claimed" ELSE "mismatch")
    BY <1>3 DEF GCP!Read, AWS!Read, GCP!Readable, AWS!Readable, GCP!Goto, AWS!Goto,
                GCP!requireClaimOwner, AWS!requireClaimOwner, GCP!Return, AWS!Return,
                GCP!NoCall, AWS!NoCall, NoCall, Returned
  <2>4. CASE Returned(p, "unreadable")
    BY <2>1, <2>2, <2>4, CloudReturn DEF Results, Good
  <2>5. CASE Nil \in {claim, before} /\ faults' = faults /\ reported' = reported
             /\ call' = [call EXCEPT ![p].pc = "write"]
    <3> DEFINE c == [call[p] EXCEPT !.pc = "write"]
    <3>1. c \in Call /\ c.pc = "write" /\ c.id = call[p].id /\ (c.wrote <=> call[p].wrote)
      BY <1>2, <2>1 DEF Call
    <3>2. call' = [call EXCEPT ![p] = c]
      BY <2>5
    <3> HIDE DEF c
    <3>3. QED BY <2>1, <2>2, <2>5, <3>1, <3>2, CloudMove, Zenon DEF Good
  <2>6. ASSUME NEW seen \in {claim, before}, seen # Nil,
               Returned(p, IF seen = call[p].id THEN "claimed" ELSE "mismatch")
        PROVE  Good
    <3>1. PICK result \in {"claimed", "mismatch"} :
            Returned(p, result) /\ (result = "claimed" => seen = call[p].id)
      BY <2>6
    <3>2. seen = claim
      BY <1>0, <2>6
    <3>3. QED BY <2>1, <2>2, <3>1, <3>2, CloudReturn DEF Results, Good
  <2>7. QED BY <2>3, <2>4, <2>5, <2>6
<1>4. ASSUME NEW p \in Claimers, GCP!Write(p) \/ AWS!Write(p)
      PROVE  Good
  <2>1. /\ call[p].pc = "write" /\ copy' = copy /\ other' \in {other, copy[p]}
        /\ Fault \/ faults' = faults
        /\ (claim' = claim /\ before' = before /\ Fault)
             \/ (claim' = call[p].id /\ before' = claim)
    BY <1>4 DEF GCP!Write, AWS!Write, GCP!Fault, AWS!Fault, GCP!cloudVars, AWS!cloudVars
  <2>2. \/ Returned(p, "unreadable")
        \/ /\ faults' = faults /\ reported' = reported
           /\ call' = [call EXCEPT ![p].pc = "read", ![p].wrote = TRUE]
    BY <1>4 DEF GCP!Write, AWS!Write, GCP!Return, AWS!Return, GCP!NoCall, AWS!NoCall,
                NoCall, Returned
  <2>3. LabelsOK' /\ faults' \in 0..MaxFaults
    BY <1>0, <1>1, <2>1, LabelsStep
  <2>4. CASE Returned(p, "unreadable")
    BY <2>1, <2>3, <2>4, CloudReturn DEF Results, Good
  <2>5. CASE faults' = faults /\ reported' = reported
             /\ call' = [call EXCEPT ![p].pc = "read", ![p].wrote = TRUE]
    <3> DEFINE c == [call[p] EXCEPT !.pc = "read", !.wrote = TRUE]
    <3>1. c \in Call /\ c.pc = "read" /\ c.id = call[p].id
      BY <1>2, <2>1, Zenon DEF Call
    <3>2. call' = [call EXCEPT ![p] = c]
      BY <1>0, <2>5, Zenon DEF Call
    <3>3. faults' # faults + 1
      BY <1>0, <2>5
    <3>4. claim' = call[p].id /\ before' = claim
      BY <2>1, <3>3
    <3> HIDE DEF c
    <3>5. QED BY <2>1, <2>3, <2>5, <3>1, <3>2, <3>4, CloudMove, Zenon DEF Good
  <2>6. QED BY <2>2, <2>4, <2>5
<1>5. ASSUME NEW p \in Claimers, GCP!ReadBack(p) \/ AWS!ReadBack(p)
      PROVE  Good
  <2>1. /\ call[p].pc = "read" /\ claim' = claim /\ before' = before
        /\ other' = other /\ copy' = copy /\ (Fault \/ faults' = faults)
    BY <1>5 DEF GCP!ReadBack, AWS!ReadBack, GCP!Fault, AWS!Fault, GCP!cloudVars,
                AWS!cloudVars
  <2>2. \/ Returned(p, "unreadable") \/ Returned(p, "unclaimed")
        \/ /\ faults' = faults /\ reported' = reported
           /\ call' = [call EXCEPT ![p].tries = @ + 1]
        \/ \E seen \in {claim, before} :
             seen # Nil /\ Returned(p, IF seen = call[p].id THEN "claimed" ELSE "mismatch")
    BY <1>5 DEF GCP!ReadBack, AWS!ReadBack, GCP!Readable, AWS!Readable,
                GCP!requireClaimOwner, AWS!requireClaimOwner, GCP!Return, AWS!Return,
                GCP!NoCall, AWS!NoCall, NoCall, Returned
  <2>3. LabelsOK' /\ faults' \in 0..MaxFaults
    BY <1>0, <1>1, <2>1, LabelsStep
  <2>4. CASE Returned(p, "unreadable") \/ Returned(p, "unclaimed")
    BY <2>1, <2>3, <2>4, CloudReturn DEF Results, Good
  <2>5. CASE faults' = faults /\ reported' = reported
             /\ call' = [call EXCEPT ![p].tries = @ + 1]
    <3> DEFINE c == [call[p] EXCEPT !.tries = @ + 1]
    <3>1. c \in Call /\ c.pc = "read" /\ c.id = call[p].id /\ (c.wrote <=> call[p].wrote)
      BY <1>2, <2>1 DEF Call
    <3>2. call' = [call EXCEPT ![p] = c]
      BY <2>5
    <3> HIDE DEF c
    <3>3. QED BY <2>1, <2>3, <2>5, <3>1, <3>2, CloudMove, Zenon DEF Good
  <2>6. ASSUME NEW seen \in {claim, before}, seen # Nil,
               Returned(p, IF seen = call[p].id THEN "claimed" ELSE "mismatch")
        PROVE  Good
    <3>1. PICK result \in {"claimed", "mismatch"} :
            Returned(p, result) /\ (result = "claimed" => seen = call[p].id)
      BY <2>6
    <3>2. seen = claim
      BY <1>0, <2>6
    <3>3. QED BY <2>1, <2>3, <3>1, <3>2, CloudReturn DEF Results, Good
  <2>7. QED BY <2>2, <2>4, <2>5, <2>6
<1>6. ASSUME NEW p \in Claimers, NEW c \in Call, SoundCall(c)', c.pc # "idle" => c.id \in Clusters,
             \A q \in Claimers \ {p} : call[q].pc = "idle",
             call' = [call EXCEPT ![p] = c], reported' = reported,
             Fault \/ faults' = faults, claim' = claim, before' = before,
             other' = other, copy' = copy
      PROVE  Good
  <2>1. LabelsOK' /\ faults' \in 0..MaxFaults
    BY <1>0, <1>1, <1>6, LabelsStep
  <2>2. Told' = Told
    BY <1>6 DEF Told
  <2>3. CloudInv'
    BY <1>6, <2>1, <2>2, CloudCall, Zenon DEF CloudInv, CallsOK
  <2>4. QED BY <1>6, <2>2, <2>3 DEF OwnerStep, Good
<1>7. ASSUME NEW p \in Claimers, NEW k \in Clusters,
             (GCP!MayBegin(k) /\ GCP!Begin(p, k)) \/ (AWS!MayBegin(k) /\ AWS!Begin(p, k)),
             claim' = claim, before' = before, other' = other, copy' = copy
      PROVE  Good
  <2> DEFINE c == [NoCall EXCEPT !.pc = "read", !.id = k]
  <2>1. c \in Call /\ c.pc = "read" /\ c.id = k /\ ~c.wrote
    BY Zenon DEF NoCall, Call
  <2>2. call' = [call EXCEPT ![p] = c] /\ reported' = reported /\ faults' = faults
    BY <1>7 DEF GCP!Begin, AWS!Begin, GCP!NoCall, AWS!NoCall, NoCall
  <2>3. /\ \A q \in Claimers : call[q].pc = "idle"
        /\ before # claim => claim = k
    BY <1>7 DEF GCP!MayBegin, AWS!MayBegin
  <2> HIDE DEF c
  <2>4. SoundCall(c)'
    BY <1>7, <2>1, <2>3 DEF SoundCall
  <2>5. QED BY <1>6, <1>7, <2>1, <2>2, <2>3, <2>4, Zenon
<1>8. ASSUME NEW p \in Claimers, GCP!Crash(p) \/ AWS!Crash(p),
             claim' = claim, before' = before, other' = other, copy' = copy
      PROVE  Good
  <2>1. /\ call[p].pc # "idle" /\ call' = [call EXCEPT ![p] = NoCall]
        /\ Fault /\ reported' = reported
    BY <1>8 DEF GCP!Crash, AWS!Crash, GCP!Fault, AWS!Fault, GCP!NoCall, AWS!NoCall, NoCall
  <2>2. \A q \in Claimers \ {p} : call[q].pc = "idle"
    BY <2>1 DEF CloudInv
  <2>3. SoundCall(NoCall)'
    BY NoCallFacts DEF SoundCall
  <2>4. QED BY <1>6, <1>8, <2>1, <2>2, <2>3, NoCallFacts, Zenon
<1>9. ASSUME call' = call, reported' = reported, Fault \/ faults' = faults, LabelsOK',
             claim' = claim, before' \in {before, claim}
      PROVE  Good
  <2>1. CallsOK' /\ Told' = Told
    BY <1>0, <1>1, <1>9, NoCallStep DEF Told
  <2>2. \A p \in Claimers : SoundCall(call[p])'
    BY <1>9 DEF CloudInv, SoundCall
  <2>3. CloudInv'
    BY <1>9, <2>1, <2>2 DEF CloudInv
  <2>4. QED BY <1>9, <2>1, <2>3 DEF OwnerStep, Good
<1>10. CASE GCP!Settle \/ AWS!Settle
  <2>1. /\ call' = call /\ reported' = reported /\ faults' = faults /\ claim' = claim
        /\ before' = claim /\ other' = other /\ copy' = copy
    BY <1>10 DEF GCP!Settle, AWS!Settle, GCP!callVars, AWS!callVars
  <2>2. LabelsOK'
    BY <1>0, <2>1 DEF LabelsOK
  <2>3. QED BY <1>9, <2>1, <2>2 DEF Good
<1>11. CASE GCP!EditOther \/ AWS!EditOther
  <2>1. /\ call' = call /\ reported' = reported /\ Fault /\ claim' = claim
        /\ before' = before /\ other' = other + 1 /\ copy' = copy
    BY <1>11 DEF GCP!EditOther, AWS!EditOther, GCP!Fault, AWS!Fault
  <2>2. LabelsOK'
    BY <1>0, <2>1 DEF LabelsOK
  <2>3. QED BY <1>9, <2>1, <2>2 DEF Good
<1>12. ASSUME NEW p \in Claimers
       PROVE  /\ \A k \in Clusters :
                   /\ GCP!MayBegin(k) /\ GCP!Begin(p, k) /\ UNCHANGED GCP!cloudVars => Good
                   /\ AWS!MayBegin(k) /\ AWS!Begin(p, k) /\ UNCHANGED AWS!cloudVars => Good
              /\ GCP!Crash(p) /\ UNCHANGED GCP!cloudVars => Good
              /\ AWS!Crash(p) /\ UNCHANGED AWS!cloudVars => Good
  BY <1>7, <1>8 DEF GCP!cloudVars, AWS!cloudVars
<1>13. Good
  BY <1>3, <1>4, <1>5, <1>10, <1>11, <1>12 DEF GCP!Next, AWS!Next, Good
<1>14. QED BY <1>13 DEF Good
-----------------------------------------------------------------------------
(* The marker file.  What is in place was synced before it was linked, so    *)
(* that a power loss keeps the whole marker or none; a claim reports one     *)
(* that is durable; and a claim and a provision that matter to one another   *)
(* hold the same lock.                                                      *)

LockOf(p, s) == IF p \in Relocating /\ s.op = "claim" THEN "marker" ELSE "key"

SoundClaim(p, s) ==
  /\ s.pc \in {"lock", "precheck", "read", "publish", "temp", "link", "sync", "done"}
  /\ s.id \in Clusters /\ s.key \in Keys
  /\ s.pc = "link" => s.synced
  /\ s.pc \in {"publish", "sync", "done"} =>
       disk.marker # Nil /\ disk.marker.cluster = s.owner
  /\ s.pc = "done" => durable.marker = disk.marker
  /\ p \notin Relocating /\ s.pc \notin {"lock", "precheck"} => disk.key = s.key
  /\ p \notin Relocating /\ s.pc = "done" => durable.key = disk.key

SoundProvision(s) ==
  /\ s.pc \in {"lock", "inspect", "temp", "rename", "sync", "done"} /\ s.key \in Keys
  /\ s.pc \in {"temp", "rename"} => \A r \in reported : r[3] # "key"

SoundProc(p, s) ==
  /\ s.op = "none" <=> s.pc = "idle"
  /\ s.op = "claim" => SoundClaim(p, s)
  /\ s.op = "provision" => SoundProvision(s)
  /\ s.pc \notin {"idle", "lock"} => lock[LockOf(p, s)] = p

SoundDisk ==
  /\ disk.marker # Nil => disk.marker \in File!Marker /\ disk.marker.synced
  /\ durable.marker \in {Nil, disk.marker}
  /\ \A r \in reported :
       /\ durable.marker # Nil /\ durable.marker.cluster = r[1]
       /\ r[3] = "key" => disk.key = r[2] /\ durable.key = r[2]

FileInv ==
  /\ File!TypeOK /\ SoundDisk
  /\ \A p \in Procs : SoundProc(p, proc[p])

\* The marker in place is no torn one, and names a cluster.
LEMMA MarkerFacts ==
  ASSUME FileInv
  PROVE  /\ disk.marker # Torn /\ durable.marker # Torn
         /\ disk.marker # Nil => disk.marker.cluster \in Clusters /\ disk.marker.key \in Keys
         /\ disk.key \in Keys \cup {Nil} /\ durable.key \in Keys \cup {Nil}
         /\ disk \in File!Directory /\ durable \in File!Directory
<1>1. disk \in File!Directory /\ durable \in File!Directory
  BY DEF FileInv, File!TypeOK
<1>2. disk.marker # Nil => disk.marker \in File!Marker
  BY DEF FileInv, SoundDisk
<1>3. disk.marker # Torn
  BY <1>2, ValuesAssumption
<1>4. durable.marker # Torn
  BY <1>3, ValuesAssumption DEF FileInv, SoundDisk
<1>5. disk.marker # Nil => disk.marker.cluster \in Clusters /\ disk.marker.key \in Keys
  BY <1>2 DEF File!Marker
<1>6. disk.key \in Keys \cup {Nil} /\ durable.key \in Keys \cup {Nil}
  BY <1>1 DEF File!Directory
<1>7. QED BY <1>1, <1>3, <1>4, <1>5, <1>6

\* A step that makes what is on disk durable, or nothing.
LEMMA OwnerSynced ==
  ASSUME FileInv, durable' \in {durable, disk}, reported' = reported
  PROVE  OwnerStep(File!owner, File!owner', File!told, File!told')
<1>1. File!told' = File!told
  BY DEF File!told
<1>2. File!owner = IF durable.marker = Nil THEN Nil ELSE durable.marker.cluster
  BY MarkerFacts DEF File!owner
<1>3. durable.marker \in {Nil, disk.marker}
  BY DEF FileInv, SoundDisk
<1>4. durable'.marker # Torn
  BY MarkerFacts
<1>5. File!owner' = IF durable'.marker = Nil THEN Nil ELSE durable'.marker.cluster
  BY <1>4 DEF File!owner
<1>6. File!owner' = File!owner \/ (File!owner = Nil /\ File!owner' \in Clusters)
  BY <1>2, <1>3, <1>5, MarkerFacts
<1>7. QED BY <1>1, <1>6 DEF OwnerStep

\* A step of one process that leaves the directory as the processes see it.
LEMMA FileMove ==
  ASSUME FileInv, NEW p \in Procs, NEW s \in File!Proc, SoundProc(p, s)',
         proc' = [proc EXCEPT ![p] = s], disk' = disk, durable' \in {durable, disk},
         reported' = reported, faults' \in 0..MaxFaults,
         lock' \in [File!Locks -> Procs \cup {Nil}],
         \A l \in File!Locks : lock[l] \notin {p, Nil} => lock'[l] = lock[l]
  PROVE  FileInv' /\ OwnerStep(File!owner, File!owner', File!told, File!told')
<1>1. proc \in [Procs -> File!Proc] /\ {disk, durable} \subseteq File!Directory
  BY DEF FileInv, File!TypeOK
<1>2. File!TypeOK'
  BY <1>1 DEF FileInv, File!TypeOK
<1>3. SoundDisk'
  BY DEF FileInv, SoundDisk
<1>4. ASSUME NEW q \in Procs \ {p}
      PROVE  SoundProc(q, proc[q])'
  <2>1. proc'[q] = proc[q] /\ SoundProc(q, proc[q])
    BY <1>1 DEF FileInv
  <2>2. ASSUME SoundClaim(q, proc[q])
        PROVE  SoundClaim(q, proc[q])'
    BY <2>1, <2>2 DEF SoundClaim
  <2>3. ASSUME SoundProvision(proc[q])
        PROVE  SoundProvision(proc[q])'
    BY <2>1, <2>3 DEF SoundProvision
  <2>4. LockOf(q, proc[q])' = LockOf(q, proc[q]) /\ LockOf(q, proc[q]) \in File!Locks
    BY <2>1 DEF LockOf, File!Locks
  <2>5. lock[LockOf(q, proc[q])] = q => lock'[LockOf(q, proc[q])] = q
    BY <2>4, ValuesAssumption
  <2>6. QED BY <2>1, <2>2, <2>3, <2>4, <2>5 DEF SoundProc
<1>5. proc'[p] = s
  BY <1>1
<1>6. SoundProc(p, proc[p])'
  BY <1>5 DEF SoundProc, SoundClaim, SoundProvision, LockOf
<1>7. FileInv'
  BY <1>2, <1>3, <1>4, <1>6 DEF FileInv
<1>8. QED BY <1>7, OwnerSynced

\* A process that returns gives its locks back.
LEMMA FileReturn ==
  ASSUME FileInv, NEW p \in Procs, File!Return(p), disk' = disk, durable' = durable,
         reported' = reported, faults' \in 0..MaxFaults
  PROVE  FileInv' /\ OwnerStep(File!owner, File!owner', File!told, File!told')
<1>1. lock \in [File!Locks -> Procs \cup {Nil}]
  BY DEF FileInv, File!TypeOK
<1>2. File!Idle \in File!Proc /\ File!Idle.op = "none" /\ File!Idle.pc = "idle"
  BY DEF File!Idle, File!Proc
<1>3. /\ lock' \in [File!Locks -> Procs \cup {Nil}]
      /\ \A l \in File!Locks : lock[l] \notin {p, Nil} => lock'[l] = lock[l]
  BY <1>1 DEF File!Return
<1>4. SoundProc(p, File!Idle)'
  BY <1>2 DEF SoundProc, File!Idle
<1>5. proc' = [proc EXCEPT ![p] = File!Idle]
  BY DEF File!Return
<1>6. QED BY <1>2, <1>3, <1>4, <1>5, FileMove, Zenon

\* What a process at work is, and that its lock is its own.
LEMMA ProcFacts ==
  ASSUME FileInv, NEW p \in Procs
  PROVE  /\ proc[p] \in File!Proc /\ SoundProc(p, proc[p])
         /\ File!lockPath(p) = LockOf(p, proc[p]) /\ LockOf(p, proc[p]) \in File!Locks
         /\ lock \in [File!Locks -> Procs \cup {Nil}] /\ faults \in 0..MaxFaults
BY DEF FileInv, File!TypeOK, File!lockPath, LockOf, File!Locks

\* A step to another place in the code, with the same operation and lock.
LEMMA FileGoto ==
  ASSUME FileInv, NEW p \in Procs, NEW from, NEW to, File!Goto(p, from, to),
         from # "idle", from # "lock",
         \/ /\ proc[p].op = "claim" /\ to \in {"read", "temp", "sync", "done"}
            /\ to \in {"sync", "done"} => disk.marker # Nil /\ disk.marker.cluster = proc[p].owner
            /\ to = "done" => durable' = disk
            /\ p \notin Relocating => disk.key = proc[p].key
         \/ /\ proc[p].op = "provision" /\ to \in {"temp", "sync", "done"}
            /\ to = "temp" => \A r \in reported : r[3] # "key",
         lock' = lock, disk' = disk, durable' \in {durable, disk}, reported' = reported,
         faults' = faults
  PROVE  FileInv' /\ OwnerStep(File!owner, File!owner', File!told, File!told')
<1>1. /\ proc[p].pc = from /\ proc' = [proc EXCEPT ![p] = [proc[p] EXCEPT !.pc = to]]
      /\ to \in {"read", "temp", "sync", "done"}
  BY DEF File!Goto
<1>2. /\ proc[p] \in File!Proc /\ SoundProc(p, proc[p])
      /\ lock' \in [File!Locks -> Procs \cup {Nil}] /\ faults' \in 0..MaxFaults
  BY ProcFacts
<1>3. PICK s \in File!Proc : /\ s = [proc[p] EXCEPT !.pc = to] /\ s.pc = to
                              /\ s.op = proc[p].op /\ s.id = proc[p].id
                              /\ s.key = proc[p].key /\ s.owner = proc[p].owner
  <2>1. PICK s : s = [proc[p] EXCEPT !.pc = to]
    BY Zenon
  <2>2. /\ s \in File!Proc /\ s.pc = to /\ s.op = proc[p].op /\ s.id = proc[p].id
        /\ s.key = proc[p].key /\ s.owner = proc[p].owner
    BY <1>1, <1>2, <2>1 DEF File!Proc
  <2>3. QED BY <2>1, <2>2, Zenon
<1>4. LockOf(p, s) = LockOf(p, proc[p]) /\ lock[LockOf(p, proc[p])] = p
  BY <1>1, <1>2, <1>3 DEF SoundProc, LockOf
<1>5. s.op = "claim" => SoundClaim(p, s)'
  BY <1>1, <1>2, <1>3 DEF SoundProc, SoundClaim
<1>6. s.op = "provision" => SoundProvision(s)'
  BY <1>1, <1>2, <1>3 DEF SoundProc, SoundProvision
<1>7. SoundProc(p, s)'
  BY <1>1, <1>3, <1>4, <1>5, <1>6 DEF SoundProc, LockOf
<1>8. QED BY <1>1, <1>2, <1>3, <1>7, FileMove, Zenon

\* The start of an operation.
LEMMA FileBegins ==
  ASSUME FileInv, NEW p \in Procs,
         (\E k \in Clusters : File!Load(p, k)) \/ File!Provision(p)
  PROVE  FileInv' /\ OwnerStep(File!owner, File!owner', File!told, File!told')
<1>1. /\ disk' = disk /\ durable' = durable /\ lock' = lock /\ reported' = reported
      /\ faults' = faults
  BY Zenon DEF File!Load, File!Provision
<1>2. /\ lock' \in [File!Locks -> Procs \cup {Nil}] /\ faults' \in 0..MaxFaults
      /\ disk.key \in Keys \cup {Nil}
  BY <1>1, ProcFacts, MarkerFacts
<1>3. PICK s \in File!Proc :
        /\ proc' = [proc EXCEPT ![p] = s] /\ s.pc = "lock" /\ s.key \in Keys
        /\ s.op = "provision" \/ (s.op = "claim" /\ s.id \in Clusters)
  <2>1. CASE File!Provision(p)
    <3>1. PICK n \in Keys : proc' = [proc EXCEPT ![p] = [File!Idle EXCEPT !.op = "provision",
                                                        !.pc = "lock", !.key = n]]
      BY <2>1, Zenon DEF File!Provision, File!Fresh
    <3> DEFINE s == [File!Idle EXCEPT !.op = "provision", !.pc = "lock", !.key = n]
    <3>2. s \in File!Proc /\ s.pc = "lock" /\ s.key \in Keys /\ s.op = "provision"
      BY Zenon DEF File!Idle, File!Proc
    <3>3. QED BY <3>1, <3>2, Zenon
  <2>2. ASSUME NEW k \in Clusters, File!Load(p, k)
        PROVE  \E s \in File!Proc :
                 /\ proc' = [proc EXCEPT ![p] = s] /\ s.pc = "lock" /\ s.key \in Keys
                 /\ s.op = "provision" \/ (s.op = "claim" /\ s.id \in Clusters)
    <3> DEFINE s == [File!Idle EXCEPT !.op = "claim", !.pc = "lock", !.id = k, !.key = disk.key]
    <3>1. disk.key \in Keys
      BY <1>2, <2>2, Zenon DEF File!Load
    <3>2. s \in File!Proc /\ s.pc = "lock" /\ s.key \in Keys /\ s.op = "claim" /\ s.id \in Clusters
      BY <3>1, Zenon DEF File!Idle, File!Proc
    <3>3. proc' = [proc EXCEPT ![p] = s]
      BY <2>2, Zenon DEF File!Load
    <3>4. QED BY <3>2, <3>3, Zenon
  <2>3. QED BY <2>1, <2>2
<1>4. SoundProc(p, s)'
  BY <1>3 DEF SoundProc, SoundClaim, SoundProvision
<1>5. QED BY <1>1, <1>2, <1>3, <1>4, FileMove, Zenon

\* acquireSoftwareKeyLock takes a lock that nobody holds.
LEMMA FileAcquires ==
  ASSUME FileInv, NEW p \in Procs, File!acquireSoftwareKeyLock(p)
  PROVE  FileInv' /\ OwnerStep(File!owner, File!owner', File!told, File!told')
<1>1. /\ proc[p] \in File!Proc /\ SoundProc(p, proc[p])
      /\ File!lockPath(p) = LockOf(p, proc[p]) /\ LockOf(p, proc[p]) \in File!Locks
      /\ lock \in [File!Locks -> Procs \cup {Nil}]
  BY ProcFacts
<1>2. /\ disk' = disk /\ durable' = durable /\ reported' = reported /\ faults' = faults
      /\ proc[p].pc = "lock" /\ lock[LockOf(p, proc[p])] = Nil
      /\ lock' = [lock EXCEPT ![LockOf(p, proc[p])] = p]
  BY <1>1 DEF File!acquireSoftwareKeyLock, File!Goto
<1>3. PICK to \in {"precheck", "inspect"} :
        /\ to = "precheck" <=> proc[p].op = "claim"
        /\ proc' = [proc EXCEPT ![p] = [proc[p] EXCEPT !.pc = to]]
  BY Zenon DEF File!acquireSoftwareKeyLock, File!Goto
<1>4. PICK s \in File!Proc : /\ s = [proc[p] EXCEPT !.pc = to] /\ s.pc = to
                              /\ s.op = proc[p].op /\ s.id = proc[p].id
                              /\ s.key = proc[p].key /\ s.owner = proc[p].owner
  <2>1. PICK s : s = [proc[p] EXCEPT !.pc = to]
    BY Zenon
  <2>2. /\ s \in File!Proc /\ s.pc = to /\ s.op = proc[p].op /\ s.id = proc[p].id
        /\ s.key = proc[p].key /\ s.owner = proc[p].owner
    BY <1>1, <2>1 DEF File!Proc
  <2>3. QED BY <2>1, <2>2, Zenon
<1>5. /\ LockOf(p, s) = LockOf(p, proc[p]) /\ lock'[LockOf(p, s)] = p
      /\ lock' \in [File!Locks -> Procs \cup {Nil}]
      /\ \A l \in File!Locks : lock[l] \notin {p, Nil} => lock'[l] = lock[l]
  BY <1>1, <1>2, <1>4 DEF LockOf
<1>6. s.op \in {"claim", "provision"}
  BY <1>1, <1>2, <1>4 DEF SoundProc, File!Proc
<1>7. SoundProc(p, s)'
  BY <1>1, <1>2, <1>3, <1>4, <1>5, <1>6 DEF SoundProc, SoundClaim, SoundProvision, LockOf
<1>8. faults' \in 0..MaxFaults
  BY <1>2, ProcFacts
<1>9. QED BY <1>2, <1>3, <1>4, <1>5, <1>7, <1>8, FileMove, Zenon

\* Where the code goes on from each place: which of the operations it is.
LEMMA OpFacts ==
  ASSUME FileInv, NEW p \in Procs
  PROVE  /\ proc[p].pc \in {"precheck", "read", "publish", "link"} =>
              proc[p].op = "claim" /\ SoundClaim(p, proc[p])
         /\ proc[p].pc \in {"inspect", "rename"} =>
              proc[p].op = "provision" /\ SoundProvision(proc[p])
         /\ proc[p].pc \notin {"idle", "lock"} =>
              /\ proc[p].op = "claim" \/ proc[p].op = "provision"
              /\ lock[LockOf(p, proc[p])] = p
         /\ proc[p].op = "claim" => SoundClaim(p, proc[p])
         /\ proc[p].op = "provision" => SoundProvision(proc[p])
<1>1. SoundProc(p, proc[p]) /\ proc[p].op \in {"none", "claim", "provision"}
  BY ProcFacts DEF File!Proc
<1>2. QED BY <1>1 DEF SoundProc, SoundClaim, SoundProvision

\* The reads under the lock, the checks of provisionSoftwareKey and the syncs.
LEMMA FileLooks ==
  ASSUME FileInv, NEW p \in Procs,
         \/ File!Precheck(p) \/ File!Inspect(p) \/ File!SyncDirectory(p)
         \/ File!syncPublishedBinding(p) \/ File!Abandon(p)
  PROVE  FileInv' /\ OwnerStep(File!owner, File!owner', File!told, File!told')
<1>0. faults \in 0..MaxFaults
  BY ProcFacts
<1>1. CASE File!Precheck(p)
  <2>1. /\ disk' = disk /\ durable' = durable /\ reported' = reported /\ faults' = faults
    BY <1>1 DEF File!Precheck
  <2>2. CASE File!Return(p)
    BY <1>0, <2>1, <2>2, FileReturn
  <2>3. CASE proc[p].key = disk.key /\ File!Goto(p, "precheck", "read") /\ lock' = lock
    <3>1. proc[p].op = "claim"
      BY <2>3, OpFacts DEF File!Goto
    <3>2. QED BY <2>1, <2>3, <3>1, FileGoto
  <2>4. QED BY <1>1, <2>2, <2>3 DEF File!Precheck
<1>2. CASE File!Inspect(p)
  <2>1. /\ disk' = disk /\ durable' = durable /\ reported' = reported /\ faults' = faults
    BY <1>2 DEF File!Inspect
  <2>2. CASE File!Return(p)
    BY <1>0, <2>1, <2>2, FileReturn
  <2>3. CASE disk.marker = Nil /\ File!Goto(p, "inspect", "temp") /\ lock' = lock
    <3>1. proc[p].op = "provision"
      BY <2>3, OpFacts DEF File!Goto
    <3>2. reported = {}
      BY <2>3 DEF FileInv, SoundDisk
    <3>3. QED BY <2>1, <2>3, <3>1, <3>2, FileGoto
  <2>4. QED BY <1>2, <2>2, <2>3 DEF File!Inspect
<1>3. CASE File!SyncDirectory(p)
  <2>1. /\ disk' = disk /\ durable' = disk /\ reported' = reported /\ faults' = faults
        /\ lock' = lock /\ File!Goto(p, "sync", "done") /\ proc[p].pc = "sync"
    BY <1>3 DEF File!SyncDirectory, File!Goto
  <2>2. CASE proc[p].op = "claim"
    <3>1. SoundClaim(p, proc[p])
      BY <2>2, OpFacts
    <3>2. /\ disk.marker # Nil /\ disk.marker.cluster = proc[p].owner
          /\ p \notin Relocating => disk.key = proc[p].key
      BY <2>1, <3>1 DEF SoundClaim
    <3>3. QED BY <2>1, <2>2, <3>2, FileGoto
  <2>3. CASE proc[p].op = "provision"
    BY <2>1, <2>3, FileGoto
  <2>4. QED BY <2>1, <2>2, <2>3, OpFacts
<1>4. CASE File!syncPublishedBinding(p)
  <2>1. /\ reported' = reported /\ faults' = faults /\ durable' = disk'
        /\ lock' = lock /\ File!Goto(p, "publish", "done") /\ proc[p].pc = "publish"
        /\ disk' = [disk EXCEPT !.marker.synced = TRUE]
    BY <1>4 DEF File!syncPublishedBinding, File!Goto
  <2>2. proc[p].op = "claim" /\ SoundClaim(p, proc[p])
    BY <2>1, OpFacts
  <2>3. /\ disk.marker # Nil /\ disk.marker.cluster = proc[p].owner
        /\ p \notin Relocating => disk.key = proc[p].key
    BY <2>1, <2>2 DEF SoundClaim
  <2>4. disk.marker \in File!Marker /\ disk.marker.synced = TRUE /\ disk \in File!Directory
    BY <2>3, MarkerFacts DEF FileInv, SoundDisk, File!Marker
  <2>5. [disk.marker EXCEPT !.synced = TRUE] = disk.marker
    BY <2>4, Zenon DEF File!Marker
  <2>6. disk' = disk
    BY <2>1, <2>4, <2>5 DEF File!Directory
  <2>7. QED BY <2>1, <2>2, <2>3, <2>6, FileGoto
<1>5. CASE File!Abandon(p)
  <2>1. /\ disk' = disk /\ durable' = durable /\ reported' = reported
        /\ File!Return(p) /\ faults < MaxFaults /\ faults' = faults + 1
    BY <1>5 DEF File!Abandon, File!Fault
  <2>2. faults' \in 0..MaxFaults
    BY <1>0, <2>1, FaultStep
  <2>3. QED BY <2>1, <2>2, FileReturn
<1>6. QED BY <1>1, <1>2, <1>3, <1>4, <1>5

\* fileBinding.read and the temporary file.
LEMMA FileReads ==
  ASSUME FileInv, NEW p \in Procs, File!Read(p) \/ File!WriteTemp(p)
  PROVE  FileInv' /\ OwnerStep(File!owner, File!owner', File!told, File!told')
<1>0. /\ faults \in 0..MaxFaults /\ proc[p] \in File!Proc
      /\ lock \in [File!Locks -> Procs \cup {Nil}]
  BY ProcFacts
<1>1. /\ disk' = disk /\ durable' = durable /\ reported' = reported /\ faults' = faults
  BY DEF File!Read, File!WriteTemp
<1>2. CASE File!Read(p)
  <2>1. /\ proc[p].pc = "read" /\ proc[p].op = "claim" /\ SoundClaim(p, proc[p])
        /\ lock[LockOf(p, proc[p])] = p
    BY <1>2, OpFacts DEF File!Read
  <2>2. p \notin Relocating => disk.key = proc[p].key
    BY <2>1 DEF SoundClaim
  <2>3. CASE File!Return(p)
    BY <1>0, <1>1, <2>3, FileReturn
  <2>4. CASE disk.marker = Nil /\ File!Goto(p, "read", "temp") /\ lock' = lock
    BY <1>1, <2>1, <2>2, <2>4, FileGoto
  <2>5. CASE /\ disk.marker # Nil /\ lock' = lock
             /\ proc' = [proc EXCEPT ![p].pc = "publish", ![p].owner = disk.marker.cluster]
    <3>1. PICK s : s = [proc[p] EXCEPT !.pc = "publish", !.owner = disk.marker.cluster]
      OBVIOUS
    <3>2. disk.marker.cluster \in Clusters
      BY <2>5, MarkerFacts
    <3>3. /\ s \in File!Proc /\ s.pc = "publish" /\ s.op = "claim" /\ s.id = proc[p].id
          /\ s.key = proc[p].key /\ s.owner = disk.marker.cluster
      BY <1>0, <2>1, <3>1, <3>2, Zenon DEF File!Proc
    <3>4. proc' = [proc EXCEPT ![p] = s]
      <4>1. proc \in [Procs -> File!Proc]
        BY DEF FileInv, File!TypeOK
      <4>2. QED BY <2>5, <3>1, <4>1, Zenon DEF File!Proc
    <3>5. SoundClaim(p, s)'
      BY <1>1, <2>1, <2>2, <2>5, <3>3 DEF SoundClaim
    <3>6. SoundProc(p, s)'
      BY <2>1, <2>5, <3>3, <3>5 DEF SoundProc, LockOf
    <3>7. QED BY <1>0, <1>1, <2>5, <3>3, <3>4, <3>6, FileMove, Zenon
  <2>6. QED BY <1>2, <2>3, <2>4, <2>5 DEF File!Read
<1>3. CASE File!WriteTemp(p)
  <2>1. /\ proc[p].pc = "temp" /\ lock' = lock /\ lock[LockOf(p, proc[p])] = p
        /\ proc[p].op = "claim" \/ proc[p].op = "provision"
    BY <1>3, OpFacts DEF File!WriteTemp
  <2>2. PICK to \in {"link", "rename"} :
          /\ to = "link" <=> proc[p].op = "claim"
          /\ proc' = [proc EXCEPT ![p].pc = to, ![p].synced = TRUE]
    BY <1>3, Zenon DEF File!WriteTemp
  <2>3. PICK s : s = [proc[p] EXCEPT !.pc = to, !.synced = TRUE]
    OBVIOUS
  <2>4. /\ s \in File!Proc /\ s.pc = to /\ s.op = proc[p].op /\ s.id = proc[p].id
        /\ s.key = proc[p].key /\ s.synced
    BY <1>0, <2>1, <2>3, Zenon DEF File!Proc
  <2>5. proc' = [proc EXCEPT ![p] = s]
    <3>1. proc \in [Procs -> File!Proc]
      BY DEF FileInv, File!TypeOK
    <3>2. QED BY <2>2, <2>3, <3>1, Zenon DEF File!Proc
  <2>6. s.op = "claim" => SoundClaim(p, s)'
    BY <1>1, <2>1, <2>2, <2>4, OpFacts, Zenon DEF SoundClaim
  <2>7. s.op = "provision" => SoundProvision(s)'
    BY <1>1, <2>1, <2>2, <2>4, OpFacts, Zenon DEF SoundProvision
  <2>8. SoundProc(p, s)'
    BY <2>1, <2>2, <2>4, <2>6, <2>7 DEF SoundProc, LockOf
  <2>9. QED BY <1>0, <1>1, <2>1, <2>4, <2>5, <2>8, FileMove, Zenon
<1>4. QED BY <1>2, <1>3

\* link(2) publishes a synced marker where there is none.
LEMMA FileLinks ==
  ASSUME FileInv, NEW p \in Procs, File!Link(p)
  PROVE  FileInv' /\ OwnerStep(File!owner, File!owner', File!told, File!told')
<1>0. /\ durable' = durable /\ lock' = lock /\ reported' = reported /\ faults' = faults
      /\ proc[p].pc = "link"
  BY DEF File!Link, File!Goto
<1>1. /\ proc[p].op = "claim" /\ SoundClaim(p, proc[p]) /\ proc[p] \in File!Proc
      /\ lock[LockOf(p, proc[p])] = p
      /\ p \notin Relocating => disk.key = proc[p].key
  BY <1>0, OpFacts, ProcFacts DEF SoundClaim
<1>2. CASE disk.marker # Nil
  <2>1. File!Goto(p, "link", "read") /\ disk' = disk
    BY <1>2 DEF File!Link
  <2>2. QED BY <1>0, <1>1, <2>1, FileGoto
<1>3. CASE disk.marker = Nil
  <2>1. PICK m : m = [cluster |-> proc[p].id, key |-> proc[p].key, synced |-> proc[p].synced]
    BY Zenon
  <2>2. m \in File!Marker /\ m.synced /\ m.cluster = proc[p].id
    BY <1>0, <1>1, <2>1 DEF SoundClaim, File!Marker, File!Proc
  <2>3. m # Nil
    BY <2>2, ValuesAssumption
  <2>4. /\ disk' = [disk EXCEPT !.marker = m] /\ disk \in File!Directory
        /\ proc' = [proc EXCEPT ![p].pc = "sync", ![p].owner = proc[p].id]
    BY <1>3, <2>1, MarkerFacts DEF File!Link
  <2>5. disk' \in File!Directory /\ disk'.marker = m /\ disk'.key = disk.key
    BY <2>2, <2>4 DEF File!Directory
  <2>6. durable.marker = Nil /\ reported = {}
    BY <1>3 DEF FileInv, SoundDisk
  <2>7. PICK s : s = [proc[p] EXCEPT !.pc = "sync", !.owner = proc[p].id]
    OBVIOUS
  <2>8. /\ s \in File!Proc /\ s.pc = "sync" /\ s.op = "claim" /\ s.id = proc[p].id
        /\ s.key = proc[p].key /\ s.owner = proc[p].id
    BY <1>1, <2>7, Zenon DEF File!Proc
  <2>9. proc \in [Procs -> File!Proc]
    BY DEF FileInv, File!TypeOK
  <2>10. proc' = [proc EXCEPT ![p] = s]
    BY <2>4, <2>7, <2>9, Zenon DEF File!Proc
  <2>11. File!TypeOK'
    BY <1>0, <2>5, <2>8, <2>9, <2>10 DEF FileInv, File!TypeOK
  <2>12. SoundDisk'
    BY <1>0, <2>2, <2>5, <2>6 DEF SoundDisk
  <2>13. SoundProc(p, proc[p])'
    <3>1. proc'[p] = s
      BY <2>9, <2>10
    <3>2. SoundClaim(p, proc[p])'
      BY <1>0, <1>1, <2>2, <2>3, <2>5, <2>8, <3>1 DEF SoundClaim
    <3>3. QED BY <1>0, <1>1, <2>8, <3>1, <3>2 DEF SoundProc, LockOf
  <2>14. ASSUME NEW q \in Procs \ {p}
         PROVE  SoundProc(q, proc[q])'
    <3>1. proc'[q] = proc[q] /\ SoundProc(q, proc[q])
      BY <2>9, <2>10 DEF FileInv
    <3>2. ASSUME SoundClaim(q, proc[q])
          PROVE  SoundClaim(q, proc[q])'
      BY <1>0, <1>3, <2>5, <3>1, <3>2, Zenon DEF SoundClaim
    <3>3. ASSUME SoundProvision(proc[q])
          PROVE  SoundProvision(proc[q])'
      BY <1>0, <3>1, <3>3 DEF SoundProvision
    <3>4. QED BY <1>0, <3>1, <3>2, <3>3, Zenon DEF SoundProc, LockOf
  <2>15. FileInv'
    BY <2>11, <2>12, <2>13, <2>14 DEF FileInv
  <2>16. QED BY <1>0, <2>15, OwnerSynced
<1>4. QED BY <1>2, <1>3

\* A provision replaces the key file under the lock of every claim that counts on it.
LEMMA FileRenames ==
  ASSUME FileInv, NEW p \in Procs, File!Rename(p)
  PROVE  FileInv' /\ OwnerStep(File!owner, File!owner', File!told, File!told')
<1>0. /\ durable' = durable /\ lock' = lock /\ reported' = reported /\ faults' = faults
      /\ proc[p].pc = "rename" /\ disk' = [disk EXCEPT !.key = proc[p].key]
      /\ proc' = [proc EXCEPT ![p] = [proc[p] EXCEPT !.pc = "sync"]]
  BY DEF File!Rename, File!Goto
<1>1. /\ proc[p].op = "provision" /\ SoundProvision(proc[p]) /\ proc[p] \in File!Proc
      /\ lock[LockOf(p, proc[p])] = p /\ LockOf(p, proc[p]) = "key"
  BY <1>0, OpFacts, ProcFacts DEF LockOf
<1>2. proc[p].key \in Keys /\ \A r \in reported : r[3] # "key"
  BY <1>0, <1>1 DEF SoundProvision
<1>3. /\ disk' \in File!Directory /\ disk'.marker = disk.marker
      /\ proc \in [Procs -> File!Proc]
  BY <1>0, <1>2, MarkerFacts DEF File!Directory, FileInv, File!TypeOK
<1>4. PICK s : s = [proc[p] EXCEPT !.pc = "sync"]
  BY Zenon
<1>5. /\ s \in File!Proc /\ s.pc = "sync" /\ s.op = "provision" /\ s.key = proc[p].key
  BY <1>1, <1>4 DEF File!Proc
<1>6. File!TypeOK'
  BY <1>0, <1>3, <1>4, <1>5 DEF FileInv, File!TypeOK
<1>7. SoundDisk'
  BY <1>0, <1>2, <1>3 DEF FileInv, SoundDisk
<1>8. SoundProc(p, proc[p])'
  <2>1. proc'[p] = s
    BY <1>0, <1>3, <1>4
  <2>2. SoundProvision(proc[p])'
    BY <1>2, <1>5, <2>1 DEF SoundProvision
  <2>3. QED BY <1>0, <1>1, <1>5, <2>1, <2>2 DEF SoundProc, LockOf
<1>9. ASSUME NEW q \in Procs \ {p}
      PROVE  SoundProc(q, proc[q])'
  <2>1. proc'[q] = proc[q] /\ SoundProc(q, proc[q])
    BY <1>0, <1>3 DEF FileInv
  <2>2. ASSUME proc[q].op = "claim", q \notin Relocating, proc[q].pc \notin {"idle", "lock"}
        PROVE  FALSE
    BY <1>1, <2>1, <2>2 DEF SoundProc, LockOf
  <2>3. proc[q].op = "claim" => proc[q].pc # "idle"
    BY <2>1 DEF SoundProc
  <2>4. ASSUME proc[q].op = "claim"
        PROVE  SoundClaim(q, proc[q])'
    BY <1>0, <1>3, <2>1, <2>2, <2>3, <2>4 DEF SoundProc, SoundClaim
  <2>5. ASSUME SoundProvision(proc[q])
        PROVE  SoundProvision(proc[q])'
    BY <1>0, <2>1, <2>5 DEF SoundProvision
  <2>6. QED BY <1>0, <2>1, <2>4, <2>5 DEF SoundProc, LockOf
<1>10. FileInv'
  BY <1>6, <1>7, <1>8, <1>9 DEF FileInv
<1>11. QED BY <1>0, <1>10, OwnerSynced

\* The end of a claim reports the owner of the durable marker.
LEMMA FileFinishes ==
  ASSUME FileInv, NEW p \in Procs, File!Finish(p)
  PROVE  FileInv' /\ OwnerStep(File!owner, File!owner', File!told, File!told')
<1>0. /\ durable' = durable /\ disk' = disk /\ faults' = faults
      /\ proc[p].pc = "done" /\ File!Return(p)
  BY DEF File!Finish
<1>1. CASE reported' = reported
  BY <1>0, <1>1, FileReturn, ProcFacts
<1>2. CASE reported' # reported
  <2>1. /\ proc[p].owner = proc[p].id /\ proc[p].op = "claim"
        /\ reported' = reported \cup {<<proc[p].id, proc[p].key, LockOf(p, proc[p])>>}
    BY <1>2, ProcFacts DEF File!Finish
  <2>2. SoundClaim(p, proc[p]) /\ lock[LockOf(p, proc[p])] = p
    BY <1>0, <2>1, OpFacts
  <2>3. /\ proc[p].id \in Clusters /\ proc[p].key \in Keys
        /\ durable.marker # Nil /\ durable.marker = disk.marker
        /\ durable.marker.cluster = proc[p].id
        /\ LockOf(p, proc[p]) = "key" => disk.key = proc[p].key /\ durable.key = proc[p].key
    BY <1>0, <2>1, <2>2 DEF SoundClaim, LockOf
  <2>4. LockOf(p, proc[p]) \in File!Locks /\ proc \in [Procs -> File!Proc]
    BY ProcFacts DEF FileInv, File!TypeOK
  <2>5. reported' \subseteq Clusters \X Keys \X File!Locks
    BY <2>1, <2>3, <2>4 DEF FileInv, File!TypeOK
  <2>6. /\ proc' = [proc EXCEPT ![p] = File!Idle] /\ File!Idle \in File!Proc
        /\ File!Idle.op = "none" /\ File!Idle.pc = "idle"
    BY <1>0 DEF File!Return, File!Idle, File!Proc
  <2>7. /\ lock' \in [File!Locks -> Procs \cup {Nil}]
        /\ \A l \in File!Locks : lock[l] \notin {p, Nil} => lock'[l] = lock[l]
    BY <1>0, ProcFacts DEF File!Return
  <2>8. File!TypeOK'
    BY <1>0, <2>4, <2>5, <2>6, <2>7 DEF FileInv, File!TypeOK
  <2>9. \A r \in reported' :
          /\ durable.marker # Nil /\ durable.marker.cluster = r[1]
          /\ r[3] = "key" => disk.key = r[2] /\ durable.key = r[2]
    BY <2>1, <2>3 DEF FileInv, SoundDisk
  <2>10. SoundDisk'
    BY <1>0, <2>9 DEF FileInv, SoundDisk
  <2>11. SoundProc(p, proc[p])'
    <3>1. proc'[p].op = "none" /\ proc'[p].pc = "idle"
      BY <2>4, <2>6
    <3>2. QED BY <3>1 DEF SoundProc
  <2>12. ASSUME NEW q \in Procs \ {p}
         PROVE  SoundProc(q, proc[q])'
    <3>1. proc'[q] = proc[q] /\ SoundProc(q, proc[q])
      BY <2>4, <2>6 DEF FileInv
    <3>2. ASSUME SoundClaim(q, proc[q])
          PROVE  SoundClaim(q, proc[q])'
      BY <1>0, <3>1, <3>2 DEF SoundClaim
    <3>3. ASSUME proc[q].op = "provision"
          PROVE  SoundProvision(proc[q])'
      <4>1. SoundProvision(proc[q])
        BY <3>1, <3>3 DEF SoundProc
      <4>2. proc[q].pc \in {"temp", "rename"} => lock["key"] = q
        BY <3>1, <3>3 DEF SoundProc, LockOf
      <4>3. proc[q].pc \in {"temp", "rename"} => LockOf(p, proc[p]) # "key"
        BY <2>2, <4>2
      <4>4. proc[q].pc \in {"temp", "rename"} => \A r \in reported' : r[3] # "key"
        BY <2>1, <4>1, <4>3 DEF SoundProvision
      <4>5. QED BY <3>1, <4>1, <4>4 DEF SoundProvision
    <3>4. LockOf(q, proc[q])' = LockOf(q, proc[q]) /\ LockOf(q, proc[q]) \in File!Locks
      BY <3>1 DEF LockOf, File!Locks
    <3>5. lock[LockOf(q, proc[q])] = q => lock'[LockOf(q, proc[q])] = q
      BY <2>7, <3>4, ValuesAssumption
    <3>6. QED BY <3>1, <3>2, <3>3, <3>4, <3>5 DEF SoundProc
  <2>13. FileInv'
    BY <2>8, <2>10, <2>11, <2>12 DEF FileInv
  <2>14. File!owner = proc[p].id /\ File!owner' = File!owner
    BY <1>0, <2>3, MarkerFacts DEF File!owner
  <2>15. File!told' = File!told \cup {proc[p].id}
    <3>1. PICK t : t = <<proc[p].id, proc[p].key, LockOf(p, proc[p])>>
      BY Zenon
    <3>2. reported' = reported \cup {t} /\ t[1] = proc[p].id
      BY <2>1, <3>1
    <3>3. QED BY <3>2 DEF File!told
  <2>16. QED BY <2>3, <2>13, <2>14, <2>15 DEF OwnerStep
<1>3. QED BY <1>1, <1>2

\* A power loss ends every process, and loses the marker or the key only if no
\* claim was reported.
LEMMA FilePowerLoss ==
  ASSUME FileInv, File!PowerLoss
  PROVE  FileInv' /\ OwnerStep(File!owner, File!owner', File!told, File!told')
<1>0. /\ faults < MaxFaults /\ faults' = faults + 1 /\ durable' = disk'
      /\ proc' = [p \in Procs |-> File!Idle] /\ lock' = [l \in File!Locks |-> Nil]
      /\ reported' = reported
  BY DEF File!PowerLoss, File!Fault
<1>1. \A m \in {disk.marker, durable.marker} : m # Nil => m = disk.marker /\ m.synced
  BY DEF FileInv, SoundDisk
<1>2. PICK k \in {disk.key, durable.key}, m \in {disk.marker, durable.marker} :
        disk' = [key |-> k, marker |-> m]
  BY <1>1 DEF File!PowerLoss
<1>3. /\ disk' \in File!Directory /\ disk'.key = k /\ disk'.marker = m
  BY <1>2, MarkerFacts DEF File!Directory
<1>4. faults' \in 0..MaxFaults
  <2>1. faults \in 0..MaxFaults
    BY DEF FileInv, File!TypeOK
  <2>2. QED BY <1>0, <2>1, FaultStep
<1>5. File!Idle \in File!Proc /\ File!Idle.op = "none" /\ File!Idle.pc = "idle"
  BY DEF File!Idle, File!Proc
<1>6. File!TypeOK'
  BY <1>0, <1>3, <1>4, <1>5 DEF FileInv, File!TypeOK
<1>7. SoundDisk'
  BY <1>0, <1>1, <1>2, <1>3 DEF FileInv, SoundDisk
<1>8. \A p \in Procs : SoundProc(p, proc[p])'
  <2>1. \A p \in Procs : proc'[p].op = "none" /\ proc'[p].pc = "idle"
    BY <1>0, <1>5
  <2>2. QED BY <2>1 DEF SoundProc
<1>9. FileInv'
  BY <1>6, <1>7, <1>8 DEF FileInv
<1>10. File!owner = IF durable.marker = Nil THEN Nil ELSE durable.marker.cluster
  BY MarkerFacts DEF File!owner
<1>11. File!owner' = IF m = Nil THEN Nil ELSE m.cluster
  <2>1. durable'.marker = m /\ m # Torn
    BY <1>0, <1>3, MarkerFacts
  <2>2. QED BY <2>1 DEF File!owner
<1>12. durable.marker # Nil => m = durable.marker
  BY <1>1, <1>2
<1>13. m # Nil => m.cluster \in Clusters
  BY <1>1, <1>2, MarkerFacts
<1>14. File!told' = File!told
  BY <1>0 DEF File!told
<1>15. QED BY <1>9, <1>10, <1>11, <1>12, <1>13, <1>14 DEF OwnerStep

\* Every step of the marker file keeps the invariant and is a step of the promise.
LEMMA FileStep ==
  ASSUME FileInv, File!Next
  PROVE  FileInv' /\ OwnerStep(File!owner, File!owner', File!told, File!told')
BY FileBegins, FileAcquires, FileLooks, FileReads, FileLinks, FileRenames, FileFinishes,
   FilePowerLoss DEF File!Next
-----------------------------------------------------------------------------
(* The stores together.                                                    *)

Types == {"vault", "gcpkms", "awskms", "software"}

ClaimInv ==
  /\ type \in Types
  /\ type = "vault" => VaultInv
  /\ type \in {"gcpkms", "awskms"} => CloudInv
  /\ type = "software" => FileInv

\* The owner and the clusters told, by the type of the key.
OwnerIsByType ==
  /\ type = "vault" => owner = VaultOwner /\ told = Told
  /\ type \in {"gcpkms", "awskms"} => owner = claim /\ told = Told
  /\ type = "software" => owner = File!owner /\ told = File!told

\* Whose claim it is and who was told of it are read from the store of its type.
LEMMA OwnerByType == OwnerIsByType
<1>1. type # "software" => told = Told
  BY DEF told, Vault!told, Told
<1>2. type = "software" => told = File!told
  BY DEF told
<1>3. type = "vault" => owner = VaultOwner
  BY Zenon DEF owner, Vault!owner, VaultOwner
<1>4. type = "software" => owner = File!owner
  <2>1. "vault" # "software"
    OBVIOUS
  <2>2. QED BY <2>1, Zenon DEF owner
<1>5. type \in {"gcpkms", "awskms"} => owner = claim
  <2>1. type \in {"gcpkms", "awskms"} => type # "vault" /\ type # "software"
    OBVIOUS
  <2>2. type # "vault" /\ type # "software" => owner = claim
    BY Zenon DEF owner
  <2>3. QED BY <2>1, <2>2
<1>6. QED BY <1>1, <1>2, <1>3, <1>4, <1>5 DEF OwnerIsByType

\* No call runs, no marker is there, and nobody was told.
LEMMA ClaimInit == Init => ClaimInv /\ owner = Nil /\ told = {}
<1>1. 0 \in 0..MaxFaults /\ 0 \in Nat /\ 0 <= 0
  BY ValuesAssumption
<1>2. ASSUME call = [p \in Claimers |-> NoCall], reported = {}, faults = 0
      PROVE  /\ CallsOK /\ Told = {} /\ \A p \in Claimers : call[p].pc = "idle"
  BY <1>1, <1>2, NoCallFacts DEF CallsOK, Told
<1>3. ASSUME type = "vault", Vault!Init
      PROVE  VaultInv /\ owner = Nil /\ told = {}
  <2>1. CallsOK /\ Told = {} /\ (\A p \in Claimers : call[p].pc = "idle") /\ kv = Nil /\ reported = {}
    BY <1>2, <1>3 DEF Vault!Init, Vault!CallInit, Vault!NoCall, NoCall
  <2>2. QED BY <1>3, <2>1, OwnerByType DEF OwnerIsByType, VaultInv, VaultOwner
<1>4. ASSUME type \in {"gcpkms", "awskms"}, GCP!Init \/ AWS!Init
      PROVE  CloudInv /\ owner = Nil /\ told = {}
  <2>1. /\ CallsOK /\ Told = {} /\ \A p \in Claimers : call[p].pc = "idle"
    BY <1>2, <1>4 DEF GCP!Init, GCP!CallInit, GCP!NoCall, AWS!Init, AWS!CallInit, AWS!NoCall,
                      NoCall
  <2>2. /\ claim = Nil /\ before = Nil /\ other = 0 /\ copy = [p \in Claimers |-> 0]
        /\ faults = 0
    BY <1>4 DEF GCP!Init, GCP!CallInit, AWS!Init, AWS!CallInit
  <2>3. LabelsOK
    BY <1>1, <2>2 DEF LabelsOK
  <2>4. QED BY <1>4, <2>1, <2>2, <2>3, OwnerByType DEF OwnerIsByType, CloudInv, SoundCall
<1>5. ASSUME type = "software", File!Init
      PROVE  FileInv /\ owner = Nil /\ told = {}
  <2>1. /\ disk \in File!Directory /\ disk.marker = Nil
    BY <1>5 DEF File!Init, File!Directory
  <2>2. /\ durable = disk /\ lock = [l \in File!Locks |-> Nil]
        /\ proc = [p \in Procs |-> File!Idle] /\ reported = {} /\ faults = 0
    BY <1>5 DEF File!Init
  <2>3. File!Idle \in File!Proc /\ File!Idle.op = "none" /\ File!Idle.pc = "idle"
    BY DEF File!Idle, File!Proc
  <2>4. File!TypeOK
    BY <1>1, <2>1, <2>2, <2>3 DEF File!TypeOK
  <2>5. SoundDisk
    BY <2>1, <2>2 DEF SoundDisk
  <2>6. \A p \in Procs : SoundProc(p, proc[p])
    BY <2>2, <2>3 DEF SoundProc
  <2>7. File!owner = Nil /\ File!told = {}
    BY <2>1, <2>2 DEF File!owner, File!told
  <2>8. QED BY <1>5, <2>4, <2>5, <2>6, <2>7, OwnerByType DEF OwnerIsByType, FileInv
<1>6. QED BY <1>3, <1>4, <1>5 DEF Init, ClaimInv, Types

\* Every step of ClaimCluster keeps the invariant of its store and what it promises.
LEMMA ClaimStep ==
  ASSUME ClaimInv, [Next]_vars
  PROVE  ClaimInv' /\ OwnerStep(owner, owner', told, told')
<1>0. OwnerIsByType'
  BY OwnerByType, PTL
<1>1. type \in Types /\ type' = type
  BY DEF ClaimInv, Next, vars
<1>2. CASE UNCHANGED vars
  <2>1. ClaimInv'
    <3>1. CallsOK => CallsOK'
      BY <1>2 DEF vars, CallsOK
    <3>2. VaultInv => VaultInv'
      BY <1>2, <3>1 DEF vars, VaultInv, Told
    <3>3. CloudInv => CloudInv'
      BY <1>2, <3>1 DEF vars, cloudVars, CloudInv, LabelsOK, SoundCall, Told
    <3>4. FileInv => FileInv'
      <4>1. /\ disk' = disk /\ durable' = durable /\ lock' = lock /\ proc' = proc
            /\ reported' = reported /\ faults' = faults
        BY <1>2 DEF vars, fileVars
      <4>2. \A p \in Procs : SoundProc(p, proc[p]) => SoundProc(p, proc[p])'
        BY <4>1 DEF SoundProc, SoundClaim, SoundProvision, LockOf
      <4>3. SoundDisk => SoundDisk'
        BY <4>1, Zenon DEF SoundDisk
      <4>4. File!TypeOK => File!TypeOK'
        BY <4>1 DEF File!TypeOK
      <4>5. QED BY <4>1, <4>2, <4>3, <4>4 DEF FileInv
    <3>5. QED BY <1>1, <3>2, <3>3, <3>4 DEF ClaimInv
  <2>2. /\ VaultOwner' = VaultOwner /\ Told' = Told /\ claim' = claim
        /\ File!owner' = File!owner /\ File!told' = File!told
    BY <1>2 DEF vars, cloudVars, fileVars, VaultOwner, Told, File!owner, File!told
  <2>3. owner' = owner /\ told' = told
    BY <1>0, <1>1, <2>2, OwnerByType DEF Types, OwnerIsByType
  <2>4. QED BY <2>1, <2>3 DEF OwnerStep
<1>3. CASE Next
  <2>1. CASE type = "vault" /\ Vault!Next
    <3>1. VaultInv' /\ OwnerStep(VaultOwner, VaultOwner', Told, Told')
      BY <2>1, VaultStep DEF ClaimInv
    <3>2. ClaimInv'
      BY <1>1, <2>1, <3>1 DEF ClaimInv
    <3>3. QED BY <1>1, <2>1, <3>1, <3>2, OwnerByType, <1>0 DEF OwnerIsByType
  <2>2. CASE type \in {"gcpkms", "awskms"} /\ (GCP!Next \/ AWS!Next)
    <3>1. CloudInv' /\ OwnerStep(claim, claim', Told, Told')
      BY <2>2, CloudStep DEF ClaimInv
    <3>2. ClaimInv'
      BY <1>1, <2>2, <3>1 DEF ClaimInv
    <3>3. QED BY <1>1, <2>2, <3>1, <3>2, OwnerByType, <1>0 DEF OwnerIsByType
  <2>3. CASE type = "software" /\ File!Next
    <3>1. FileInv' /\ OwnerStep(File!owner, File!owner', File!told, File!told')
      BY <2>3, FileStep DEF ClaimInv
    <3>2. ClaimInv'
      BY <1>1, <2>3, <3>1 DEF ClaimInv
    <3>3. QED BY <1>1, <2>3, <3>1, <3>2, OwnerByType, <1>0 DEF OwnerIsByType
  <2>4. QED BY <1>3, <2>1, <2>2, <2>3 DEF Next, ClaimCluster
<1>4. QED BY <1>2, <1>3

\* Whichever store keeps the claim, its invariant holds in every state: what the
\* steps of ClaimCluster, of provision and of the operators leave behind.
THEOREM ClaimInvariant == Spec => []ClaimInv
<1>1. Init => ClaimInv
  BY ClaimInit
<1>2. ClaimInv /\ [Next]_vars => ClaimInv'
  BY ClaimStep
<1>3. QED BY <1>1, <1>2, PTL DEF Spec

\* Vault's ClusterBinding reports a record as corrupt only if it was deleted, never
\* one that appeared between its reads.
THEOREM OnlyDeletedIsCorrupt == Spec => []NoFalseCorrupt
<1>1. ClaimInv => NoFalseCorrupt
  BY DEF ClaimInv, VaultInv, NoFalseCorrupt, Vault!NoFalseCorrupt
<1>2. QED BY <1>1, ClaimInvariant, PTL

\* The key of a claim that succeeded under the key file's lock stays in the file:
\* no provision replaces it, and no power loss brings an older one back.
THEOREM ClaimedKeysStay == Spec => []ClaimedKeyStays
<1>1. ClaimInv => ClaimedKeyStays
  BY DEF ClaimInv, FileInv, SoundDisk, ClaimedKeyStays, File!ClaimedKeyStays
<1>2. QED BY <1>1, ClaimInvariant, PTL

\* The values of the store in use have their types.
LEMMA ClaimTypes == ClaimInv => TypeOK
<1> SUFFICES ASSUME ClaimInv PROVE TypeOK
  OBVIOUS
<1>1. type = "vault" => Vault!TypeOK
  BY DEF ClaimInv, VaultInv, CallsOK, Vault!TypeOK, Vault!CallTypeOK, Vault!Call,
         Vault!Results, Call, Results
<1>2. type \in {"gcpkms", "awskms"} => GCP!TypeOK /\ AWS!TypeOK
  <2> SUFFICES ASSUME CloudInv PROVE GCP!TypeOK /\ AWS!TypeOK
    BY DEF ClaimInv
  <2>1. faults \in 0..MaxFaults /\ faults \in Nat
    BY DEF CloudInv, CallsOK
  <2>2. \A n \in Nat : n <= faults => n \in 0..MaxFaults
    BY <2>1, ValuesAssumption
  <2>3. other \in 0..MaxFaults /\ copy \in [Claimers -> 0..MaxFaults]
    BY <2>2 DEF CloudInv, LabelsOK
  <2>4. GCP!CallTypeOK /\ AWS!CallTypeOK
    BY DEF CloudInv, CallsOK, GCP!CallTypeOK, GCP!Call, GCP!Results,
           AWS!CallTypeOK, AWS!Call, AWS!Results, Call, Results
  <2>5. {claim, before} \subseteq Clusters \cup {Nil}
    BY DEF CloudInv
  <2>6. QED BY <2>3, <2>4, <2>5 DEF GCP!TypeOK, AWS!TypeOK
<1>3. type = "software" => File!TypeOK
  BY DEF ClaimInv, FileInv
<1>4. type \in Types
  BY DEF ClaimInv
<1>5. CASE type = "vault"
  BY <1>1, <1>5, Zenon DEF TypeOK
<1>6. CASE type = "gcpkms"
  <2>1. "gcpkms" # "vault" /\ GCP!TypeOK
    BY <1>2, <1>6
  <2>2. QED BY <1>6, <2>1, Zenon DEF TypeOK
<1>7. CASE type = "awskms"
  <2>1. "awskms" # "vault" /\ "awskms" # "gcpkms" /\ AWS!TypeOK
    BY <1>2, <1>7
  <2>2. QED BY <1>7, <2>1, Zenon DEF TypeOK
<1>8. CASE type = "software"
  <2>1. "software" # "vault" /\ "software" # "gcpkms" /\ "software" # "awskms" /\ File!TypeOK
    BY <1>3, <1>8
  <2>2. QED BY <1>8, <2>1, Zenon DEF TypeOK
<1>9. QED BY <1>4, <1>5, <1>6, <1>7, <1>8 DEF Types

\* ClaimCluster implements KeyOwnership: the first cluster to own a key owns it for
\* ever and only an owner is told so, with any number of racing claimers, lost
\* answers, stale reads, crashes and power losses; for the labels and tags of the
\* cloud as long as claims are serialized.
THEOREM OneOwnerForEver == Spec => OneOwner
<1>1. Init => Ownership!Init
  BY ClaimInit DEF Ownership!Init
<1>2. ClaimInv /\ [Next]_vars => [Ownership!Next]_<<owner, told>>
  <2> SUFFICES ASSUME ClaimInv, [Next]_vars PROVE [Ownership!Next]_<<owner, told>>
    OBVIOUS
  <2>1. OwnerStep(owner, owner', told, told')
    BY ClaimStep
  <2>2. QED BY <2>1 DEF OwnerStep, Ownership!Next, Ownership!Own, Ownership!Tell
<1>3. QED BY <1>1, <1>2, ClaimTypes, ClaimInvariant, PTL DEF Spec, OneOwner, Ownership!Spec
=============================================================================
