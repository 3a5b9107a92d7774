----------------------------- MODULE MarkerFile -----------------------------
(***************************************************************************)
(* The claim of a software key: a marker file published with link(2) under *)
(* a file lock, against `provision`, which replaces the key file under the *)
(* same lock, against crashes of the processes and against power loss,     *)
(* which may forget what was not synced.                                   *)
(***************************************************************************)
EXTENDS Naturals, FiniteSets

CONSTANTS Procs,      \* processes that claim or provision
          Relocating, \* those of them that name the marker with --binding-file
          Clusters, Keys, Nil,
          Torn,       \* a marker whose content was lost
          MaxFaults   \* bound: failed calls, crashes and power losses

VARIABLES disk,      \* the directory as the processes see it
          durable,   \* what a power loss leaves of it at least
          lock,      \* lock file -> the process that holds its flock
          proc,      \* process -> its operation
          reported,  \* history: <<cluster, key, lock>> of every successful claim
          faults

vars == <<disk, durable, lock, proc, reported, faults>>

\* synced: the content of the file has reached the disk.
Marker == [cluster : Clusters, key : Keys, synced : BOOLEAN]
Directory == [key : Keys \cup {Nil}, marker : Marker \cup {Nil, Torn}]

Locks == {"key", "marker"}

Proc == [op : {"none", "claim", "provision"},
         pc : {"idle", "lock", "precheck", "read", "publish", "inspect", "temp",
               "link", "rename", "sync", "done"},
         id : Clusters \cup {Nil}, key : Keys \cup {Nil},
         owner : Clusters \cup {Nil},   \* the cluster read from, or written to, the marker
         synced : BOOLEAN]              \* its temporary file is
Idle == [op |-> "none", pc |-> "idle", id |-> Nil, key |-> Nil, owner |-> Nil,
         synced |-> FALSE]

TypeOK ==
  /\ {disk, durable} \subseteq Directory
  /\ lock \in [Locks -> Procs \cup {Nil}]
  /\ proc \in [Procs -> Proc]
  /\ reported \subseteq Clusters \X Keys \X Locks
  /\ faults \in 0..MaxFaults

Init ==
  /\ \E k \in Keys \cup {Nil} : disk = [key |-> k, marker |-> Nil]
  /\ durable = disk
  /\ lock = [l \in Locks |-> Nil]
  /\ proc = [p \in Procs |-> Idle]
  /\ reported = {} /\ faults = 0

Fault == faults < MaxFaults /\ faults' = faults + 1

\* A key generated now differs from every key there is.
Fresh == Keys \ ( {disk.key, durable.key} \cup {proc[p].key : p \in Procs}
             \cup {m.key : m \in {disk.marker, durable.marker} \ {Nil, Torn}}
             \cup {r[2] : r \in reported} )

\* NewSoftwareWithBindingFile: the lock is that of the key file, or that of the
\* marker when it is named.  provision knows only the key file.
lockPath(p) ==
  IF p \in Relocating /\ proc[p].op = "claim" THEN "marker" ELSE "key"

\* The end of withSoftwareKeyLock.
Return(p) ==
  /\ proc' = [proc EXCEPT ![p] = Idle]
  /\ lock' = [l \in Locks |-> IF lock[l] = p THEN Nil ELSE lock[l]]

Goto(p, from, to) ==
  /\ proc[p].pc = from
  /\ proc' = [proc EXCEPT ![p].pc = to]
-----------------------------------------------------------------------------
\* The key is loaded when the backend is built, long before the claim.
Load(p, k) ==
  /\ proc[p].pc = "idle" /\ disk.key # Nil
  /\ proc' = [proc EXCEPT ![p] = [Idle EXCEPT !.op = "claim", !.pc = "lock",
                                              !.id = k, !.key = disk.key]]
  /\ UNCHANGED <<disk, durable, lock, reported, faults>>

Provision(p) ==
  /\ proc[p].pc = "idle"
  /\ \E n \in Fresh : proc' = [proc EXCEPT ![p] = [Idle EXCEPT !.op = "provision",
                                                   !.pc = "lock", !.key = n]]
  /\ UNCHANGED <<disk, durable, lock, reported, faults>>

acquireSoftwareKeyLock(p) ==
  /\ lock[lockPath(p)] = Nil
  /\ lock' = [lock EXCEPT ![lockPath(p)] = p]
  /\ Goto(p, "lock", IF proc[p].op = "claim" THEN "precheck" ELSE "inspect")
  /\ UNCHANGED <<disk, durable, reported, faults>>

\* Mutant of Precheck: the key that was loaded is taken to be the key on disk.
PrecheckNothing(p) ==
  /\ Goto(p, "precheck", "read")
  /\ UNCHANGED <<disk, durable, lock, reported, faults>>

\* The key file, read again under the lock, must hold the loaded key.
Precheck(p) ==
  /\ \/ proc[p].key = disk.key /\ Goto(p, "precheck", "read") /\ UNCHANGED lock
     \/ proc[p].pc = "precheck" /\ proc[p].key # disk.key /\ Return(p)
  /\ UNCHANGED <<disk, durable, reported, faults>>

\* fileBinding.read: no marker is unclaimed; one that does not decode, or names
\* another key, is corrupt.
Read(p) ==
  /\ proc[p].pc = "read"
  /\ \/ disk.marker = Nil /\ Goto(p, "read", "temp") /\ UNCHANGED lock
     \/ /\ disk.marker \notin {Nil, Torn} /\ disk.marker.key = proc[p].key
        /\ proc' = [proc EXCEPT ![p].pc = "publish", ![p].owner = disk.marker.cluster]
        /\ UNCHANGED lock
     \/ /\ disk.marker = Torn \/ (disk.marker # Nil /\ disk.marker.key # proc[p].key)
        /\ Return(p)
  /\ UNCHANGED <<disk, durable, reported, faults>>

\* Mutant of syncPublishedBinding: a marker found in place is taken to be durable.
trustPublishedBinding(p) ==
  /\ Goto(p, "publish", "done")
  /\ UNCHANGED <<disk, durable, lock, reported, faults>>

\* A marker that was found in place is synced, file and directory, before its
\* owner is compared: whoever published it may have died before that.
syncPublishedBinding(p) ==
  /\ Goto(p, "publish", "done")
  /\ disk' = [disk EXCEPT !.marker.synced = TRUE]
  /\ durable' = disk'
  /\ UNCHANGED <<lock, reported, faults>>

\* The temporary file, of a marker or of a key: written, synced, closed.
WriteTemp(p) ==
  /\ proc[p].pc = "temp"
  /\ proc' = [proc EXCEPT ![p].pc = IF proc[p].op = "claim" THEN "link" ELSE "rename",
                          ![p].synced = TRUE]
  /\ UNCHANGED <<disk, durable, lock, reported, faults>>

\* link(2) never replaces: with a marker in place the claim reads it instead.
Link(p) ==
  /\ IF disk.marker = Nil
     THEN /\ proc[p].pc = "link"
          /\ proc' = [proc EXCEPT ![p].pc = "sync", ![p].owner = proc[p].id]
          /\ disk' = [disk EXCEPT !.marker = [cluster |-> proc[p].id,
                                              key |-> proc[p].key,
                                              synced |-> proc[p].synced]]
     ELSE Goto(p, "link", "read") /\ UNCHANGED disk
  /\ UNCHANGED <<durable, lock, reported, faults>>

\* syncBindingDirectory, or the directory sync after a rename.
SyncDirectory(p) ==
  /\ Goto(p, "sync", "done")
  /\ durable' = disk
  /\ UNCHANGED <<disk, lock, reported, faults>>

\* requireClaimOwner, and the return to the caller.
Finish(p) ==
  /\ proc[p].pc = "done"
  /\ reported' = IF proc[p].owner = proc[p].id /\ proc[p].op = "claim"
                 THEN reported \cup {<<proc[p].id, proc[p].key, lockPath(p)>>} ELSE reported
  /\ Return(p)
  /\ UNCHANGED <<disk, durable, faults>>
-----------------------------------------------------------------------------
\* provisionSoftwareKey refuses a key that has a marker, and without --overwrite
\* any key; then writeSoftwareKeyAtomically.
Inspect(p) ==
  /\ \/ disk.marker = Nil /\ Goto(p, "inspect", "temp") /\ UNCHANGED lock
     \/ proc[p].pc = "inspect" /\ ~ (disk.key = Nil /\ disk.marker = Nil) /\ Return(p)
  /\ UNCHANGED <<disk, durable, reported, faults>>

Rename(p) ==
  /\ Goto(p, "rename", "sync")
  /\ disk' = [disk EXCEPT !.key = proc[p].key]
  /\ UNCHANGED <<durable, lock, reported, faults>>

\* Any call may fail, or its context end, and a process may die, anywhere: the
\* lock is released and nothing that was done is undone.
Abandon(p) ==
  /\ proc[p].pc # "idle"
  /\ Fault
  /\ Return(p)
  /\ UNCHANGED <<disk, durable, reported>>

\* Each directory entry that was not synced may be lost, and so may the content
\* of a file that was not.
PowerLoss ==
  /\ Fault
  /\ \E k \in {disk.key, durable.key}, m \in {disk.marker, durable.marker} :
       \E n \in IF m \in {Nil, Torn} \/ m.synced THEN {m} ELSE {m, Torn} :
         disk' = [key |-> k, marker |-> n]
  /\ durable' = disk'
  /\ proc' = [p \in Procs |-> Idle]
  /\ lock' = [l \in Locks |-> Nil]
  /\ UNCHANGED reported

Next ==
  \/ \E p \in Procs :
       \/ \E k \in Clusters : Load(p, k)
       \/ Provision(p) \/ acquireSoftwareKeyLock(p) \/ Precheck(p) \/ Read(p)
       \/ syncPublishedBinding(p) \/ WriteTemp(p) \/ Link(p) \/ SyncDirectory(p)
       \/ Finish(p) \/ Inspect(p) \/ Rename(p) \/ Abandon(p)
  \/ PowerLoss

Spec == Init /\ [][Next]_vars
-----------------------------------------------------------------------------
told == {r[1] : r \in reported}
owner == IF durable.marker \in {Nil, Torn} THEN Nil ELSE durable.marker.cluster

\* Once a claim under the lock of the key file has succeeded, that key stays in
\* the file, also after a power loss: no provision replaces it, neither one that
\* inspected the marker earlier nor one whose rename was not yet durable (the
\* precheck, the shared lock and the refusal of provisionSoftwareKey).  A marker
\* with a lock of its own does not promise this.
ClaimedKeyStays ==
  \A r \in reported : r[3] = "key" => disk.key = r[2] /\ durable.key = r[2]
=============================================================================
