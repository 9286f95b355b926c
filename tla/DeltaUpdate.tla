---------------------------- MODULE DeltaUpdate ----------------------------
(***************************************************************************)
(* `ascrybe update` over a shared unit cache: tools/delta-update-run.mjs,  *)
(* delta/planner.mjs, delta/unit-cache.mjs, delta/equivalence.mjs and      *)
(* delta/manifest.mjs.                                                     *)
(*                                                                         *)
(* Updaters are processes.  Each resolves a ref to a commit once, plans    *)
(* one unit per file, takes the receipts of a unit from the cache or       *)
(* produces it, and seals a manifest.  The cache is a directory per unit   *)
(* id with a mkdir lock beside it, which readers do not take; a call of    *)
(* the file system is one step, and between two of them any other updater  *)
(* runs, dies, or the disk changes.                                        *)
(*                                                                         *)
(* A file stands for one (file, matching route) pair, a content for blob   *)
(* and digest, and a unit id for both.  Producers are functions of their   *)
(* unit, as their contract digests are meant to ensure.                    *)
(***************************************************************************)
EXTENDS Integers

CONSTANTS
  Updaters,
  Files,
  Contents,
  Refusing,     \* units whose producer throws or refuses
  Cached,       \* units that earlier updates have left in the cache
  MaxCommits, MaxFaults, MaxStarts,   \* bounds of the environment and of retries
  Absent

ASSUME DeltaAssumption ==
  /\ Absent \notin Contents
  /\ Refusing \subseteq Files \X Contents
  /\ Cached \subseteq (Files \X Contents) \ Refusing
  /\ MaxCommits \in Nat /\ MaxFaults \in Nat /\ MaxStarts \in Nat

Units == Files \X Contents
Inventories == [Files -> Contents \cup {Absent}]
Entries == {"none", "whole", "lacking", "corrupt"}
Dispositions == {"none", "produced", "reused", "forged", "refused"}
Modes == {"delta", "full"}

VARIABLES
  head,       \* the tree the ref names now
  entry,      \* what the cache directory of a unit holds
  lock,       \* the lock directory of a unit exists
  manifest,   \* estate-build-manifest.json in the output of each updater
  up,         \* the local state of each updater
  commits, faults, starts   \* counted against their bounds

disk == <<entry, lock>>
env == <<head, commits, faults, starts>>
vars == <<head, entry, lock, manifest, up, commits, faults, starts>>

\* A "lacking" entry validates, and lacks a record of its unit; a "forged"
\* receipt is one reused from it.
NoTree == [f \in Files |-> Absent]
NoReceipts == [f \in Files |-> "none"]
Idle == [pc |-> "idle", mode |-> "delta", inv |-> NoTree,
         planned |-> {}, todo |-> {}, got |-> NoReceipts, holds |-> FALSE]
Unwritten == [inv |-> NoTree, promotable |-> FALSE]

Init ==
  /\ head \in Inventories
  /\ entry = [u \in Units |-> IF u \in Cached THEN "whole" ELSE "none"]
  /\ lock = [u \in Units |-> FALSE]
  /\ manifest = [p \in Updaters |-> Unwritten]
  /\ up = [p \in Updaters |-> Idle]
  /\ commits = 0 /\ faults = 0 /\ starts = 0

At(p, label) == up[p].pc = label
Goto(p, label) == up' = [up EXCEPT ![p].pc = label]
Ended == {"staged", "refused", "failed"}

-----------------------------------------------------------------------------
(* planDeltaUnits *)

Tree(inv) == {f \in Files : inv[f] # Absent}

Diff(parent, inv) ==
  [added     |-> Tree(inv) \ Tree(parent),
   unchanged |-> {f \in Tree(inv) \cap Tree(parent) : inv[f] = parent[f]},
   modified  |-> {f \in Tree(inv) \cap Tree(parent) : inv[f] # parent[f]},
   deleted   |-> Tree(parent) \ Tree(inv)]

Planned(diff) == diff.added \cup diff.unchanged \cup diff.modified

\* The plan takes the files in the order of their keys.
File(p) == CHOOSE f \in up[p].todo : TRUE
Unit(p) == <<File(p), up[p].inv[File(p)]>>

\* Where the plan goes on with the files of `todo`.
NextStep(mode, todo) ==
  IF todo = {} THEN "seal" ELSE IF mode = "full" THEN "produce" ELSE "look"

\* The updater begins: the ref is resolved once, and the parent inventory is
\* that of the manifest found in its output, or none.
Start(p) ==
  /\ up[p].pc \in Ended \cup {"idle", "dead"} /\ starts < MaxStarts
  /\ starts' = starts + 1
  /\ \E mode \in Modes, parent \in {NoTree, manifest[p].inv} :
       LET todo == Planned(Diff(IF mode = "full" THEN NoTree ELSE parent, head))
       IN up' = [up EXCEPT ![p] =
            [Idle EXCEPT !.pc = NextStep(mode, todo), !.mode = mode, !.inv = head,
                         !.planned = todo, !.todo = todo]]
  /\ UNCHANGED <<head, disk, manifest, commits, faults>>

\* The receipt of the current file is kept, and the plan goes on.
Keep(p, disposition) ==
  LET rest == up[p].todo \ {File(p)}
  IN up' = [up EXCEPT ![p].got[File(p)] = disposition, ![p].todo = rest,
                      ![p].holds = FALSE, ![p].pc = NextStep(up[p].mode, rest)]

-----------------------------------------------------------------------------
(* readUnitCacheEntry, called without the lock to reuse a unit, and with   *)
(* the lock before one is published.                                       *)

\* The receipt recomputes from its own bytes; reading none at all throws as
\* a corrupt one does.
Validates(e) == e \in {"whole", "lacking"}

\* Mutant: the receipt is not given a disposition of its own.
NotRelabelled(e) == e

Reused(e) == IF e = "whole" THEN "reused" ELSE "forged"

Missed(p) == Goto(p, IF up[p].holds THEN "publish" ELSE "produce")

\* existsSync
Look(p) ==
  /\ At(p, "look")
  /\ IF entry[Unit(p)] = "none" THEN Missed(p) ELSE Goto(p, "read")
  /\ UNCHANGED <<disk, manifest, env>>

\* readFileSync and recomputeAndValidateReceipt; a valid entry is reused by
\* a reader, and left alone by a writer.
Read(p) ==
  /\ At(p, "read")
  /\ IF ~Validates(entry[Unit(p)]) THEN Goto(p, "setAside")
     ELSE IF up[p].holds THEN Goto(p, "release")
     ELSE Keep(p, Reused(entry[Unit(p)]))
  /\ UNCHANGED <<disk, manifest, env>>

\* quarantine renames whatever has the path now, which another updater may
\* have published since the read; with nothing there the rename fails.
SetAside(p) ==
  /\ At(p, "setAside")
  /\ entry' = [entry EXCEPT ![Unit(p)] = "none"]
  /\ IF entry[Unit(p)] = "none" THEN Goto(p, "remove") ELSE Missed(p)
  /\ UNCHANGED <<lock, manifest, env>>

\* ... and rmSync removes it by path.
Remove(p) ==
  /\ At(p, "remove")
  /\ entry' = [entry EXCEPT ![Unit(p)] = "none"]
  /\ Missed(p)
  /\ UNCHANGED <<lock, manifest, env>>

-----------------------------------------------------------------------------
(* The producer, and writeUnitCacheEntry *)

\* Only what was produced is published, and full mode has no cache root.
Produce(p) ==
  /\ At(p, "produce")
  /\ IF Unit(p) \in Refusing THEN Keep(p, "refused")
     ELSE IF up[p].mode = "full" THEN Keep(p, "produced")
     ELSE Goto(p, "lock")
  /\ UNCHANGED <<disk, manifest, env>>

\* mkdirSync
AcquireLock(p) ==
  /\ At(p, "lock") /\ ~lock[Unit(p)]
  /\ lock' = [lock EXCEPT ![Unit(p)] = TRUE]
  /\ up' = [up EXCEPT ![p].pc = "look", ![p].holds = TRUE]
  /\ UNCHANGED <<entry, manifest, env>>

\* Mutant: a lock is waited for without end.
WaitOn(p) == At(p, "lock") /\ lock[Unit(p)] /\ UNCHANGED vars

\* CACHE_UNIT_LOCK_TIMEOUT leaves the plan, whoever has the lock.
LockTimesOut(p) ==
  /\ At(p, "lock") /\ lock[Unit(p)]
  /\ Goto(p, "failed")
  /\ UNCHANGED <<disk, manifest, env>>

\* Mutant: the staged directory replaces the one it finds.
CanReplace(e) == TRUE

\* renameSync of a directory onto one that holds an entry is an error.
CanRename(e) == e = "none"

\* The entry is staged beside its place and renamed into it.
Publish(p) ==
  /\ At(p, "publish")
  /\ IF CanRename(entry[Unit(p)])
     THEN /\ entry' = [entry EXCEPT ![Unit(p)] = "whole"]
          /\ Goto(p, "release")
     ELSE Goto(p, "abandon") /\ UNCHANGED entry
  /\ UNCHANGED <<lock, manifest, env>>

\* finally: the lock is removed by its path.
Release(p) ==
  /\ up[p].pc \in {"release", "abandon"}
  /\ lock' = [lock EXCEPT ![Unit(p)] = FALSE]
  /\ IF At(p, "release") THEN Keep(p, "produced")
     ELSE up' = [up EXCEPT ![p].pc = "failed", ![p].holds = FALSE]
  /\ UNCHANGED <<entry, manifest, env>>

-----------------------------------------------------------------------------
(* sealUpdate and runUpdateCommand *)

\* What a producer gives for a file of an inventory.
Fresh(inv, f) == IF <<f, inv[f]>> \in Refusing THEN "refused" ELSE "produced"

\* Mutant: the full arm resolves the ref again.
ResolvedAgain(inv) == [f \in Files |-> IF f \in Tree(head) THEN Fresh(head, f) ELSE "none"]

\* The full arm plans the same inventory with no parent and no cache.
FullArm(inv) == [f \in Files |-> IF f \in Tree(inv) THEN Fresh(inv, f) ELSE "none"]

\* A reused receipt keeps the records of the one it came from.
SameRecords(a, b) == a = b \/ {a, b} = {"produced", "reused"}

\* Mutant: equal units are taken for equal records.
SameUnits(inv, got) == \A f \in Files : (got[f] = "none") <=> (FullArm(inv)[f] = "none")

\* compareFullAndDeltaBuilds: the files, the semantic digest, the records.
Equivalent(inv, got) == \A f \in Files : SameRecords(got[f], FullArm(inv)[f])

\* The manifest conserves its units, whatever the oracle says of it.
Promotable(p) ==
  \A f \in Files : (f \in up[p].planned) <=> (up[p].got[f] # "none")

Seal(p) ==
  /\ At(p, "seal")
  /\ manifest' = [manifest EXCEPT ![p] = [inv |-> up[p].inv, promotable |-> Promotable(p)]]
  /\ Goto(p, "exit")
  /\ UNCHANGED <<disk, env>>

\* The exit code: 0 when the manifest is promotable and, in delta mode, the
\* oracle found no difference.
Exit(p) ==
  /\ At(p, "exit")
  /\ Goto(p, IF /\ manifest[p].promotable
                /\ up[p].mode = "delta" => Equivalent(up[p].inv, up[p].got)
             THEN "staged" ELSE "refused")
  /\ UNCHANGED <<disk, manifest, env>>

-----------------------------------------------------------------------------
(* The environment *)

\* The ref moves.
Commit(f) ==
  /\ commits < MaxCommits /\ commits' = commits + 1
  /\ \E c \in (Contents \cup {Absent}) \ {head[f]} : head' = [head EXCEPT ![f] = c]
  /\ UNCHANGED <<disk, manifest, up, faults, starts>>

Fault == faults < MaxFaults /\ faults' = faults + 1

\* A power loss tears an entry, which is not synced, or somebody edits one:
\* what comes of it need not validate.
Damage(u) ==
  /\ Fault /\ entry[u] = "whole"
  /\ \E e \in {"lacking", "corrupt"} : entry' = [entry EXCEPT ![u] = e]
  /\ UNCHANGED <<head, lock, manifest, up, commits, starts>>

\* A lock names no owner and has no age: somebody removes one.
ClearLock(u) ==
  /\ Fault /\ lock[u] /\ lock' = [lock EXCEPT ![u] = FALSE]
  /\ UNCHANGED <<head, entry, manifest, up, commits, starts>>

\* The process dies, and its lock stays.
Die(p) ==
  /\ Fault /\ up[p].pc \notin Ended \cup {"idle", "dead"}
  /\ up' = [up EXCEPT ![p] = [Idle EXCEPT !.pc = "dead"]]
  /\ UNCHANGED <<head, disk, manifest, commits, starts>>

Reuse(p) == Look(p) \/ Read(p) \/ SetAside(p) \/ Remove(p)
Write(p) == AcquireLock(p) \/ LockTimesOut(p) \/ Publish(p) \/ Release(p)
Step(p) == Reuse(p) \/ Produce(p) \/ Write(p) \/ Seal(p) \/ Exit(p)

Next ==
  \/ \E p \in Updaters : Start(p) \/ Step(p) \/ Die(p)
  \/ \E f \in Files : Commit(f)
  \/ \E u \in Units : Damage(u) \/ ClearLock(u)

\* A process that runs goes on; nobody has to start, edit or repair anything.
Spec == Init /\ [][Next]_vars /\ \A p \in Updaters : WF_vars(Step(p))

-----------------------------------------------------------------------------
(* Properties *)

TypeOK ==
  /\ head \in Inventories
  /\ entry \in [Units -> Entries] /\ lock \in [Units -> BOOLEAN]
  /\ manifest \in [Updaters -> [inv : Inventories, promotable : BOOLEAN]]
  /\ up \in [Updaters ->
       [pc : {"idle", "look", "read", "setAside", "remove", "produce", "lock", "publish",
              "release", "abandon", "seal", "exit", "dead"} \cup Ended,
        mode : Modes, inv : Inventories, planned : SUBSET Files, todo : SUBSET Files,
        got : [Files -> Dispositions], holds : BOOLEAN]]
  /\ commits \in Nat /\ faults \in Nat /\ starts \in Nat

\* An update that exits with 0 has, for the commit its ref was resolved to,
\* the records a build without a cache gives, whatever the cache went
\* through and whatever the parent was (delta-update-run.mjs 373-403,
\* equivalence.mjs 27-44).
StagedIsFull ==
  \A p \in Updaters : At(p, "staged") =>
    /\ manifest[p].inv = up[p].inv
    /\ \A f \in Files : up[p].got[f] # "forged"
    /\ \A f \in Tree(up[p].inv) : SameRecords(up[p].got[f], Fresh(up[p].inv, f))

\* An update is refused only for a receipt it reused from a lacking entry:
\* a ref that moves under it, a parent of any age, a reader that sets aside
\* what another has just published and a lock removed by hand never make
\* the two arms differ (delta-update-run.mjs 267-274, 390-396).
RefusedForCause ==
  \A p \in Updaters : At(p, "refused") => \E f \in Files : up[p].got[f] = "forged"

\* Nobody repairs or replaces an entry in its place: what was damaged is set
\* aside before the unit is published again, even if two writers are let in
\* (unit-cache.mjs 76-109).
NeverRepairedInPlace ==
  [][\A u \in Units : entry[u] \in {"lacking", "corrupt"} => entry'[u] # "whole"]_vars

\* Every update that begins ends, with a verdict or a failure, unless its
\* process dies: no lock left behind by a dead one holds it up for ever
\* (unit-cache.mjs 34-44).
EveryUpdateEnds == \A p \in Updaters : <>[](up[p].pc \in Ended \cup {"idle", "dead"})
=============================================================================
