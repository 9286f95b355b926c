------------------------- MODULE DeltaUpdate_proofs -------------------------
(***************************************************************************)
(* Proofs about DeltaUpdate for every set of updaters, files and contents, *)
(* and any number of commits, faults and starts.                           *)
(***************************************************************************)
EXTENDS DeltaUpdate, TLAPS

USE DeltaAssumption

-----------------------------------------------------------------------------
(* The invariant *)

LocalNames == {"pc", "mode", "inv", "planned", "todo", "got", "holds"}
Planning == {"look", "read", "setAside", "remove", "produce", "lock", "publish",
             "release", "abandon"}
Sealed == {"seal", "exit", "staged", "refused"}
Places == Planning \cup Sealed \cup {"idle", "dead", "failed"}

Current(l) == CHOOSE f \in l.todo : TRUE
CurrentUnit(l) == <<Current(l), l.inv[Current(l)]>>

\* A receipt agrees with the producer, or was reused from a lacking entry.
Honest(l, f) == SameRecords(l.got[f], Fresh(l.inv, f))

\* The locals of an updater, whatever the others and the disk do: a file of
\* the tree is still to do, or has an honest or a forged receipt.
LocalOK(l) ==
  /\ DOMAIN l = LocalNames
  /\ l.pc \in Places /\ l.mode \in Modes /\ l.holds \in BOOLEAN
  /\ l.inv \in Inventories /\ l.got \in [Files -> Dispositions]
  /\ l.planned = Tree(l.inv) /\ l.todo \in SUBSET Tree(l.inv)
  /\ \A f \in Files : IF f \in Tree(l.inv) \ l.todo
                      THEN Honest(l, f) \/ (l.got[f] = "forged" /\ l.mode = "delta")
                      ELSE l.got[f] = "none"
  /\ l.pc \in Planning => l.todo # {}
  /\ l.pc \in Sealed => l.todo = {}
  /\ (l.mode = "full" /\ l.pc \in Planning) => l.pc = "produce"
  /\ (l.pc \in {"lock", "publish", "release", "abandon"} \/ (l.holds /\ l.pc \in Planning))
       => CurrentUnit(l) \notin Refusing
  /\ l.pc = "staged" => \A f \in Files : l.got[f] # "forged"
  /\ l.pc = "refused" => \E f \in Files : l.got[f] = "forged"

\* Only what a producer gave is in the cache, and the manifest an updater
\* has sealed is there until it seals another.
Inv ==
  /\ head \in Inventories
  /\ entry \in [Units -> Entries]
  /\ \A u \in Units : entry[u] # "none" => u \notin Refusing
  /\ up = [p \in Updaters |-> up[p]] /\ manifest = [p \in Updaters |-> manifest[p]]
  /\ \A p \in Updaters :
       /\ LocalOK(up[p])
       /\ up[p].pc \in {"exit", "staged", "refused"} =>
            manifest[p] = [inv |-> up[p].inv, promotable |-> TRUE]

-----------------------------------------------------------------------------
(* Lemmas *)

\* Whatever the parent, the plan covers the tree of the inventory.
LEMMA PlannedIsTree ==
  ASSUME NEW parent, NEW inv
  PROVE  Planned(Diff(parent, inv)) = Tree(inv)
BY DEF Planned, Diff, Tree

\* The file that is current is one of those to do.
LEMMA CurrentIsToDo ==
  ASSUME NEW l, LocalOK(l), l.pc \in Planning
  PROVE  Current(l) \in l.todo /\ Current(l) \in Tree(l.inv) /\ Current(l) \in Files
         /\ CurrentUnit(l) \in Units
<1>1. l.todo # {} /\ l.todo \in SUBSET Tree(l.inv) /\ l.inv \in Inventories
  BY DEF LocalOK
<1>2. Current(l) \in l.todo
  BY <1>1 DEF Current
<1>3. Current(l) \in Files /\ l.inv[Current(l)] \in Contents
  BY <1>1, <1>2 DEF Tree, Inventories
<1> QED
  BY <1>1, <1>2, <1>3 DEF CurrentUnit, Units

\* An updater that starts has everything to do.
LEMMA Started ==
  ASSUME NEW mode \in Modes, NEW inv \in Inventories
  PROVE  LocalOK([Idle EXCEPT !.pc = NextStep(mode, Tree(inv)), !.mode = mode,
                              !.inv = inv, !.planned = Tree(inv), !.todo = Tree(inv)])
BY DEF LocalOK, Idle, NextStep, Tree, Inventories, Modes, NoTree, NoReceipts, LocalNames,
       Planning, Sealed, Places, Dispositions

LEMMA AtRest == LocalOK(Idle) /\ LocalOK([Idle EXCEPT !.pc = "dead"])
BY DEF LocalOK, Idle, Tree, Inventories, Modes, NoTree, NoReceipts, LocalNames,
       Planning, Sealed, Places, Dispositions

\* A change of place alone, where the new place asks no more than is known.
LEMMA Moved ==
  ASSUME NEW l, LocalOK(l), l.pc \in Planning,
         NEW label \in Planning \cup {"failed"},
         l.mode = "full" => label \in {"produce", "failed"},
         label \in {"lock", "publish", "release", "abandon"} => CurrentUnit(l) \notin Refusing
  PROVE  LocalOK([l EXCEPT !.pc = label])
BY DEF LocalOK, Honest, Current, CurrentUnit, LocalNames, Planning, Sealed, Places

\* An honest receipt for the current file, or in delta mode a forged one,
\* and the plan goes on.
LEMMA Kept ==
  ASSUME NEW l, LocalOK(l), l.pc \in Planning, NEW d \in Dispositions,
         SameRecords(d, Fresh(l.inv, Current(l))) \/ (d = "forged" /\ l.mode = "delta")
  PROVE  LET rest == l.todo \ {Current(l)}
         IN LocalOK([l EXCEPT !.got[Current(l)] = d, !.todo = rest, !.holds = FALSE,
                              !.pc = NextStep(l.mode, rest)])
<1> DEFINE f == Current(l)
           rest == l.todo \ {f}
           n == [l EXCEPT !.got[f] = d, !.todo = rest, !.holds = FALSE,
                          !.pc = NextStep(l.mode, rest)]
<1>1. f \in l.todo /\ f \in Tree(l.inv) /\ f \in Files
  BY CurrentIsToDo
<1>2. /\ DOMAIN n = LocalNames /\ n.mode = l.mode /\ n.inv = l.inv /\ n.planned = l.planned
      /\ n.todo = rest /\ n.holds = FALSE /\ n.pc = NextStep(l.mode, rest)
      /\ n.got = [l.got EXCEPT ![f] = d]
  BY DEF LocalOK, LocalNames
<1>3. n.got \in [Files -> Dispositions] /\ n.got[f] = d
      /\ \A g \in Files \ {f} : n.got[g] = l.got[g]
  BY <1>1, <1>2 DEF LocalOK
<1>4. \A g \in Files : IF g \in Tree(n.inv) \ n.todo
                       THEN Honest(n, g) \/ (n.got[g] = "forged" /\ n.mode = "delta")
                       ELSE n.got[g] = "none"
  BY <1>1, <1>2, <1>3 DEF LocalOK, Honest
<1>5. n.pc \in Places /\ (n.pc \in Planning => n.todo # {}) /\ (n.pc \in Sealed => n.todo = {})
      /\ n.pc \in {"seal", "produce", "look"}
      /\ ((n.mode = "full" /\ n.pc \in Planning) => n.pc = "produce")
  BY <1>2 DEF NextStep, Planning, Sealed, Places
<1>6. LocalOK(n)
  BY <1>2, <1>3, <1>4, <1>5 DEF LocalOK
<1> QED
  BY <1>6

\* A step of one updater keeps the invariant if it leaves its locals in
\* order, the cache with what producers gave, and a manifest that says so.
LEMMA OwnStep ==
  ASSUME Inv, NEW p \in Updaters, NEW l, LocalOK(l), up' = [up EXCEPT ![p] = l],
         head' \in Inventories, entry' \in [Units -> Entries],
         \A u \in Units : entry'[u] # "none" => u \notin Refusing,
         manifest' = [q \in Updaters |-> manifest'[q]],
         \A q \in Updaters \ {p} : manifest'[q] = manifest[q],
         l.pc \in {"exit", "staged", "refused"} =>
           manifest'[p] = [inv |-> l.inv, promotable |-> TRUE]
  PROVE  Inv'
<1>1. up'[p] = l /\ \A q \in Updaters \ {p} : up'[q] = up[q]
  BY DEF Inv
<1>2. up' = [q \in Updaters |-> up'[q]]
  BY DEF Inv
<1>3. ASSUME NEW q \in Updaters
      PROVE  /\ LocalOK(up'[q])
             /\ up'[q].pc \in {"exit", "staged", "refused"} =>
                  manifest'[q] = [inv |-> up'[q].inv, promotable |-> TRUE]
  BY <1>1 DEF Inv
<1> QED
  BY <1>2, <1>3 DEF Inv

\* The same when neither the cache nor a manifest changes.
LEMMA QuietStep ==
  ASSUME Inv, NEW p \in Updaters, NEW l, LocalOK(l), up' = [up EXCEPT ![p] = l],
         UNCHANGED <<head, entry, manifest>>, l.pc \notin {"exit", "staged", "refused"}
  PROVE  Inv'
BY OwnStep DEF Inv

\* A miss goes on to what its caller does next.
LEMMA Misses ==
  ASSUME Inv, NEW p \in Updaters, up[p].pc \in {"look", "read", "setAside", "remove"}, Missed(p)
  PROVE  \E l : LocalOK(l) /\ up' = [up EXCEPT ![p] = l]
                /\ l.pc \notin {"exit", "staged", "refused"}
<1> DEFINE label == IF up[p].holds THEN "publish" ELSE "produce"
           l == [up[p] EXCEPT !.pc = label]
<1>1. LocalOK(up[p]) /\ up[p].pc \in Planning
  BY DEF Inv, Planning
<1>2. up[p].mode # "full" /\ (up[p].holds => CurrentUnit(up[p]) \notin Refusing)
  BY <1>1 DEF LocalOK
<1>3. LocalOK(l)
  BY <1>1, <1>2, Moved DEF Planning
<1>4. up' = [up EXCEPT ![p] = l] /\ l.pc = label
  BY <1>1 DEF Missed, Goto, Inv, LocalOK, LocalNames
<1>5. l.pc \notin {"exit", "staged", "refused"}
  BY <1>4
<1> HIDE DEF l
<1> QED
  BY <1>3, <1>4, <1>5

-----------------------------------------------------------------------------
(* The steps *)

LEMMA InitInv == Init => Inv
<1> SUFFICES ASSUME Init PROVE Inv
  OBVIOUS
<1>1. \A p \in Updaters : up[p] = Idle /\ Idle.pc = "idle"
  BY DEF Init, Idle
<1>2. \A u \in Units : entry[u] # "none" => u \notin Refusing
  BY DeltaAssumption DEF Init, Units
<1>3. entry \in [Units -> Entries]
  BY DEF Init, Entries
<1> QED
  BY <1>1, <1>2, <1>3, AtRest DEF Inv, Init

LEMMA StartKeeps == ASSUME Inv, NEW p \in Updaters, Start(p) PROVE Inv'
<1>1. PICK mode \in Modes, parent \in {NoTree, manifest[p].inv} :
        up' = [up EXCEPT ![p] =
          [Idle EXCEPT !.pc = NextStep(mode, Tree(head)), !.mode = mode, !.inv = head,
                       !.planned = Tree(head), !.todo = Tree(head)]]
  BY PlannedIsTree DEF Start
<1> DEFINE l == [Idle EXCEPT !.pc = NextStep(mode, Tree(head)), !.mode = mode, !.inv = head,
                             !.planned = Tree(head), !.todo = Tree(head)]
<1>2. LocalOK(l)
  BY Started DEF Inv
<1>3. l.pc \notin {"exit", "staged", "refused"}
  BY DEF Idle, NextStep
<1>4. up' = [up EXCEPT ![p] = l] /\ UNCHANGED <<head, entry, manifest>>
  BY <1>1 DEF Start, disk
<1> HIDE DEF l
<1> QED
  BY <1>2, <1>3, <1>4, QuietStep

LEMMA ReuseKeeps == ASSUME Inv, NEW p \in Updaters, Reuse(p) PROVE Inv'
<1> DEFINE u == Unit(p)
<1>1. LocalOK(up[p]) /\ u = CurrentUnit(up[p])
  BY DEF Inv, Unit, File, CurrentUnit, Current
<1>2. CASE Look(p)
  <2>1. CASE entry[u] = "none"
    BY <1>2, <2>1, Misses, QuietStep DEF Look, At, disk, env
  <2>2. CASE entry[u] # "none"
    <3>1. LocalOK([up[p] EXCEPT !.pc = "read"])
      BY <1>1, <1>2, Moved DEF Look, At, Planning, LocalOK
    <3>2. up' = [up EXCEPT ![p] = [up[p] EXCEPT !.pc = "read"]]
          /\ [up[p] EXCEPT !.pc = "read"].pc = "read"
      BY <1>1, <1>2, <2>2 DEF Look, Goto, LocalOK, LocalNames
    <3> QED
      BY <1>2, <3>1, <3>2, QuietStep DEF Look, disk, env
  <2> QED
    BY <2>1, <2>2
<1>3. CASE Read(p)
  <2>1. up[p].pc = "read" /\ up[p].pc \in Planning /\ up[p].mode = "delta"
    BY <1>1, <1>3 DEF Read, At, Planning, LocalOK, Modes
  <2>2. u \in Units
    BY <1>1, <2>1, CurrentIsToDo
  <2>3. CASE ~Validates(entry[u]) \/ up[p].holds
    <3> DEFINE label == IF ~Validates(entry[u]) THEN "setAside" ELSE "release"
    <3>1. label = "release" => u \notin Refusing
      BY <1>1, <2>1, <2>3 DEF LocalOK
    <3>2. LocalOK([up[p] EXCEPT !.pc = label])
      BY <1>1, <2>1, <3>1, Moved DEF Planning, Modes
    <3>3. up' = [up EXCEPT ![p] = [up[p] EXCEPT !.pc = label]]
          /\ [up[p] EXCEPT !.pc = label].pc \notin {"exit", "staged", "refused"}
          /\ UNCHANGED <<head, entry, manifest>>
      BY <1>1, <1>3, <2>3 DEF Read, Goto, LocalOK, LocalNames, disk, env
    <3> HIDE DEF label
    <3> QED
      BY <3>2, <3>3, QuietStep
  <2>4. CASE Validates(entry[u]) /\ ~up[p].holds
    <3> DEFINE d == Reused(entry[u])
               rest == up[p].todo \ {Current(up[p])}
               l == [up[p] EXCEPT !.got[Current(up[p])] = d, !.todo = rest, !.holds = FALSE,
                                  !.pc = NextStep(up[p].mode, rest)]
    <3>1. u \notin Refusing
      BY <2>2, <2>4 DEF Inv, Validates
    <3>2. d \in Dispositions /\ (SameRecords(d, Fresh(up[p].inv, Current(up[p]))) \/ d = "forged")
      BY <1>1, <3>1 DEF Reused, Dispositions, SameRecords, Fresh, CurrentUnit
    <3>3. LocalOK(l)
      BY <1>1, <2>1, <3>2, Kept
    <3>4. up' = [up EXCEPT ![p] = l]
      BY <1>3, <2>4 DEF Read, Keep, File, Current, Unit
    <3>5. l.pc \notin {"exit", "staged", "refused"}
      BY <1>1 DEF LocalOK, LocalNames, NextStep
    <3>6. UNCHANGED <<head, entry, manifest>>
      BY <1>3 DEF Read, disk, env
    <3> HIDE DEF l
    <3> QED
      BY <3>3, <3>4, <3>5, <3>6, QuietStep
  <2> QED
    BY <2>3, <2>4
<1>4. CASE SetAside(p)
  <2>1. up[p].pc = "setAside" /\ up[p].pc \in Planning
    BY <1>4 DEF SetAside, At, Planning
  <2>2. /\ entry' \in [Units -> Entries] /\ manifest' = manifest /\ head' = head
        /\ \A v \in Units : entry'[v] # "none" => v \notin Refusing
    BY <1>4 DEF SetAside, Inv, Entries, env
  <2>3. CASE entry[u] = "none"
    <3>1. LocalOK([up[p] EXCEPT !.pc = "remove"])
      BY <1>1, <2>1, Moved DEF Planning, LocalOK
    <3>2. up' = [up EXCEPT ![p] = [up[p] EXCEPT !.pc = "remove"]]
          /\ [up[p] EXCEPT !.pc = "remove"].pc = "remove"
      BY <1>1, <1>4, <2>3 DEF SetAside, Goto, LocalOK, LocalNames
    <3> QED
      BY <2>2, <3>1, <3>2, OwnStep DEF Inv
  <2>4. CASE entry[u] # "none"
    BY <1>4, <2>1, <2>2, <2>4, Misses, OwnStep DEF SetAside, Inv
  <2> QED
    BY <2>3, <2>4
<1>5. CASE Remove(p)
  <2>1. up[p].pc = "remove" /\ Missed(p)
    BY <1>5 DEF Remove, At
  <2>2. /\ entry' \in [Units -> Entries] /\ manifest' = manifest /\ head' = head
        /\ \A v \in Units : entry'[v] # "none" => v \notin Refusing
    BY <1>5 DEF Remove, Inv, Entries, env
  <2> QED
    BY <2>1, <2>2, Misses, OwnStep DEF Inv
<1> QED
  BY <1>2, <1>3, <1>4, <1>5 DEF Reuse

LEMMA ProduceKeeps == ASSUME Inv, NEW p \in Updaters, Produce(p) PROVE Inv'
<1> DEFINE d == IF Unit(p) \in Refusing THEN "refused" ELSE "produced"
           rest == up[p].todo \ {Current(up[p])}
           l == [up[p] EXCEPT !.got[Current(up[p])] = d, !.todo = rest, !.holds = FALSE,
                              !.pc = NextStep(up[p].mode, rest)]
<1>1. /\ LocalOK(up[p]) /\ Unit(p) = CurrentUnit(up[p])
      /\ up[p].pc = "produce" /\ up[p].pc \in Planning
      /\ UNCHANGED <<head, entry, manifest>>
  BY DEF Inv, Unit, File, CurrentUnit, Current, Produce, At, Planning, disk, env
<1>2. CASE Unit(p) \in Refusing \/ up[p].mode = "full"
  <2>1. d \in Dispositions /\ SameRecords(d, Fresh(up[p].inv, Current(up[p])))
    BY <1>1 DEF Dispositions, SameRecords, Fresh, CurrentUnit
  <2>2. LocalOK(l)
    BY <1>1, <2>1, Kept
  <2>3. up' = [up EXCEPT ![p] = l]
    BY <1>2 DEF Produce, Keep, File, Current
  <2>4. l.pc \notin {"exit", "staged", "refused"}
    BY <1>1 DEF LocalOK, LocalNames, NextStep
  <2> HIDE DEF l
  <2> QED
    BY <1>1, <2>2, <2>3, <2>4, QuietStep
<1>3. CASE Unit(p) \notin Refusing /\ up[p].mode # "full"
  <2>1. LocalOK([up[p] EXCEPT !.pc = "lock"])
    BY <1>1, <1>3, Moved DEF Planning
  <2>2. up' = [up EXCEPT ![p] = [up[p] EXCEPT !.pc = "lock"]]
        /\ [up[p] EXCEPT !.pc = "lock"].pc = "lock"
    BY <1>1, <1>3 DEF Produce, Goto, LocalOK, LocalNames
  <2> QED
    BY <1>1, <2>1, <2>2, QuietStep
<1> QED
  BY <1>2, <1>3

LEMMA WriteKeeps == ASSUME Inv, NEW p \in Updaters, Write(p) PROVE Inv'
<1> DEFINE u == Unit(p)
<1>1. LocalOK(up[p]) /\ u = CurrentUnit(up[p])
  BY DEF Inv, Unit, File, CurrentUnit, Current
<1>2. CASE AcquireLock(p)
  <2> DEFINE l == [up[p] EXCEPT !.pc = "look", !.holds = TRUE]
  <2>1. up[p].pc = "lock" /\ up[p].pc \in Planning /\ UNCHANGED <<head, entry, manifest>>
    BY <1>2 DEF AcquireLock, At, Planning, env
  <2>2. up[p].mode # "full" /\ CurrentUnit(up[p]) \notin Refusing
    BY <1>1, <2>1 DEF LocalOK
  <2>3. LocalOK(l) /\ l.pc = "look"
    BY <1>1, <2>1, <2>2
    DEF LocalOK, Honest, Current, CurrentUnit, LocalNames, Planning, Sealed, Places
  <2>4. up' = [up EXCEPT ![p] = l]
    BY <1>2 DEF AcquireLock
  <2> QED
    BY <2>1, <2>3, <2>4, QuietStep
<1>3. CASE LockTimesOut(p)
  <2>1. LocalOK([up[p] EXCEPT !.pc = "failed"])
    BY <1>1, <1>3, Moved DEF LockTimesOut, At, Planning
  <2>2. up' = [up EXCEPT ![p] = [up[p] EXCEPT !.pc = "failed"]]
        /\ [up[p] EXCEPT !.pc = "failed"].pc = "failed"
        /\ UNCHANGED <<head, entry, manifest>>
    BY <1>1, <1>3 DEF LockTimesOut, Goto, LocalOK, LocalNames, disk, env
  <2> QED
    BY <2>1, <2>2, QuietStep
<1>4. CASE Publish(p)
  <2> DEFINE label == IF CanRename(entry[u]) THEN "release" ELSE "abandon"
             l == [up[p] EXCEPT !.pc = label]
  <2>1. up[p].pc = "publish" /\ up[p].pc \in Planning /\ UNCHANGED <<head, manifest>>
    BY <1>4 DEF Publish, At, Planning, env
  <2>2. up[p].mode # "full" /\ u \notin Refusing
    BY <1>1, <2>1 DEF LocalOK
  <2>3. LocalOK(l)
    BY <1>1, <2>1, <2>2, Moved DEF Planning
  <2>4. up' = [up EXCEPT ![p] = l] /\ l.pc \notin {"exit", "staged", "refused"}
    BY <1>1, <1>4 DEF Publish, Goto, LocalOK, LocalNames
  <2>5. /\ entry' \in [Units -> Entries]
        /\ \A v \in Units : entry'[v] # "none" => v \notin Refusing
    BY <1>4, <2>2 DEF Publish, Inv, Entries
  <2> HIDE DEF l
  <2> QED
    BY <2>1, <2>3, <2>4, <2>5, OwnStep DEF Inv
<1>5. CASE Release(p)
  <2>1. /\ up[p].pc \in {"release", "abandon"} /\ up[p].pc \in Planning
        /\ UNCHANGED <<head, entry, manifest>>
    BY <1>5 DEF Release, Planning, env
  <2>2. CASE up[p].pc = "release"
    <3> DEFINE rest == up[p].todo \ {Current(up[p])}
               l == [up[p] EXCEPT !.got[Current(up[p])] = "produced", !.todo = rest,
                                  !.holds = FALSE, !.pc = NextStep(up[p].mode, rest)]
    <3>1. SameRecords("produced", Fresh(up[p].inv, Current(up[p]))) /\ "produced" \in Dispositions
      BY <1>1, <2>1 DEF LocalOK, SameRecords, Fresh, CurrentUnit, Dispositions
    <3>2. LocalOK(l)
      BY <1>1, <2>1, <3>1, Kept
    <3>3. up' = [up EXCEPT ![p] = l]
      BY <1>5, <2>2 DEF Release, Keep, At, File, Current
    <3>4. l.pc \notin {"exit", "staged", "refused"}
      BY <1>1 DEF LocalOK, LocalNames, NextStep
    <3> HIDE DEF l
    <3> QED
      BY <2>1, <3>2, <3>3, <3>4, QuietStep
  <2>3. CASE up[p].pc = "abandon"
    <3> DEFINE l == [up[p] EXCEPT !.pc = "failed", !.holds = FALSE]
    <3>1. LocalOK(l) /\ l.pc = "failed"
      BY <1>1, <2>1
      DEF LocalOK, Honest, Current, CurrentUnit, LocalNames, Planning, Sealed, Places
    <3>2. up' = [up EXCEPT ![p] = l]
      BY <1>5, <2>3 DEF Release, At
    <3> QED
      BY <2>1, <3>1, <3>2, QuietStep
  <2> QED
    BY <2>1, <2>2, <2>3
<1> QED
  BY <1>2, <1>3, <1>4, <1>5 DEF Write

LEMMA SealKeeps == ASSUME Inv, NEW p \in Updaters, Seal(p) PROVE Inv'
<1> DEFINE l == [up[p] EXCEPT !.pc = "exit"]
<1>1. LocalOK(up[p]) /\ up[p].pc = "seal" /\ UNCHANGED <<head, entry>>
  BY DEF Inv, Seal, At, disk, env
<1>2. LocalOK(l) /\ up' = [up EXCEPT ![p] = l] /\ l.inv = up[p].inv
  BY <1>1 DEF LocalOK, Honest, LocalNames, Planning, Sealed, Places, Seal, Goto, CurrentUnit, Current
<1>3. \A f \in Tree(up[p].inv) : up[p].got[f] # "none"
  BY <1>1 DEF LocalOK, Honest, SameRecords, Fresh, Sealed, Tree
<1>4. Promotable(p)
  BY <1>1, <1>3 DEF Promotable, LocalOK, Sealed, Tree
<1>5. /\ manifest' = [q \in Updaters |-> manifest'[q]]
      /\ \A q \in Updaters \ {p} : manifest'[q] = manifest[q]
      /\ manifest'[p] = [inv |-> up[p].inv, promotable |-> TRUE]
  BY <1>4 DEF Seal, Inv, Promotable
<1> HIDE DEF l
<1> QED
  BY <1>1, <1>2, <1>5, OwnStep DEF Inv

LEMMA ExitKeeps == ASSUME Inv, NEW p \in Updaters, Exit(p) PROVE Inv'
<1> DEFINE ok == /\ manifest[p].promotable
                 /\ up[p].mode = "delta" => Equivalent(up[p].inv, up[p].got)
           l == [up[p] EXCEPT !.pc = IF ok THEN "staged" ELSE "refused"]
<1>1. /\ LocalOK(up[p]) /\ up[p].pc = "exit" /\ UNCHANGED <<head, entry, manifest>>
      /\ manifest[p] = [inv |-> up[p].inv, promotable |-> TRUE]
  BY DEF Inv, Exit, At, disk, env
<1>2. \A f \in Files : up[p].got[f] = "forged" => ~SameRecords(up[p].got[f], FullArm(up[p].inv)[f])
  BY DEF SameRecords, FullArm, Fresh
<1>3. \A f \in Files : up[p].got[f] # "forged" => SameRecords(up[p].got[f], FullArm(up[p].inv)[f])
  BY <1>1 DEF LocalOK, Honest, SameRecords, FullArm, Sealed, Tree
<1>4. ok <=> \A f \in Files : up[p].got[f] # "forged"
  <2>1. manifest[p].promotable
    BY <1>1
  <2>2. CASE up[p].mode = "delta"
    BY <2>1, <2>2, <1>2, <1>3 DEF Equivalent
  <2>3. CASE up[p].mode = "full"
    BY <2>1, <2>3, <1>1 DEF LocalOK, Honest, SameRecords, Fresh
  <2> QED
    BY <1>1, <2>2, <2>3 DEF LocalOK, Modes
<1> HIDE DEF ok
<1>5. LocalOK(l)
  BY <1>1, <1>4 DEF LocalOK, Honest, LocalNames, Planning, Sealed, Places, CurrentUnit, Current
<1>6. up' = [up EXCEPT ![p] = l] /\ l.inv = up[p].inv
  BY <1>1 DEF Exit, Goto, ok, LocalOK, LocalNames
<1> HIDE DEF l
<1> QED
  BY <1>1, <1>5, <1>6, OwnStep DEF Inv

LEMMA OutsideKeeps ==
  ASSUME Inv,
         \/ \E f \in Files : Commit(f)
         \/ \E u \in Units : Damage(u) \/ ClearLock(u)
  PROVE  Inv'
<1>1. CASE \E f \in Files : Commit(f)
  BY <1>1 DEF Inv, Commit, disk, Inventories
<1>2. ASSUME NEW u \in Units, Damage(u) \/ ClearLock(u) PROVE Inv'
  BY <1>2 DEF Inv, Damage, ClearLock, Entries
<1> QED
  BY <1>1, <1>2

LEMMA DieKeeps == ASSUME Inv, NEW p \in Updaters, Die(p) PROVE Inv'
<1>1. [Idle EXCEPT !.pc = "dead"].pc = "dead"
  BY DEF Idle
<1> QED
  BY <1>1, AtRest, QuietStep DEF Die, disk

LEMMA NextKeeps == Inv /\ [Next]_vars => Inv'
<1> SUFFICES ASSUME Inv, [Next]_vars PROVE Inv'
  OBVIOUS
<1>1. CASE UNCHANGED vars
  BY <1>1 DEF Inv, vars
<1>2. ASSUME NEW p \in Updaters, Start(p) \/ Step(p) \/ Die(p) PROVE Inv'
  BY <1>2, StartKeeps, ReuseKeeps, ProduceKeeps, WriteKeeps, SealKeeps, ExitKeeps, DieKeeps
  DEF Step
<1> QED
  BY <1>1, <1>2, OutsideKeeps DEF Next

-----------------------------------------------------------------------------
(* The theorems *)

LEMMA InvHolds == Spec => []Inv
BY InitInv, NextKeeps, PTL DEF Spec

\* What is staged is what a build without a cache gives.
THEOREM StagedIsFullAlways == Spec => []StagedIsFull
<1>1. ASSUME Inv, NEW p \in Updaters, At(p, "staged")
      PROVE  /\ manifest[p].inv = up[p].inv
             /\ \A f \in Files : up[p].got[f] # "forged"
             /\ \A f \in Tree(up[p].inv) : SameRecords(up[p].got[f], Fresh(up[p].inv, f))
  <2>1. LocalOK(up[p]) /\ manifest[p] = [inv |-> up[p].inv, promotable |-> TRUE]
    BY <1>1 DEF Inv, At
  <2> QED
    BY <1>1, <2>1 DEF At, LocalOK, Honest, Sealed, Tree
<1>2. Inv => StagedIsFull
  BY <1>1 DEF StagedIsFull
<1> QED
  BY <1>2, InvHolds, PTL

\* Nothing but a lacking entry makes the arms differ.
THEOREM RefusedForCauseAlways == Spec => []RefusedForCause
<1>1. Inv => RefusedForCause
  BY DEF Inv, RefusedForCause, At, LocalOK
<1> QED
  BY <1>1, InvHolds, PTL

\* A damaged entry leaves its place before another comes to it.
THEOREM NeverRepaired == Spec => NeverRepairedInPlace
<1>1. Inv /\ [Next]_vars =>
        [\A u \in Units : entry[u] \in {"lacking", "corrupt"} => entry'[u] # "whole"]_vars
  <2> SUFFICES ASSUME Inv, Next, NEW u \in Units, entry[u] \in {"lacking", "corrupt"}
               PROVE  entry'[u] # "whole"
    BY DEF vars
  <2>1. ASSUME NEW p \in Updaters, Publish(p) PROVE entry'[u] # "whole"
    BY <2>1 DEF Publish, CanRename, Inv
  <2>2. ASSUME NEW p \in Updaters, SetAside(p) \/ Remove(p) PROVE entry'[u] # "whole"
    BY <2>2 DEF SetAside, Remove, Inv
  <2>3. ASSUME NEW v \in Units, Damage(v) PROVE entry'[u] # "whole"
    BY <2>3 DEF Damage, Inv
  <2>4. CASE UNCHANGED entry
    BY <2>4
  <2> QED
    BY <2>1, <2>2, <2>3, <2>4
    DEF Next, Start, Step, Reuse, Look, Read, Produce, Write, AcquireLock, LockTimesOut, Release,
        Seal, Exit, Die, Commit, ClearLock, disk, env
<1> QED
  BY <1>1, InvHolds, PTL DEF Spec, NeverRepairedInPlace

-----------------------------------------------------------------------------
(* Types *)

Pcs == {"idle", "look", "read", "setAside", "remove", "produce", "lock", "publish",
        "release", "abandon", "seal", "exit", "dead"} \cup Ended
Locals == [pc : Pcs, mode : Modes, inv : Inventories, planned : SUBSET Files,
           todo : SUBSET Files, got : [Files -> Dispositions], holds : BOOLEAN]
Manifests == [inv : Inventories, promotable : BOOLEAN]

\* What of the types changes in a step of an updater.
LEMMA LocalTypes ==
  ASSUME TypeOK, NEW p \in Updaters, NEW l \in Locals, up' = [up EXCEPT ![p] = l],
         entry' \in [Units -> Entries], lock' \in [Units -> BOOLEAN],
         manifest' \in [Updaters -> Manifests],
         UNCHANGED <<head, commits, faults>>, starts' \in Nat
  PROVE  TypeOK'
BY DEF TypeOK, Locals, Pcs, Manifests

LEMMA GotoTypes ==
  ASSUME TypeOK, NEW p \in Updaters, NEW label \in Pcs, Goto(p, label),
         entry' \in [Units -> Entries], lock' \in [Units -> BOOLEAN],
         manifest' \in [Updaters -> Manifests], UNCHANGED env
  PROVE  TypeOK'
<1> DEFINE l == [up[p] EXCEPT !.pc = label]
<1>1. up[p] \in Locals
  BY DEF TypeOK, Locals, Pcs
<1>2. l \in Locals
  BY <1>1 DEF Locals
<1>3. up' = [up EXCEPT ![p] = l]
  BY DEF Goto
<1> HIDE DEF l
<1>4. UNCHANGED <<head, commits, faults>> /\ starts' \in Nat
  BY DEF env, TypeOK
<1> QED
  BY <1>2, <1>3, <1>4, LocalTypes

LEMMA KeepTypes ==
  ASSUME TypeOK, NEW p \in Updaters, NEW d \in Dispositions, Keep(p, d),
         entry' \in [Units -> Entries], lock' \in [Units -> BOOLEAN],
         manifest' \in [Updaters -> Manifests], UNCHANGED env
  PROVE  TypeOK'
<1> DEFINE f == File(p)
           rest == up[p].todo \ {f}
           n == NextStep(up[p].mode, rest)
           l == [up[p] EXCEPT !.got[f] = d, !.todo = rest, !.holds = FALSE, !.pc = n]
<1>1. up[p] \in Locals
  BY DEF TypeOK, Locals, Pcs
<1>2. n \in Pcs /\ rest \in SUBSET Files
  BY <1>1 DEF NextStep, Pcs, Locals
<1>3. up' = [up EXCEPT ![p] = l]
  BY DEF Keep
<1> HIDE DEF f, rest, n
<1>4. l \in Locals
  BY <1>1, <1>2 DEF Locals
<1> HIDE DEF l
<1>5. UNCHANGED <<head, commits, faults>> /\ starts' \in Nat
  BY DEF env, TypeOK
<1> QED
  BY <1>3, <1>4, <1>5, LocalTypes

LEMMA StartTypes == ASSUME TypeOK, NEW p \in Updaters, Start(p) PROVE TypeOK'
<1>1. PICK mode \in Modes, parent \in {NoTree, manifest[p].inv} :
        LET todo == Planned(Diff(IF mode = "full" THEN NoTree ELSE parent, head))
        IN up' = [up EXCEPT ![p] =
             [Idle EXCEPT !.pc = NextStep(mode, todo), !.mode = mode, !.inv = head,
                          !.planned = todo, !.todo = todo]]
  BY DEF Start
<1> DEFINE todo == Tree(head)
           l == [Idle EXCEPT !.pc = NextStep(mode, todo), !.mode = mode, !.inv = head,
                             !.planned = todo, !.todo = todo]
<1>2. up' = [up EXCEPT ![p] = l]
  BY <1>1, PlannedIsTree
<1>3. head \in Inventories /\ todo \in SUBSET Files
  BY DEF TypeOK, Tree
<1>4. l \in Locals
  BY <1>3 DEF Idle, Locals, Pcs, NextStep, NoTree, NoReceipts, Dispositions, Inventories
<1> HIDE DEF l
<1>5. entry' \in [Units -> Entries] /\ lock' \in [Units -> BOOLEAN]
      /\ manifest' \in [Updaters -> Manifests] /\ UNCHANGED <<head, commits, faults>>
      /\ starts' \in Nat
  BY DEF Start, disk, TypeOK, Manifests
<1> QED
  BY <1>2, <1>4, <1>5, LocalTypes

LEMMA StepTypes == ASSUME TypeOK, NEW p \in Updaters, Step(p) PROVE TypeOK'
<1>1. /\ entry \in [Units -> Entries] /\ lock \in [Units -> BOOLEAN]
      /\ manifest \in [Updaters -> Manifests]
      /\ up[p].holds \in BOOLEAN /\ up[p].inv \in Inventories
  BY DEF TypeOK, Manifests
<1>2. CASE Look(p)
  BY <1>1, <1>2, GotoTypes DEF Look, Missed, disk, Pcs
<1>3. CASE Read(p)
  BY <1>1, <1>3, GotoTypes, KeepTypes DEF Read, Reused, disk, Pcs, Dispositions
<1>4. CASE SetAside(p) \/ Remove(p)
  <2>1. entry' \in [Units -> Entries]
    BY <1>1, <1>4 DEF SetAside, Remove, Entries
  <2> QED
    BY <1>1, <1>4, <2>1, GotoTypes DEF SetAside, Remove, Missed, Pcs
<1>5. CASE Produce(p)
  BY <1>1, <1>5, GotoTypes, KeepTypes DEF Produce, disk, Pcs, Dispositions
<1>6. CASE AcquireLock(p)
  <2> DEFINE l == [up[p] EXCEPT !.pc = "look", !.holds = TRUE]
  <2>1. l \in Locals /\ up' = [up EXCEPT ![p] = l]
    BY <1>6 DEF AcquireLock, TypeOK, Locals, Pcs
  <2> HIDE DEF l
  <2>2. lock' \in [Units -> BOOLEAN]
    BY <1>1, <1>6 DEF AcquireLock
  <2>3. UNCHANGED <<head, commits, faults, starts>> /\ starts \in Nat
    BY <1>6 DEF AcquireLock, env, TypeOK
  <2> QED
    BY <1>1, <1>6, <2>1, <2>2, <2>3, LocalTypes DEF AcquireLock
<1>7. CASE LockTimesOut(p)
  BY <1>1, <1>7, GotoTypes DEF LockTimesOut, disk, Pcs, Ended
<1>8. CASE Publish(p)
  <2>1. entry' \in [Units -> Entries]
    BY <1>1, <1>8 DEF Publish, Entries
  <2> QED
    BY <1>1, <1>8, <2>1, GotoTypes DEF Publish, Pcs
<1>9. CASE Release(p)
  <2>1. lock' \in [Units -> BOOLEAN]
    BY <1>1, <1>9 DEF Release
  <2>2. CASE At(p, "release")
    BY <1>1, <1>9, <2>1, <2>2, KeepTypes DEF Release, Dispositions
  <2>3. CASE ~At(p, "release")
    <3> DEFINE l == [up[p] EXCEPT !.pc = "failed", !.holds = FALSE]
    <3>1. l \in Locals /\ up' = [up EXCEPT ![p] = l]
      BY <1>9, <2>3 DEF Release, TypeOK, Locals, Pcs, Ended
    <3> HIDE DEF l
    <3>2. UNCHANGED <<head, commits, faults, starts>> /\ starts \in Nat
      BY <1>9 DEF Release, env, TypeOK
    <3> QED
      BY <1>1, <1>9, <2>1, <3>1, <3>2, LocalTypes DEF Release
  <2> QED
    BY <2>2, <2>3
<1>10. CASE Seal(p)
  <2>1. manifest' \in [Updaters -> Manifests]
    <3>1. Promotable(p) \in BOOLEAN
      BY DEF Promotable
    <3> QED
      BY <1>1, <1>10, <3>1 DEF Seal, Manifests
  <2> QED
    BY <1>1, <1>10, <2>1, GotoTypes DEF Seal, disk, Pcs
<1>11. CASE Exit(p)
  <2>1. PICK label \in {"staged", "refused"} : Goto(p, label)
    BY <1>11 DEF Exit
  <2> QED
    BY <1>1, <1>11, <2>1, GotoTypes DEF Exit, disk, Pcs, Ended
<1> QED
  BY <1>2, <1>3, <1>4, <1>5, <1>6, <1>7, <1>8, <1>9, <1>10, <1>11 DEF Step, Reuse, Write

LEMMA OutsideTypes ==
  ASSUME TypeOK, \/ \E f \in Files : Commit(f)
                 \/ \E u \in Units : Damage(u) \/ ClearLock(u)
                 \/ \E p \in Updaters : Die(p)
  PROVE  TypeOK'
<1>1. ASSUME NEW f \in Files, Commit(f) PROVE TypeOK'
  <2>1. head' \in Inventories /\ commits' \in Nat
    BY <1>1 DEF Commit, TypeOK, Inventories
  <2> QED
    BY <1>1, <2>1 DEF Commit, disk, TypeOK
<1>2. ASSUME NEW u \in Units, Damage(u) \/ ClearLock(u) PROVE TypeOK'
  <2>1. faults' \in Nat
    BY <1>2 DEF Damage, ClearLock, Fault, TypeOK
  <2>2. CASE Damage(u)
    <3>1. PICK e \in {"lacking", "corrupt"} : entry' = [entry EXCEPT ![u] = e]
      BY <2>2 DEF Damage
    <3>2. entry' \in [Units -> Entries]
      BY <3>1 DEF TypeOK, Entries
    <3> QED
      BY <2>1, <2>2, <3>2 DEF Damage, TypeOK
  <2>3. CASE ClearLock(u)
    <3>1. lock' \in [Units -> BOOLEAN]
      BY <2>3 DEF ClearLock, TypeOK
    <3> QED
      BY <2>1, <2>3, <3>1 DEF ClearLock, TypeOK
  <2> QED
    BY <1>2, <2>2, <2>3
<1>3. ASSUME NEW p \in Updaters, Die(p) PROVE TypeOK'
  <2> DEFINE l == [Idle EXCEPT !.pc = "dead"]
  <2>1. up' = [up EXCEPT ![p] = l] /\ faults' \in Nat
    BY <1>3 DEF Die, Fault, TypeOK
  <2>2. l \in Locals
    BY DEF Idle, Locals, Pcs, Modes, NoTree, NoReceipts, Dispositions, Inventories
  <2> HIDE DEF l
  <2>3. up' \in [Updaters -> Locals]
    BY <2>1, <2>2 DEF TypeOK, Locals, Pcs
  <2> QED
    BY <1>3, <2>1, <2>3 DEF Die, disk, TypeOK, Locals, Pcs
<1> QED
  BY <1>1, <1>2, <1>3

\* Every step of every updater, fault and commit keeps the types.
THEOREM TypeCorrect == Spec => []TypeOK
<1>1. Init => TypeOK
  BY DEF Init, TypeOK, Idle, Unwritten, NoTree, NoReceipts, Modes, Dispositions, Entries,
         Inventories
<1>2. TypeOK /\ [Next]_vars => TypeOK'
  <2> SUFFICES ASSUME TypeOK, [Next]_vars PROVE TypeOK'
    OBVIOUS
  <2>1. CASE UNCHANGED vars
    BY <2>1 DEF vars, TypeOK
  <2> QED
    BY <2>1, StartTypes, StepTypes, OutsideTypes DEF Next
<1> QED
  BY <1>1, <1>2, PTL DEF Spec
=============================================================================
